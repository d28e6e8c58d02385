# Art-Exhibition: a TLA+ verification project

Art-Exhibition is an iOS application (Swift, UIKit, Firebase) that lets a user
sign up or log in, browse the Harvard Art Museums collection, and keep a small
profile on the device. The program's own code is
`src/Art-Project/Art-Project` (about 9,900 lines of Swift); everything under
`src/Art-Project/Pods` is vendored. Paths below are relative to
`src/Art-Project/Art-Project`. The repository has no tests and no
documentation beyond a one-line README, so the code is the only reference.

## Inventory

| component | source | state it keeps | operations | hard part |
|---|---|---|---|---|
| image loading | `Ulities/AsyncAddOperation.swift`, `Ulities/DataLoadOperation.swift`, the `willDisplay`/`didEndDisplaying`/prefetch extensions of `HomeViewController`, `RecordInformationViewController`, `NewsViewController`, `setupImage` of the cells | `loadingOperations[IndexPath]`, an `OperationQueue`, per operation `state`, `image`, `isCancelled`, `completionBlock` | display and undisplay a cell, prefetch, cancel prefetch, start/main/finish an operation, download callback, completion block | main thread, queue worker, URLSession callback and completion thread interleave; reuse of cells; slots of the queue |
| account creation | `SignUpViewController`, `SignUpViewModel`, `AuthenticationViewModel.createNewUserNameInFireBase` | form fields, `createUserSuccessfully`, Firebase account, Firestore document, Storage object | validate form, create account, upload avatar, get its URL, write document | four remote steps, each may fail; no rollback; forced casts that trap |
| log in | `LoginViewController`, `LogInViewModel`, `AuthenticationViewModel`, `AppleAuthenticationViewModel` | `email`, `password` (its `didSet` logs in), `logInUserSuccessfully`, `didValidRightFace` | e-mail, Google, Facebook, Apple, Zalo, Face ID | several logins in flight, continuations never resumed, linking instead of signing in |
| session | `SessionTimer`, `MyApplication`, `AppDelegate + Extension`, `BaseViewController` (view cycle, observers), `SideBarViewController` (log out) | the timer, registered observers, root view controller | touch, shake, expiry, log out, switch root | expiry races late logins; duplicate observers |
| profile | `SettingsViewController`, `SettingsViewModel`, `FaceIDPasswordViewController`, `FaceIDPasswordViewModel`, `UserInformationViewModel` (Core Data), `KeychainManager`, `KeychainQuery`, `BiometricIDAuth` | Core Data `User` rows, keychain items, `savedLogin` default | load the profile, save a row, enrol Face ID, find password | several users on one device; a callback path that never resumes |
| home catalogue | `HomeViewModel`, `HomeViewController`, `Loader` | `hardvardMuseumObjectModel`, `didGet...` flags, the shared loader | fetch (task group of three), reload, index into the result | re-fetch on every appearance, results dropped when `nil`, loader shared by screens |
| record information and news screens | `RecordInformationViewController`, `RecordInfomationViewModel`, `NewsViewController`, `NewsViewModel` | the person and the records of the view models, `didGet...` flags, the pictures in flight | open, appear, fetch (two calls in sequence, or a group of one), reload, go back, be replaced | the screen is left while its Task, its closures and its pictures run; a record without a person |
| building of requests | `Router.buildRequest`, `ParameterEncoding`, `URLParameterEncoder`, `JSONParameterEncoder`, `BaseEnpoint` | none | path, query, body and headers for every `HTTPTask` | values encoded twice, a label that depends on the order of the encoders, forced unwrapping |
| networking | `NetworkManager`, `Router` | `Router.task`, `NetworkManager.byte` | call, upload, download, stream, cancel | `task` is shared by concurrent requests |
| detailed news | `DetailedNewsViewController`, `DetailedNewsViewModel` | `percent`, subscriptions | stream an image with progress | unreachable from the other screens (`didSelectRowAt` is empty) |
| tab bar | `CustomTabBar`, `BaseTabBarController`, `BaseViewController` (`hideTabBarController`), the pushes and pops of the screens | `activeItem`, highlighted icons, `selectedIndex`, per screen the flag that hides or shows the bar, `isHidden` | tap a tab, animation completion, push, pop | `activeItem` is read before an asynchronous animation and written after it; screens are pushed and popped meanwhile |
| side bar | `SideBarViewController`, `SideBarViewModel` | which sections are open | slide in and out, toggle a section, log out | texts made at another time than those of the screens below |
| languages | `LocalizableManager`, `English`, `Japanese` | `LCLCurrentLanguageKey` default | set, reset, look up | texts made once and texts made anew; a default that depends on the device |
| GIF frames | `UIImage + Extension` | none | `gcdForPair`, `gcdForArray`, frame table | delays of zero, truncation to milliseconds, images that cannot be read |
| layout and drawing | `Views/*`, `setupUI` methods, sliders, slide-in presentation | none that a property could use | - | - |

### How the parts interact

The window has one root screen. The log-in screen (and the sign-up screen it
pushes) gives way to the tab bar of home, news, audio, graph and settings after
a successful log-in or sign-up; expiry of the session timer, a shake or a
log-out puts a new log-in screen there. A replaced screen is not stopped: its
Tasks, its operations and the closures it has posted run on. All screens share
`Loader.shared`, `Auth.auth()`, `GIDSignIn.sharedInstance`, `UserDefaults`, the
Core Data context and the keychain. View models report by KVO (`@objc dynamic`
flags observed with `.new`, invalidated in `viewDidDisappear`), and observers
post their work to the main queue.

### What is hard, and what correctness means

* **Image loading**: four kinds of threads share one operation without a lock.
  Correct: no cell gets the picture of another index path from an operation the
  screen still knows; a queue slot is lost only in the ways that are known; a
  waiting cell is served except in enumerated cases.
* **Account creation**: four remote steps without rollback. Correct: one writer
  per account, success only if everything is stored, no document that names a
  missing picture.
* **Log-in and session**: overlapping Tasks of several screens, callbacks that
  resume nobody, a `createUser` that signs in before the sign-up succeeds, a timer that
  races them. Correct: home with a user signed in, but for the two ways the code leaves
  open, a log-out undone only by a late answer, identities never re-attached, home under
  a running timer.
* **Profile**: fetches that share a view model, several accounts on a device.
  Correct: a saved user has his own picture, with the exception the code allows made
  explicit, and a password gets into the keychain only behind a right face on the screen
  that asked for it.
* **Catalogue, record and news screens**: a model assigned off the main thread under a
  layout computed before, a task property shared by concurrent calls, screens that are
  left while they work. Correct: no subscript out of range outside the window the code
  leaves open, a catalogue of one fetch, nothing but completion blocks of pictures
  reaching a released screen, what came is displayed, the loader goes away, a screen
  that was left is released.
* **Requests**: a value goes through two encoders. Correct: it arrives as it was given, a
  body is labelled as what it is, no endpoint loses its path or its parameters.
* **GIF frames**: a loop inside a fold inside a table. Correct: the frames keep the
  delays as they are after the floor of 0.1 s and the truncation to milliseconds.
* **Languages and side bar**: texts made at different times. Correct: the localised
  ones agree with the current language, and the switch tells which it is.
* **Tab bar**: a tap takes effect when its animation has ended, and the screen that
  is left then decides whether the bar is visible. Correct: no root screen without
  the bar but after a race, the tab tapped last is the one selected, the icons say
  which.

`PROJECT.json` lists these hazards one by one, at their lines, with the
properties that address them.

## Plan

Done, in this order:

1. `ImageLoading`, with proofs, and `Slots`, which it implements;
2. `SignUp`, with proofs, and `Registration`, which it implements;
3. `Session` (log-in, sign-up as it signs in, linking, timer, root screen), with proofs, and
   `Authentication`, which it implements;
4. `Profile` (settings, Core Data, Face ID enrolment), with proofs;
5. `Catalogue` (home catalogue on `Router.request` and `NetworkManager`), with
   proofs;
6. `TabBar` (taps, animations, screens pushed and popped), with proofs;
7. `ContentScreens` (record and news screens, with the life of a screen), with proofs;
8. `Requests` (the endpoints, `buildRequest` and the encoders), with proofs;
9. `GifFrames`, with proofs;
10. `Languages` (the switch, the texts, the side bar), with proofs.

Worth doing next: an abstract specification of a fetch (asked, answered or failed, and
displayed whole), for `Catalogue` and `ContentScreens` to implement.

## The modules

Each component has a module with its state, one action per handler, callback or
step, and its properties; an `MC` module with the definitions TLC needs; and,
where something is proved, a `Proofs` module (the two components of the settings
screen, `Profile` and `Languages`, share `SettingsProofs`; the two that compute without
anybody's interference, `Requests` and `GifFrames`, share `ComputationProofs`). Operators whose comment begins
with "Fault:" are faulty variants of the definition after them (a dropped guard,
a missing reset, a swapped order). They are part of no specification; `mutants`
in `PROJECT.json` names for each property the variant that violates it, which
shows that the property depends on that piece of the code.

**ImageLoading.** `HomeViewController`, `NewsViewController` and
`RecordInformationViewController` contain the same display and prefetch code, so
one module stands for the three. `loadingOperations` is the dictionary; per
operation there are `state`, `cancelled`, `image` and `hook` (the cell captured
by `completionBlock`). `willDisplay` is split where the code tests
`dataLoader.image` and later assigns `completionBlock`, because the download
callback runs on another thread in between; `start()` is split into the test of
`isCancelled`, `main()` and the store of `.executing`. `OperationQueue`,
`URLSession` and cell reuse are external. A mutation of the dictionary is atomic:
the code mutates it on two threads without synchronisation, and the torn
outcomes of that are memory errors with nothing to enumerate. **Slots** is what a user of
the queue sees: a job is added, waits, runs in a slot and is done, with its picture, or is
stuck; cancelling is a mark that only helps while the job waits. `ImageLoading`
instantiates it with `Phase`, which reads the phase off `worker`, `running` and `Leaked`.

**SignUp.** An attempt is the Task of one press. The form is read when the Task
starts (e-mail) and when its child starts (avatar), as in the code, not when the
button is pressed. The guard on `networkMonitor.status` is dropped, here and in `Session`:
the buttons may be pressed in every state, and a press without a connection, which only
shows an alert, is a `Touch` of `Session`. Every Firebase call may fail before or after its effect. A
failed `downloadURL` reaches the forced cast and ends the process (`Trap`), which
resets the interface but not the servers. **Registration** is the abstract
specification: an e-mail is claimed once, the attempt that holds the claim completes the
account at most once and is told of success only then, and a claim that is let go is
never given to anybody else. `SignUp` instantiates it with the accounts as `claimed`, the
documents as `stored`, the attempts between `createUser` and their end as `holds`, and
those that returned as `told`; a call whose answer is lost is a `ClaimUnheard` or a
`Store` that lets go.

**Session.** A log-in is a Task of a screen's view model. The button starts two
(the `didSet` of `password` is one), Face ID one, a social button one. Google,
Facebook, Apple and Zalo answer, refuse, or return without resuming
(`ProviderGivesNothing`); a second Apple log-in replaces the delegate of the
first. With a current user, credentials are linked, without one they sign in.
`Before` is what `UserDefaults` and Firebase kept of earlier runs. The loader is
left out: a tap hides it at any time, so it guards nothing. The histories `quiet`,
`late`, `raced` and `overtaken` record what a log-out and a firing of the timer found
under way; the properties name them as exceptions. The sign-up screen covers the log-in
screen (`PushSignUp`, `PopSignUp`). A press starts a Task of its own (`PressSignUp`), which
belongs to no log-in screen: `CreateUser` makes the new account current whatever is shown
by then, `StoreProfile` stands for the three writes that `SignUp` spells out, and
`SignUpReturns` posts the switch to home (`arrivals`) only if its sign-up screen is still on
display (`signUps`). Both switches, `SwitchToArtHome` and `ArriveAtArtHome`, end in
`ShowArtHome`; only the first remembers the log-in at once. **Authentication** is the abstract
specification: log-ins are asked for, granted or refused; a sign-up registers an e-mail
that has no account, which signs it in, and is completed or not; home is entered after a
grant or a completed sign-up, only grants, registrations and log-outs change who is signed
in, identities are attached once, and a relaunch loses the Tasks but nothing that Firebase
has. `Session` instantiates it with `currentUser`, `accounts`, `linked`, `root`, the kind of each log-in (`By`) and how far it is (`Stage`:
granted from the answer on, whether or not a screen still observes it; registered between
`createUser` and the end of a sign-up).

**Profile.** A user is a number that stands for his e-mail, password and picture;
the order of numbers is the order of e-mails, in which Core Data sorts the rows.
A fetch walks the providers of the current user and reads a document or a Google
profile. `save` uses the shared `avtarImage`. A row whose save failed stays in the context until the
process ends, so `Relaunch` may keep or drop rows. A missing document leaves the
Task suspended (`hung`). A right face on the settings screen opens the enrolment screen
(`recognised` remembers where one was found); `Enrol` stores whatever was typed, anybody's
password, under the first saved e-mail, whoever is current, and the screen is popped later
by the closure its observer posts, or by the user (`Back`).

**Catalogue.** `Appear` is `viewDidLoad` (once) and `viewDidAppear`, which starts
a fetch of one call per query. `Send` stores the data task in `Router.task`;
`Answer` resumes whatever is stored there by then. `Assign` replaces the model on
the Task's thread, `Reload` is the observer's closure on the main queue, and
`DisplayTraps` is the subscript of a section that is laid out but gone from the
model, or of an item whose section came back shorter. A section is abstracted to the fetch
and query it came from, its status code and the number of its records, or `nil`. Task-group results arrive in any order. A call that has not been sent
always can be: the three queries are fixed, so building the request succeeds.

**ContentScreens.** A screen is closed, being pushed, shown, covered, left or gone.
`viewDidAppear` starts a Task at every appearance (`PushEnds`, `OpenNews`, `Uncover`):
the person and then the person's objects on a record screen, a group of one on the news
screen. A result is assigned on the Task's thread; the closure that displays it is
posted only while the observation is registered (`posts`, `missed`). A Task and a closure
hold their screen, so `Deinit` waits for them; the completion block of a picture has it
`unowned`, so `UnownedTraps` does not. The loader is the shared one: `HideLoader` stands
for a tap on it and for the fetches of the home screen. A record may have no person.

**Requests.** Stateless code, so a state is one request being built: `Call` is an
endpoint of the application, `CallOther` any other route, `Done` the next call. A value
is abstracted to the classes of its characters (`plain`, `separator`, `unsafe`), with the
number of times each was percent-encoded: `URLParameterEncoder` encodes what a fragment
does not allow, `URLComponents` what a query does not allow, the percent sign included,
and the server decodes once. A `+` counts as plain: it arrives as it is, and what a server
makes of it is not modelled. `BuildRequest` keeps the order of the encoders, because each
sets the `Content-Type` only where there is none. The forced unwrapping of a download's
address is a trap (`UnwrapFails`).

**GifFrames.** The loops of `animatedImageWithSource`, `gcdForArray` and `gcdForPair`,
one action per turn, the sum of the delays (`AddDelay`) included. A delay is read unclamped, then clamped, then raised to the floor,
and truncated to milliseconds: `Short` are the delays whose product with 1000.0 ends just
below the integer. `delayForImageAtIndex` casts the dictionary and its values unchecked: a
file that lacks them is undefined behaviour, and is not modelled.

**Languages.** `stored` is the default of `LocalizableManager`, `preferred` what the
device asks for. The titles of the tab bar and the labels of the settings screen are made
once and again at the notification; the side bar is made anew when it slides in, and so is
the enrolment screen when it is pushed, which observes nothing. The
position of the switch is state of its own. `RelaunchDevice` is a launch on a device whose
language may have changed.

**TabBar.** The main queue is one sequence of closures: the animation of a switch
(`switchTab`), the push of an enrolment screen (`SettingsViewController.observeVM`)
and its pop (`FaceIDPasswordViewController.observeVM`). `Animate` highlights the
icons at once; `Complete` is the completion block, which assigns `selectedIndex` and
`activeItem`. `stack` holds, for each tab, `hideTabBarController` of its screens; the
top screen applies the flag and resets it when it disappears (`Applied`, `Left`), be
it covered, popped or left by a switch of tabs. A record screen hides the bar when it
is opened and shows it on the way back. Animations have one duration and therefore
end in the order they began. `SwitchToArtHome` stands for the end of a session and
the next log-in, or for a relaunch, which put a new tab bar in the window. The closure that
pops an enrolment screen has it `unowned`: when the screen was popped before (`Orphaned`) the
closure finds it still there and does nothing, or finds it released, which ends the process
like any trap. The histories `dropped`,
`overlapped` and `raced` record the exceptions that the properties name.

## The runs

| run | instance | shows |
|---|---|---|
| `image` | 2 index paths (one without a URL), 2 cells, 2 operations, 1 slot | the dictionary is sound and late completion blocks do not spoil it; a known operation delivers to the right cell; slots are lost in three ways only, and for good, and every step is one of `Slots`; a queued load is started unless leaks hold all the slots; a waiting cell is served except in the listed cases |
| `signup` | 1 e-mail, 1 avatar, 2 screens, 2 attempts | no dangling avatar, success means stored, every step is one of `Registration`; every attempt ends unless the write of its document is never answered, an observed success reaches home |
| `session_safety` | 1 e-mail, without an account or with one that is signed in from before, an Apple and a Zalo identity, 2 screens, 2 log-ins or sign-ups | home without a user only after Zalo or an overtaken log-out; a log-out holds but for late answers of log-ins and of `createUser`, home is unwatched only after a race, every step is one of `Authentication` |
| `session_liveness` | 1 e-mail, a Google and an Apple identity, 1 screen, 2 log-ins or sign-ups | log-ins end unless nobody can resume them, sign-ups end or get to their writes; success leads home |
| `profile_safety` | 2 accounts (one with a document), 2 screens, 2 fetches, 1 face | whose picture is stored, behind which face and under which e-mail a password is, what keeps the loader up |
| `profile_liveness` | 2 accounts, 1 screen, 2 fetches | the loader goes away unless its own fetch failed or hangs for want of a document |
| `catalogue` | 2 queries, 2 fetches, codes 299 and 300, sections without records or with an empty list | when a subscript of a section or an item can trap, the catalogue is of one fetch; the loader goes away, a missed assignment is repaired |
| `content_screens` | 1 record screen, 1 news screen, 2 Tasks, results of 0 and 2 records, 1 picture | when a subscript can trap, that only completion blocks reach a released screen; results are displayed, the loader goes away, a screen left behind is released |
| `requests` | 2 names, 2 identifiers (one malformed as an address), all classes of values, all tasks, encodings and headers | which values arrive, how bodies are labelled, that the endpoints lose nothing |
| `gif` | up to 3 images, delays 0, 3, 6, 8, 9, 15, 30 with a floor of 6, 9 truncated | the frames keep the delays, after the floor and the truncation, one by one and in sum; the divisor is the greatest |
| `languages` | devices in English, Japanese or neither, with and without an English localization | localised texts and switch agree with the language |
| `tabs` | 3 tabs, 3 closures and animations | when a root screen is left without the bar, which icons stay highlighted, which tap counts; every tap that is not ignored selects its tab |

**Why the bounds are enough to be interesting.** Every hazard listed needs two
actors: two operations for one cell, two attempts for one e-mail, two log-ins on
one screen or on successive ones, two fetches of one screen. Two of each are
present; with them every action and every disjunct of the next-state relations
fires. Two index paths with two cells force reuse; one slot makes the leak of a
single operation visible to the other; codes 299 and 300 are the border between
success and failure; results of 0 and 2 records shrink and grow a layout of one cell;
the delays hold zero, values below the floor, coprime values and a truncated one.
Bounds that the code does not have: `Ops`, `Attempts`, `Logins`, `Fetches`, `Screens`,
`Records`, `News` (identities are used once), `MaxBatch`, `MaxSwitches`, `MaxFaces`,
`MaxPictures`, `MaxImages`, `MaxPosted` (three in flight hold two switches and a push
or a pop). A section without records is laid out as one item, one with an empty list as
none, so that a section can come back shorter. `MaxSwitches` bounds what returning from the sign-up screen posts; log-ins that
return still post a second closure. Symmetry is used in `session_safety` and `profile_safety`
only, neither of which checks liveness. The
liveness of a log-in whose screen is replaced is outside `session_liveness`, which has
one screen; `session_safety` has two. A launch with an account and nobody signed in is
part of `session_liveness` only.

**Deadlock** is checked except in the runs `catalogue` and `content_screens`: there the
only thing left to do after the last fetch, with the screen covered, is another
appearance, which the bound excludes. The other models always leave the user something to do.

**Fairness.** Weak fairness, of what the platform guarantees: a Task that can run
is scheduled, the main queue and the operation queue are served, an animation ends, a network call is
answered or times out (`timeoutIntervalForRequest` in `Router`, the defaults of
`URLSession`, Firebase Auth, Storage and the reads of Firestore elsewhere). A write to
Firestore is not fair: it has no timeout, and while the device is offline its completion is
not called (`FIRDocumentReference.h`), so an attempt to sign up may wait for `setData` for
ever. In `Session` the background fetch of the saved user ends, and whoever is asked by a
provider's sheet or by Face ID answers or cancels; in `ContentScreens` a push ends and a
screen that nothing holds is released (reference counting). Nothing else is assumed of the
user: no press, tap, appearance or pop is fair, and neither the session timer nor a picture is.

**What the runs say about the code, in short.** Some properties hold only with an
exception, and the exception is a behaviour of the code worth knowing: a failed
download holds a slot of the queue for ever (`Leaked`); an account whose creation
broke off can never be completed (`Registration` has no action for it, `OrphanForever`);
home is shown with nobody signed in after a log-in by Zalo, or when a log-out overtakes
a switch that is waiting (`SignedInAtHome`); a log-out can be undone by a
log-in or a sign-up that was under way (`LogOutHolds`); an attempt to sign up may wait for
ever for the write of its document (`AttemptEnds`); a social user whose session expired is
refused until a log-out (`LinkedOnce`, and `Attach` of `Authentication`); whatever is typed on the enrolment screen is stored for the first saved e-mail, not for the
current user, though only behind a right face (`EnrolledByFace`); two fetches of one settings
screen can mix pictures (`PictureOwn`); a catalogue with fewer sections, or a shorter one, assigned while the one before it
is displayed can trap (`TrapOnlyInWindow`); a picture opened while a switch of
tabs is animated leaves the other tab without bar and back button
(`StrandedOnlyByRace`); a tap back to the tab that is still active is ignored
(`LastTapWins`), and after two quick taps two icons can stay highlighted
(`HighlightSound`); a picture that is loading when its screen is released can end the process, and nothing else
of that screen can (`ReleasedIsUntouched`, `UnownedTraps`); the loader of a record without a person stays until it is
tapped (`LoaderHides` of `ContentScreens`); a value with a space arrives escaped at the
server (`QueryArrives`), and a JSON body that follows a query is labelled as a form
(`BodyLabelled`; no endpoint of the application sends one); on a Japanese device the
language switch can be on while the application speaks English (`SwitchTruthful` excludes that
device). `raced` of `TabBar` stays set until the next tab bar: `StrandedOnlyByRace` says
nothing of a session after its first race.

## The proofs

All theorems are about `Spec` (`LanguagesSpec` in `Languages`, `GifSpec` in `GifFrames`), for every value of the constants that satisfies the
`ASSUME`s of the module; those say only that `nil` is not an identity of
something, that sets which are counted are finite, and that bounds and codes are
numbers. Each proof has an inductive invariant, one lemma per action (or per group
of actions that leave the same things alone) and a temporal step.

* `ImageLoadingProofs`: `TypeOK`, `DictSound`, `RightCell`,
  `BlankOnlyFromCancelled`, `SlotAccounted` and the action property
  `LeakIsForever`. `DictSound` is not inductive alone: a new operation must have
  left no trace (`FreshInv`), a completion block that runs must exist
  (`CompletionsInv`), the picture is there once the callback is past its guard
  (`ImageInv`), and the cell of a `willDisplay` in progress has not moved
  (`WillDisplayInv`). `SlotInv` follows the pair of worker and download.
  `BlankOnlyFromCancelled` and `LeakIsForever` are proved only. `QueueImplements` is the
  refinement of `Slots`: the slots it counts are `running` (`HeldIsRunning`), an operation that is cancelled was
  added (`CreatedInv`), the three leaks are one `Stick` each, and a notification that is
  heard finds the picture there.
* `SignUpProofs`: `TypeOK`, `OneCreator`, `SuccessMeansStored`, `DocumentSound` and
  the action property `OrphanForever`. The invariant says what an attempt has
  achieved at each step after `createUser` (`CreatorInv`) and that nothing is
  stored without an account (`NothingStored`): Firebase's refusal of a second
  account is what makes the writer single. `SignUpImplements` is the refinement: `Init`
  maps to `Registration!Init` and every step, under the invariant, to a step of
  `Registration` or a stutter. `OneCreator` and `OrphanForever` are proved only.
* `SessionProofs`: `TypeOK`, `SignedInAtHome`, `LogOutHolds`, `LinkedOnce` and
  `WatchedUnlessRaced`. Each has a part of the invariant `IInv` to itself. `HomeInv`: with
  nobody signed in and no excuse, nothing is on its way to home (no switch waits, the
  screen on display has no success, no log-in of that screen returns or links, no sign-up of
  the sign-up screen on display is past `createUser`); a log-out keeps it because the screen
  it makes is one no Task belongs to.
  `WatchInv`: with the timer off, and not because of a race, nothing is under way.
  `QuietInv`: since a log-out, what is under way was so then. `LinkInv`: what was linked
  is attached, and stays so. `StepsInv` says what a log-in carries at each of its steps,
  without which not even the types are inductive. `LinkedOnce` is proved only.
  `SessionImplements` is the refinement of `Authentication`; it needs, besides, that a
  success reported or on its way to home belongs to a log-in that was granted or a sign-up
  that was completed since the launch, and that Zalo's log-ins never come to Firebase (`AnswerInv`).
* `CatalogueProofs`: `TypeOK`, `TrapOnlyInWindow` and `ModelOfOneFetch`. A collection consists of accepted answers to the fetch's own
  calls, each of which is over (`CollectionInv`): so an answer cannot be collected
  twice, and what is assigned is of one fetch. `TaskInv` says the task property is set before
  any answer, without which the types are not inductive (`resumed` would hold `nil`). A layout
  that was just taken from the model fits it, section by section.
* `ComputationProofs`, about `Requests`: `QueryArrives`, `BodyLabelled` and
  `EndpointsSound`, for any names and identifiers. The invariant ties the request to its
  route and the route to the call; the rest are lemmas about what each encoder does to each
  field.
* `ComputationProofs`, about `GifFrames`: its types and `FramesExact`, for any number of
  images and any delays. `GcdInv` says that the divisors of `gcd` are the common divisors of
  the delays folded so far, and that a turn of `gcdForPair` does not change the common
  divisors of its pair, so that at the end `gcd` divides every delay and no common divisor
  exceeds it. `FramesInv` counts the frames of each image. The sum of the delays is never
  computed in the proof: `SumInv` says that some sequence of running totals has `duration`
  and the length of `frames` on it, and each turn of a loop extends or advances it, which
  takes the place of an induction over the delays.
* `SettingsProofs`, about `Profile`: `TypeOK`, `LoaderOwed`, `PictureOwn` and
  the action property `EnrolledByFace`. What a fetch carries at each of its steps (`FetchInv`) is what
  makes the types inductive. A loader that shows belongs to a fetch that runs, failed or
  hangs (`LoaderInv`). `avtarImage` is a property of the screen which a fetch writes
  before it saves: until two fetches meet there, it is the picture of the fetch about
  to save (`AvatarInv`), and so every row has its own user's picture (`RowsInv`). What is
  saved comes from users that signed in (`AuthInv`, `RowsInv`), and a screen with an enrolment
  screen over it, or one on its way, has recognised a face (`GateInv`): so the one step that
  changes the keychain does it behind that face and for such a user. That the fetch without a
  predicate finds a first row at all is `FirstFacts`, from the well-foundedness of `<`.
* `SettingsProofs`, about `LanguagesSpec` of `Languages`: its types, `TextsCurrent` and
  `SwitchTruthful`, inductive together with the fact that Japanese can be chosen.
* `ContentScreensProofs`: `TypeOK`, `SubscriptOnlyInWindow` and the action property
  `ReleasedIsUntouched`. The window property is inductive with the types, given
  that every fetch under way has a screen to assign to (`OwnerInv`). The other
  needs that a released screen has no Task that awaits a call and no closure on the main queue
  (`TasksQuiet`, `PostsQuiet`): a Task starts only on a screen that appears, and a closure is
  posted only for one that is observed.
* `TabBarProofs`: `TypeOK`, `StrandedOnlyByRace`, `LastTapWins` and `HighlightSound`, for any
  number of tabs and of closures in flight. `CalmInv` says that without a race only the tab on
  display has a pushed screen, one at most, with no flag waiting, and that the bar is
  hidden only under it; that no tab loses its root is part of `TypeOK`, because a closure pops
  only a screen above it.
  `LastInv` follows the last switch in flight from the queue through the animations
  to `selectedIndex`. `HighlightSound` rests on `LitInv`, a switch never dims the icon it
  lights, so the latest target stays lit, and on `SoleInv`, without overlapping switches
  one is in flight at most and leaves the selected tab, so nothing else is lit.

Every invariant, action property and refinement that a run checks is thus a theorem. Only
model-checked are the liveness properties (`QueuedIsServed`, `WaitingCellIsServed`,
`AttemptEnds`, `SuccessReachesHome`, `LoginEnds`, `LoaderHides`, `MissedIsRepaired`,
`ResultIsDisplayed`, `LeftIsReleased`, `TapIsServed`): they rest on fairness and `ENABLED`,
outside what the proof system handles.

## Not modelled

Layout, drawing and animation (beyond the tab bar), `resize` and `rotate` of pictures
and the arrows of the side bar included; the content of records, names and messages; the
decoding of JSON (an answer decodes or not); the network log; the network monitor, whose
flag guards the log-in and the sign-up button (the models press them in every state, which
allows more); the open sections of the side bar; the audio and graph screens, which do nothing; the dark-mode switch,
whose handler is empty. The detailed news screen is opened by nobody
(`didSelectRowAt` is empty), and its progress is a formula in floating-point seconds
and bytes; with it `streamDownload` of `Router` has no caller, and `upload` and `cancel` have none
either (`download` has one, the picture of the profile: `GetImage` of `Profile`). Two threads mutate `loadingOperations` without a lock: what
a torn dictionary does is not enumerable, so the mutations are atomic in the model. The
libraries (Firebase, Google, Facebook, Zalo, Core
Data, the keychain) appear through the outcomes the code can see. Face
ID's look-up of a password is `Enrolled` in `Session`; the keychain's deletions are
called by nobody.
