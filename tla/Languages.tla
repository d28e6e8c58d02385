----------------------------- MODULE Languages ------------------------------
(***************************************************************************)
(* The language of the application: LocalizableManager, the switch on the  *)
(* settings screen and the texts that follow it, those of the tab bar and  *)
(* of the settings screen (both observe the change) and those of the side  *)
(* bar and of the enrolment screen (made anew whenever they are shown,     *)
(* with no observer).                                                      *)
(*                                                                         *)
(* A text is abstracted to its language; the tables are left out.  The     *)
(* names are prefixed where Profile, the other component of the settings   *)
(* screen, has one of its own: the proofs extend both modules.             *)
(***************************************************************************)

CONSTANT
    Nil         \* nil

Translated == {"en", "ja"}

ASSUME NilAssumption == Nil \notin Translated \cup {"Base"}

VARIABLES
    available,  \* Bundle.main.localizations
    preferred,  \* preferredLocalizations.first: what the device asks for
    stored,     \* UserDefaults: LCLCurrentLanguageKey
    tabTitles,  \* the language of the titles of the tab bar, Nil on the log-in screen
    settings,   \* the settings screen: its labels and its switch, Nil until first shown
    enrolment,  \* the language of the buttons of the enrolment screen, Nil if none
    sideBar     \* the language of the texts of the side bar, Nil when closed

languagesVars == <<available, preferred, stored, tabTitles, settings, enrolment, sideBar>>

LanguagesTypeOK ==
    /\ available \subseteq Translated \cup {"Base"}
    /\ preferred \in Translated \cup {Nil}
    /\ stored \in Translated \cup {Nil}
    /\ tabTitles \in Translated \cup {Nil}
    /\ settings \in [labels : Translated, isOn : BOOLEAN] \cup {Nil}
    /\ enrolment \in Translated \cup {Nil}
    /\ sideBar \in Translated \cup {Nil}

-----------------------------------------------------------------------------
(***************************************************************************)
(* LocalizableManager.                                                     *)
(***************************************************************************)
DefaultLanguage == IF preferred \in available THEN preferred ELSE "en"

CurrentLanguage == IF stored # Nil THEN stored ELSE DefaultLanguage

\* The observers of the notification translate what they show; the switch was flipped.
Translate(language) ==
    /\ tabTitles' = language
    /\ settings' = [settings EXCEPT !.labels = language, !.isOn = ~@]

\* Fault: the change is announced before it is stored.
SetCurrentLanguageLate(language) ==
    LET selected == IF language \in available THEN language ELSE DefaultLanguage
    IN  IF selected = CurrentLanguage
        THEN UNCHANGED <<stored, tabTitles>> /\ settings' = [settings EXCEPT !.isOn = ~@]
        ELSE Translate(CurrentLanguage) /\ stored' = selected

\* setCurrentLanguage, called when the switch was flipped: a language that changes is
\* stored, and announced.
SetCurrentLanguage(language) ==
    LET selected == IF language \in available THEN language ELSE DefaultLanguage
    IN  IF selected = CurrentLanguage
        THEN UNCHANGED <<stored, tabTitles>> /\ settings' = [settings EXCEPT !.isOn = ~@]
        ELSE stored' = selected /\ Translate(selected)

-----------------------------------------------------------------------------
(***************************************************************************)
(* The screens.                                                            *)
(***************************************************************************)

\* A build of the project, with or without a localization for English, and a device.
LanguagesInit ==
    /\ available \in {{"Base", "ja"}, {"Base", "en", "ja"}}
    /\ preferred \in Translated \cup {Nil}
    /\ stored = Nil
    /\ tabTitles = Nil /\ settings = Nil /\ enrolment = Nil /\ sideBar = Nil

\* The tab bar is made with its titles; the settings screen is not loaded yet.
SwitchToArtHome ==
    /\ tabTitles' = CurrentLanguage
    /\ settings' = Nil /\ enrolment' = Nil /\ sideBar' = Nil
    /\ UNCHANGED <<available, preferred, stored>>

\* A log-out, or the end of the session: the tab bar and its screens are replaced.
SwitchToLogin ==
    /\ tabTitles # Nil
    /\ tabTitles' = Nil /\ settings' = Nil /\ enrolment' = Nil /\ sideBar' = Nil
    /\ UNCHANGED <<available, preferred, stored>>

\* Fault: the switch is on as soon as a language is stored.
IsOnWhenStored == stored # Nil

\* The initial position of the switch.
IsOn == CurrentLanguage # DefaultLanguage

\* The settings screen is shown for the first time.
LoadSettings ==
    /\ tabTitles # Nil /\ sideBar = Nil
    /\ settings = Nil
    /\ settings' = [labels |-> CurrentLanguage, isOn |-> IsOn]
    /\ UNCHANGED <<available, preferred, stored, tabTitles, enrolment, sideBar>>

\* The switch is flipped: on is Japanese, off the language of the device.
ChangeLanguages ==
    /\ settings # Nil /\ enrolment = Nil /\ sideBar = Nil
    /\ SetCurrentLanguage(IF settings.isOn THEN DefaultLanguage ELSE "ja")
    /\ UNCHANGED <<available, preferred, enrolment, sideBar>>

\* A closure of the settings screen pushes the enrolment screen over it, whatever is on
\* display.
OpenEnrolment ==
    /\ settings # Nil
    /\ enrolment = Nil
    /\ enrolment' = CurrentLanguage
    /\ UNCHANGED <<available, preferred, stored, tabTitles, settings, sideBar>>

\* The back button, or the closure posted when the password was saved.
CloseEnrolment ==
    /\ enrolment # Nil
    /\ enrolment' = Nil
    /\ UNCHANGED <<available, preferred, stored, tabTitles, settings, sideBar>>

\* The side bar slides in over the tab on display.
OpenSideBar ==
    /\ tabTitles # Nil /\ sideBar = Nil
    /\ sideBar' = CurrentLanguage
    /\ UNCHANGED <<available, preferred, stored, tabTitles, settings, enrolment>>

CloseSideBar ==
    /\ sideBar # Nil
    /\ sideBar' = Nil
    /\ UNCHANGED <<available, preferred, stored, tabTitles, settings, enrolment>>

\* The language of the device is changed, which ends the process; it is launched again.
RelaunchDevice ==
    /\ preferred' \in Translated \cup {Nil}
    /\ tabTitles' = Nil /\ settings' = Nil /\ enrolment' = Nil /\ sideBar' = Nil
    /\ UNCHANGED <<available, stored>>

LanguagesNext ==
    \/ SwitchToArtHome \/ SwitchToLogin \/ LoadSettings \/ ChangeLanguages
    \/ OpenEnrolment \/ CloseEnrolment \/ OpenSideBar \/ CloseSideBar \/ RelaunchDevice

LanguagesSpec == LanguagesInit /\ [][LanguagesNext]_languagesVars

-----------------------------------------------------------------------------
(***************************************************************************)
(* Properties.                                                             *)
(***************************************************************************)

\* The localised texts of the tab bar, the settings, the enrolment screen and the side
\* bar are in the current language: texts that follow the change and texts that were
\* made once never differ, through switches, log-outs and launches on a device whose
\* language changed.  (LOG OUT and the header of the side bar are literals, and no part
\* of this.)
TextsCurrent ==
    /\ tabTitles # Nil => tabTitles = CurrentLanguage
    /\ settings # Nil => settings.labels = CurrentLanguage
    /\ enrolment # Nil => enrolment = CurrentLanguage
    /\ sideBar # Nil => sideBar = CurrentLanguage

\* The switch is on exactly if the application speaks Japanese, unless the device does:
\* then Japanese is the default, and a switch that is on at first means a stored English
\* (SettingsViewController compares with the default, not with Japanese).
SwitchTruthful ==
    settings # Nil /\ DefaultLanguage # "ja" => (settings.isOn <=> CurrentLanguage = "ja")
=============================================================================
