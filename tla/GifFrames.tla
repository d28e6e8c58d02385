----------------------------- MODULE GifFrames -----------------------------
(***************************************************************************)
(* UIImage.animatedImageWithSource: a GIF becomes a list of frames, all    *)
(* shown for the same time, in which an image is repeated in proportion to *)
(* its delay.  The common time is the greatest common divisor of the       *)
(* delays, folded over the array by gcdForPair, whose loop is modelled     *)
(* step by step.  The names are prefixed where Requests, the other         *)
(* component that only computes, has one of its own: the proofs extend     *)
(* both modules.                                                           *)
(***************************************************************************)
EXTENDS Integers, Sequences, FiniteSets

CONSTANTS
    MaxImages,  \* bound on the images of a source
    Delays,     \* the delays a file can hold, in milliseconds
    Short,      \* those for which the product with 1000.0 ends just below the number
    MinDelay    \* 0.1 seconds

ASSUME DelayAssumption ==
    /\ MaxImages \in Nat
    /\ Delays \subseteq Nat
    /\ Short \subseteq {d \in Delays : d > MinDelay}
    /\ MinDelay \in Nat \ {0}

VARIABLES
    pc,         \* "read" (images, then the sum of their delays), "gcd" (the next value),
                \* "pair" (the loop), "frames", "shown" or "nil"
    count,      \* CGImageSourceGetCount
    delays,     \* the delays read, one for each image read
    duration,   \* the sum of the delays added so far
    gcd,        \* the divisor of the values folded so far
    next,       \* the index of the next delay, value or image
    a, b,       \* the variables of gcdForPair
    frames      \* the indices of the images shown

gifVars == <<pc, count, delays, duration, gcd, next, a, b, frames>>

GifTypeOK ==
    /\ pc \in {"read", "gcd", "pair", "frames", "shown", "nil"}
    /\ count \in 0..MaxImages
    /\ delays \in Seq(Nat \ {0}) /\ Len(delays) <= count
    /\ duration \in Nat
    /\ gcd \in Nat \ {0}
    /\ next \in 1..(count + 1)
    /\ a \in Nat \ {0} /\ b \in Nat \ {0}
    /\ frames \in Seq(1..count)

\* The source is opened: what is not read yet has no value of interest.
GifInit ==
    /\ pc = "read"
    /\ count \in 0..MaxImages
    /\ delays = <<>> /\ frames = <<>>
    /\ duration = 0 /\ gcd = 1 /\ next = 1 /\ a = 1 /\ b = 1

-----------------------------------------------------------------------------
\* delayForImageAtIndex: the unclamped delay, or the clamped one, and a tenth of a second
\* at least.  The properties of the image are there and hold numbers, as ImageIO writes
\* them for a GIF: a missing dictionary or key, which the code would bit-cast from nil, is
\* undefined behaviour that usually ends the process, and is not modelled.
DelayForImage(unclamped, clamped) ==
    LET delay == IF unclamped = 0 THEN clamped ELSE unclamped
    IN  IF delay < MinDelay THEN MinDelay ELSE delay

\* Int(delaySeconds * 1000.0) truncates.
Milliseconds(delay) == IF delay \in Short THEN delay - 1 ELSE delay

\* One turn of the loop that reads the images.
ReadImage(unclamped, clamped) ==
    /\ pc = "read" /\ Len(delays) < count
    /\ delays' = Append(delays, Milliseconds(DelayForImage(unclamped, clamped)))
    /\ UNCHANGED <<pc, count, duration, gcd, next, a, b, frames>>

\* CGImageSourceCreateImageAtIndex gives no image: the animation is nil.
ReadFails ==
    /\ pc = "read" /\ Len(delays) < count
    /\ pc' = "nil"
    /\ UNCHANGED <<count, delays, duration, gcd, next, a, b, frames>>

\* One turn of the loop that adds up the delays.
AddDelay ==
    /\ pc = "read" /\ Len(delays) = count /\ next <= count
    /\ duration' = duration + delays[next]
    /\ next' = next + 1
    /\ UNCHANGED <<pc, count, delays, gcd, a, b, frames>>

\* gcdForArray is entered: 1 for an empty array, else its first value.
GcdForArray ==
    /\ pc = "read" /\ Len(delays) = count /\ next > count
    /\ gcd' = IF count = 0 THEN 1 ELSE delays[1]
    /\ pc' = "gcd" /\ next' = 1
    /\ UNCHANGED <<count, delays, duration, a, b, frames>>

\* gcdForPair(val, gcd) is called; smaller and larger value are swapped.
GcdForPair ==
    /\ pc = "gcd" /\ next <= count
    /\ IF delays[next] < gcd THEN a' = gcd /\ b' = delays[next]
                            ELSE a' = delays[next] /\ b' = gcd
    /\ pc' = "pair"
    /\ UNCHANGED <<count, delays, duration, gcd, next, frames>>

\* Fault: the loop ends when the rest is one too.
GcdStepEarly ==
    /\ pc = "pair"
    /\ LET rest == a % b
       IN  \/ /\ rest <= 1
              /\ gcd' = b /\ next' = next + 1 /\ pc' = "gcd"
              /\ UNCHANGED <<a, b>>
           \/ /\ rest > 1
              /\ a' = b /\ b' = rest
              /\ UNCHANGED <<pc, gcd, next>>
    /\ UNCHANGED <<count, delays, duration, frames>>

\* One turn of the loop of gcdForPair.
GcdStep ==
    /\ pc = "pair"
    /\ LET rest == a % b
       IN  \/ /\ rest = 0
              /\ gcd' = b /\ next' = next + 1 /\ pc' = "gcd"
              /\ UNCHANGED <<a, b>>
           \/ /\ rest # 0
              /\ a' = b /\ b' = rest
              /\ UNCHANGED <<pc, gcd, next>>
    /\ UNCHANGED <<count, delays, duration, frames>>

GcdKnown ==
    /\ pc = "gcd" /\ next > count
    /\ pc' = "frames" /\ next' = 1
    /\ UNCHANGED <<count, delays, duration, gcd, a, b, frames>>

\* One turn of the loop over the images.
AppendFrames ==
    /\ pc = "frames" /\ next <= count
    /\ frames' = frames \o [k \in 1..(delays[next] \div gcd) |-> next]
    /\ next' = next + 1
    /\ UNCHANGED <<pc, count, delays, duration, gcd, a, b>>

\* animatedImage(with:duration:), which gives nil for no frames.
Animate ==
    /\ pc = "frames" /\ next > count
    /\ pc' = IF frames = <<>> THEN "nil" ELSE "shown"
    /\ UNCHANGED <<count, delays, duration, gcd, next, a, b, frames>>

\* The result is returned, and the next source opened.
Return ==
    /\ pc \in {"shown", "nil"}
    /\ pc' = "read" /\ count' \in 0..MaxImages
    /\ delays' = <<>> /\ frames' = <<>>
    /\ duration' = 0 /\ gcd' = 1 /\ next' = 1 /\ a' = 1 /\ b' = 1

GifNext ==
    \/ \E unclamped, clamped \in Delays : ReadImage(unclamped, clamped)
    \/ ReadFails \/ AddDelay
    \/ GcdForArray \/ GcdForPair \/ GcdStep \/ GcdKnown
    \/ AppendFrames \/ Animate \/ Return

GifSpec == GifInit /\ [][GifNext]_gifVars

-----------------------------------------------------------------------------
(***************************************************************************)
(* Properties.                                                             *)
(***************************************************************************)
Divides(d, n) == n % d = 0

\* The positions at which an image is shown.
FramesOf(i) == {k \in DOMAIN frames : frames[k] = i}

\* The animation keeps the delays as they are after the floor of a tenth of a second
\* and the truncation to milliseconds (delayForImageAtIndex, Int(delaySeconds * 1000.0)):
\* every image is shown in its turn, for as many frames as make up its delay exactly,
\* and no longer common time would do; so the frames, each shown for duration /
\* frames.count, add up to the duration.  It is nil only for a source with no image or
\* with one that cannot be read.
FramesExact ==
    /\ pc = "shown" =>
          /\ \A i \in 1..count : gcd * Cardinality(FramesOf(i)) = delays[i]
          /\ \A j, k \in DOMAIN frames : j < k => frames[j] <= frames[k]
          /\ \A d \in 1..delays[1] : (\A i \in 1..count : Divides(d, delays[i])) => d <= gcd
          /\ gcd * Len(frames) = duration
    /\ pc = "nil" => count = 0 \/ Len(delays) < count
=============================================================================
