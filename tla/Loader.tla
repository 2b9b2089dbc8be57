------------------------------- MODULE Loader -------------------------------
(***************************************************************************)
(* What the bootload protocol promises the host: the chip counts on its    *)
(* pins until a load begins, takes the bytes of the image in order, each   *)
(* of them once, and runs exactly that image.  No pins, bits or clocks.    *)
(***************************************************************************)
EXTENDS Integers, Sequences

CONSTANT Images         \* the programs a host may send

VARIABLES
  stage,        \* "listen", "load" or "run"
  image,        \* the program of the present host
  loaded,       \* its bytes that are in place
  led           \* what the pins show

loaderVars == <<stage, image, loaded, led>>

Shown == 0 .. 15 \cup 128 .. 143

Init ==
  /\ stage = "listen"
  /\ image \in Images
  /\ loaded = << >>
  /\ led = 0

Count ==
  /\ stage = "listen"
  /\ led' \in Shown
  /\ UNCHANGED <<stage, image, loaded>>

Begin ==
  /\ stage = "listen"
  /\ stage' = "load"
  /\ UNCHANGED <<image, loaded, led>>

Take ==
  /\ stage = "load"
  /\ Len(loaded) < Len(image)
  /\ loaded' = Append(loaded, image[Len(loaded) + 1])
  /\ stage' \in {"load", "run"}
  /\ stage' = "run" => loaded' = image
  /\ UNCHANGED <<image, led>>

\* An image of no bytes.
Run ==
  /\ stage = "load"
  /\ loaded = image
  /\ stage' = "run"
  /\ UNCHANGED <<image, loaded, led>>

Reset ==
  /\ stage' = "listen"
  /\ image' \in Images
  /\ loaded' = << >>
  /\ led' = 0

Next == Count \/ Begin \/ Take \/ Run \/ Reset

Spec == Init /\ [][Next]_loaderVars

=============================================================================
