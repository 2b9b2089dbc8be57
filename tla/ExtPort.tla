------------------------------- MODULE ExtPort ------------------------------
(***************************************************************************)
(* What the external port promises to mem.v, with no bus, no clock and no  *)
(* shift register: an access is carried out once, a byte at a time in      *)
(* address order, on the device it names; it is answered after its last    *)
(* byte and never without having been asked; and a reset abandons it,      *)
(* leaving a write with some prefix of its bytes stored.                   *)
(***************************************************************************)
EXTENDS Serial

VARIABLES
  valid,        \* an access is asked for; stays up until it is answered
  acc,          \* that access
  ready,        \* the answer, up for one step
  rdata,        \* what the last answer carried
  moved,        \* bytes of the present access carried out so far
  store         \* the bytes of each device

portVars == <<valid, acc, ready, rdata, moved, store>>

ReadWord(m, a, n) ==
  [i \in 0 .. 31 |->
     IF i < 8 * n THEN m[Idx(Plus(a, 24, i \div 8))][i % 8] ELSE 0]

WriteByte(m, a, k, wd) == [m EXCEPT ![Idx(Plus(a, 24, k))] = Lane(wd, k)]

Init ==
  /\ valid = FALSE
  /\ acc \in Access
  /\ ready = FALSE
  /\ rdata = Zeros(32)
  /\ moved = 0
  /\ store \in InitStore

Ask ==
  /\ ~valid
  /\ valid' = TRUE
  /\ acc' \in Access
  /\ UNCHANGED <<ready, rdata, moved, store>>

MoveByte ==
  /\ valid /\ ~ready
  /\ moved < Bytes(acc.size)
  /\ moved' = moved + 1
  /\ store' = IF acc.we
                THEN [store EXCEPT ![acc.dev] =
                        WriteByte(@, acc.addr, moved, acc.wdata)]
                ELSE store
  /\ UNCHANGED <<valid, acc, ready, rdata>>

\* What `rdata` shows after a write is not promised.
Answer ==
  /\ valid /\ ~ready
  /\ moved = Bytes(acc.size)
  /\ moved' = 0
  /\ ready' = TRUE
  /\ IF acc.we
       THEN rdata' \in Word
       ELSE rdata' = ReadWord(store[acc.dev], acc.addr, Bytes(acc.size))
  /\ UNCHANGED <<valid, acc, store>>

Acknowledge ==
  /\ valid /\ ready
  /\ valid' = FALSE
  /\ acc' \in Access
  /\ ready' = FALSE
  /\ UNCHANGED <<rdata, moved, store>>

Abandon ==
  /\ valid' = FALSE
  /\ acc' \in Access
  /\ ready' = FALSE
  /\ rdata' = Zeros(32)
  /\ moved' = 0
  /\ UNCHANGED store

Next == Ask \/ MoveByte \/ Answer \/ Acknowledge \/ Abandon

Spec == Init /\ [][Next]_portVars

=============================================================================
