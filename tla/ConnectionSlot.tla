--------------------------- MODULE ConnectionSlot ---------------------------
(***************************************************************************)
(* What the channels client promises about its sockets, with the locks and *)
(* the goroutines left out: there is one slot.  A socket is opened only    *)
(* while the slot is empty, every socket is a fresh one, and a socket that *)
(* left the slot never comes back.                                         *)
(***************************************************************************)
EXTENDS Naturals

VARIABLES
  opened,   \* how many sockets have been opened so far; the n-th is named n
  live      \* the sockets that are open now

slotVars == <<opened, live>>

SlotInit ==
  /\ opened = 0
  /\ live = {}

Open ==
  /\ live = {}
  /\ opened' = opened + 1
  /\ live' = {opened + 1}

Shut ==
  /\ live # {}
  /\ live' = {}
  /\ UNCHANGED opened

SlotNext == Open \/ Shut

SlotSpec == SlotInit /\ [][SlotNext]_slotVars
=============================================================================
