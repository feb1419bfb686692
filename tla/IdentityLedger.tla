--------------------------- MODULE IdentityLedger ---------------------------
(***************************************************************************)
(* What the multi-object tracker promises about identities, with every     *)
(* detail of frames, boxes, scores and embeddings forgotten.               *)
(*                                                                         *)
(* An identity is a number. It is LIVE while a track carries it, RETIRED   *)
(* while the gallery of dead tracks remembers it, and otherwise either not *)
(* yet minted or forgotten for good. It is never carried twice, and what   *)
(* has been forgotten never comes back: two records of one object always   *)
(* converge on the older identity. Module Tracker implements this ledger.  *)
(***************************************************************************)
EXTENDS Naturals

VARIABLES
    live,       \* identities some track carries
    retired,    \* identities the gallery can still resurrect
    next        \* the identity the next new object will get

ledger == <<live, retired, next>>

LInit == /\ live = {}
         /\ retired = {}
         /\ next = 1

(* A detection nobody knows becomes a new object with a fresh identity. *)
Mint == /\ live' = live \cup {next}
        /\ next' = next + 1
        /\ UNCHANGED retired

(* A dead object returns: a newborn takes its identity back. *)
Resurrect(x) == /\ x \in retired
                /\ live' = live \cup {x}
                /\ retired' = retired \ {x}
                /\ UNCHANGED next

(* A young object turns out to be an older, retired one. *)
Reclaim(x, y) == /\ x \in retired /\ y \in live /\ x < y
                 /\ live' = (live \ {y}) \cup {x}
                 /\ retired' = retired \ {x}
                 /\ UNCHANGED next

(* Two live records are one object: only the older identity is kept. *)
Converge(x, y) == /\ x \in live /\ y \in live /\ x < y
                  /\ live' = live \ {y}
                  /\ UNCHANGED <<retired, next>>

(* An object dies and is remembered. *)
Retire(x) == /\ x \in live
             /\ live' = live \ {x}
             /\ retired' = retired \cup {x}
             /\ UNCHANGED next

(* An object dies and is recognised as a remembered one; the older of the  *)
(* two identities stays in the gallery.                                    *)
RetireInto(x, y) == /\ x \in live /\ y \in retired
                    /\ live' = live \ {x}
                    /\ retired' = IF x < y THEN (retired \ {y}) \cup {x}
                                           ELSE retired
                    /\ UNCHANGED next

(* Objects die without leaving a trace. *)
Forget(x) == /\ x \in live
             /\ live' = live \ {x}
             /\ UNCHANGED <<retired, next>>

(* Gallery entries expire, or are evicted to keep the gallery small. *)
Expire == /\ retired' \in SUBSET retired
          /\ UNCHANGED <<live, next>>

Clear == /\ live' = {}
         /\ retired' = {}
         /\ next' = 1

LNext == \/ Mint
         \/ Expire
         \/ Clear
         \/ \E x \in live \cup retired :
               \/ Resurrect(x)
               \/ Retire(x)
               \/ Forget(x)
               \/ \E y \in live \cup retired :
                     Reclaim(x, y) \/ Converge(x, y) \/ RetireInto(x, y)

LSpec == LInit /\ [][LNext]_ledger

(***************************************************************************)
(* The promise: nobody is both alive and in the gallery, and every         *)
(* identity in use was minted.                                             *)
(***************************************************************************)
LedgerSound == /\ live \cap retired = {}
               /\ next \in Nat /\ next # 0
               /\ \A x \in live \cup retired : x \in Nat /\ x < next
=============================================================================
