---------------------------- MODULE DurableFile ----------------------------
(***************************************************************************)
(* What a JSON store of the controller wants from the file it saves to: a  *)
(* register that is replaced as a whole.  docs/storage-durability.md puts  *)
(* it in words; this is the abstract specification that AtomicSave, the    *)
(* model of storage.rs, is shown to implement when saves are serialised.   *)
(*                                                                         *)
(* Contents are version numbers: version v is what the v-th save writes,   *)
(* version 0 is what was there before (possibly no file at all).           *)
(***************************************************************************)
EXTENDS Naturals

VARIABLES
    value,      \* the version a reader of the final path gets now
    survivors,  \* the versions a power failure at this moment may leave there
    acked       \* the newest version whose save has returned Ok

dfVars == <<value, survivors, acked>>

DFInit ==
    /\ value = 0
    /\ survivors = {0}
    /\ acked = 0

\* A newer version takes the place of the old one; until the directory is
\* synced a power failure may still undo it.
Replace ==
    /\ value' \in Nat
    /\ value' > value
    /\ survivors' = survivors \cup {value'}
    /\ UNCHANGED acked

\* The replacement is on the medium.
Settle ==
    /\ survivors' = {value}
    /\ UNCHANGED <<value, acked>>

\* A caller is told its save succeeded.
Acknowledge ==
    /\ survivors = {value}
    /\ acked' = value
    /\ UNCHANGED <<value, survivors>>

PowerFail ==
    \E v \in survivors :
        /\ value' = v
        /\ survivors' = {v}
        /\ UNCHANGED acked

DFNext == Replace \/ Settle \/ Acknowledge \/ PowerFail

DFSpec == DFInit /\ [][DFNext]_dfVars
=============================================================================
