------------------------------ MODULE IndexSwitch ----------------------------
(***************************************************************************)
(* What searches are promised while documents are uploaded, indexed again  *)
(* and deleted, without saying how an index is built.                      *)
(*                                                                         *)
(* A document that is there serves one index or none, and shows the        *)
(* version of the index it served last.  Both change together and for one  *)
(* document at a time.  A deleted document gets no other index, and an     *)
(* index is taken away without another one only if somebody contests it.   *)
(*                                                                         *)
(* KnowledgeBase implements this specification with rows of MySQL that     *)
(* many calls write in transactions of their own.                          *)
(***************************************************************************)

CONSTANTS
    Documents,
    Versions,     \* of documents
    Configs       \* an index is a version under one configuration

VARIABLES
    status,       \* of a document
    serving,      \* serving[d]: the index document d serves, or none
    shown,        \* shown[d]: the current version, none before the first index
    contested     \* the indexes that several attempts write

vars == <<status, serving, shown, contested>>

Indexes == Versions \X Configs

Init ==
    /\ status \in [Documents -> {"absent", "active"}]
    /\ serving = [d \in Documents |-> {}]
    /\ shown = [d \in Documents |-> {}]
    /\ contested = {}

Create(d) ==
    /\ status[d] = "absent"
    /\ status' = [status EXCEPT ![d] = "active"]
    /\ UNCHANGED <<serving, shown, contested>>

\* What it serves stays, for searches look at the document as well.
Delete(d) ==
    /\ status[d] = "active"
    /\ status' = [status EXCEPT ![d] = "deleted"]
    /\ UNCHANGED <<serving, shown, contested>>

\* The index and the version, in one step, and no index of another document.
Switch(d, i) ==
    /\ status[d] = "active"
    /\ shown' = [shown EXCEPT ![d] = {i[1]}]
    /\ serving' = [serving EXCEPT ![d] = {i}]
    /\ \A e \in Documents \ {d} : i \notin serving[e]
    /\ UNCHANGED <<status, contested>>

Contest(i) ==
    /\ contested' = contested \cup {i}
    /\ UNCHANGED <<status, serving, shown>>

\* Of several attempts on one index a late one fails, or begins again.
Withdraw(d) ==
    /\ serving[d] # {}
    /\ contested' = contested \cup serving[d]
    /\ serving' = [serving EXCEPT ![d] = {}]
    /\ UNCHANGED <<status, shown>>

Next ==
    \/ \E d \in Documents : Create(d) \/ Delete(d) \/ Withdraw(d)
    \/ \E d \in Documents, i \in Indexes : Switch(d, i)
    \/ \E i \in Indexes : Contest(i)

Spec == Init /\ [][Next]_vars
=============================================================================
