----------------------------- MODULE DriveInbox -----------------------------
(***************************************************************************)
(* The fetch route with a watched Drive folder as its provider: every PDF  *)
(* in the root of the folder is listed and downloaded on every fetch, and  *)
(* after its decision was reached it is moved into a status subfolder.     *)
(* There is no receipt filter: every file is a candidate.                  *)
(***************************************************************************)
EXTENDS InboxFetch

VARIABLE place    \* where each file is (external)

driveVars == <<routeVars, place>>

Place == {"absent", "root", "moved"}

TypeOK == RouteTypeOK /\ place \in [Message -> Place]

Init == RouteInit /\ place = [m \in Message |-> "absent"]

Root == {m \in Message : place[m] = "root"}

\* The user puts a file into the folder (external).
Upload(m) ==
    /\ place[m] = "absent"
    /\ place' = [place EXCEPT ![m] = "root"]
    /\ UNCHANGED routeVars

\* (mutant) the files are moved out of the root as they are downloaded
ListAndMove(f) ==
    /\ List(f, Root)
    /\ place' = [m \in Message |-> IF m \in Root THEN "moved" ELSE place[m]]

\* fetch_messages: the files of the root, without those whose download failed.
ListFolder(f) ==
    /\ \/ List(f, Root) /\ UNCHANGED faults
       \/ \E failed \in (SUBSET Root) \ {{}} : List(f, Root \ failed) /\ Fault
    /\ UNCHANGED place

\* on_processed: the move into the subfolder; an error leaves the file in the root.
MoveAway(f) ==
    /\ Reflect(f)
    /\ UNCHANGED faults
    /\ place' = [place EXCEPT ![fetch[f].msg] = "moved"]

MoveFails(f) ==
    /\ Reflect(f)
    /\ Fault
    /\ UNCHANGED place

\* The file has been moved and then the request fails, for example in the summary
\* that is read for the answer.
MovedThenAborted(f) ==
    /\ At(f, "reflect")
    /\ place' = [place EXCEPT ![fetch[f].msg] = "moved"]
    /\ Abort(f)

Run(f) ==
    \/ ListFolder(f)
    \/ Work(f) /\ UNCHANGED place
    \/ MoveAway(f)
    \/ MoveFails(f)

Next ==
    \/ \E m \in Message : Upload(m)
    \/ \E f \in Fetcher :
          \/ StartFetch(f) /\ UNCHANGED place
          \/ Run(f)
          \/ Abort(f) /\ UNCHANGED place
          \/ MovedThenAborted(f)
          \/ ConnectionLost(f) /\ UNCHANGED place

Spec == Init /\ [][Next]_driveVars

\* The poller asks again and again; a fetch that has started runs on.
Fairness ==
    /\ WF_driveVars(\E f \in Fetcher : StartFetch(f) /\ UNCHANGED place)
    /\ \A f \in Fetcher : WF_driveVars(Run(f))

FairSpec == Spec /\ Fairness

-----------------------------------------------------------------------------

\* A file leaves the root, where the fetches look for it, only when it has become
\* an item and is marked: a crash or an error never hides an unprocessed file.
MovedIsProcessed ==
    \A m \in Message : place[m] = "moved" => m \in seen /\ items[m] > 0

\* Every file of the folder is seen in the end: no crash, error or poison message
\* among the others keeps the later fetches from it (main.py: "one poison message
\* can't wedge every future poll").
FilesAreSeen == \A m \in Message : m \in Root ~> m \in seen
=============================================================================
