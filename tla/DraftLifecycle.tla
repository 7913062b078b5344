-------------------------- MODULE DraftLifecycle --------------------------
(***************************************************************************)
(* What the approval of drafts promises, without sessions, locks or        *)
(* transactions: a draft is decided once and for good, and its message is  *)
(* posted at most once, never after a rejection or a replacement.          *)
(***************************************************************************)
EXTENDS Naturals

CONSTANTS Drafts, NoticeDrafts

VARIABLES
  status,   \* status of each draft
  posts     \* how many times its message reached the channel

vars == <<status, posts>>

Init ==
  /\ status \in [Drafts -> {"absent", "pending_approval"}]
  /\ posts = [d \in Drafts |-> 0]

(* A message goes out before its draft is known to be decided; the notice  *)
(* to the user even before its draft is known to exist.                    *)
Post(d) ==
  /\ posts[d] = 0
  /\ status[d] = "pending_approval" \/ (status[d] = "absent" /\ d \in NoticeDrafts)
  /\ posts' = [posts EXCEPT ![d] = 1]
  /\ UNCHANGED status

(* Where draft d may stand next.  "approved" is the draft whose send did   *)
(* not report success: the message may or may not have arrived.            *)
Successors(d) ==
  LET outcome == {"approved"} \cup (IF posts[d] = 1 THEN {"sent"} ELSE {})
      untold  == posts[d] = 0
  IN {status[d]}
     \cup (IF status[d] = "absent" /\ untold THEN {"pending_approval"} ELSE {})
     \cup (IF status[d] = "absent" /\ d \in NoticeDrafts THEN outcome ELSE {})
     \cup (IF status[d] = "pending_approval" THEN outcome ELSE {})
     \cup (IF status[d] = "pending_approval" /\ untold THEN {"rejected", "superseded"} ELSE {})

(* One commit may decide several drafts.                                   *)
Settle ==
  /\ status' \in [Drafts -> {"absent", "pending_approval", "approved", "sent",
                             "rejected", "superseded"}]
  /\ \A d \in Drafts : status'[d] \in Successors(d)
  /\ UNCHANGED posts

Next == Settle \/ \E d \in Drafts : Post(d)

Spec == Init /\ [][Next]_vars
=============================================================================
