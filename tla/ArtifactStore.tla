--------------------------- MODULE ArtifactStore ---------------------------
(***************************************************************************)
(* What the persistent LLVM-IR cache promises the compiler invocations     *)
(* that share one fingerprint: a slot that holds at most one complete      *)
(* artifact.  An invocation either takes the artifact the slot holds at    *)
(* that moment, or fills the empty slot with its own, or goes on without   *)
(* the cache.  The slot may be emptied at any time, it is never            *)
(* overwritten, and nobody is ever handed anything but its content.        *)
(***************************************************************************)
CONSTANTS Invocation, Artifact, None

VARIABLES entry,   \* the complete artifact of the slot, or None
          status,  \* how an invocation used the slot
          got      \* the artifact it took or put

vars == <<entry, status, got>>

Status == {"working", "hit", "published", "reused", "without"}

Init == /\ entry \in Artifact \cup {None}
        /\ status = [i \in Invocation |-> "working"]
        /\ got = [i \in Invocation |-> None]

Settle(i, outcome, artifact) ==
    /\ status[i] = "working"
    /\ status' = [status EXCEPT ![i] = outcome]
    /\ got' = [got EXCEPT ![i] = artifact]

Hit(i) == /\ entry # None
          /\ Settle(i, "hit", entry)
          /\ UNCHANGED entry

Publish(i) == \E artifact \in Artifact :
                  /\ entry = None
                  /\ entry' = artifact
                  /\ Settle(i, "published", artifact)

Reuse(i) == /\ entry # None
            /\ Settle(i, "reused", None)
            /\ UNCHANGED entry

GoWithout(i) == /\ Settle(i, "without", None)
                /\ UNCHANGED entry

Evict == /\ entry' = None
         /\ UNCHANGED <<status, got>>

Next == \/ \E i \in Invocation : Hit(i) \/ Publish(i) \/ Reuse(i) \/ GoWithout(i)
        \/ Evict

Spec == Init /\ [][Next]_vars
=============================================================================
