---------------------------- MODULE StorageHealth ----------------------------
(***************************************************************************)
(* StorageHealthChecker.Check (internal/store/health.go): every check puts *)
(* a test key into the DMap of the locks, reads it and deletes it.         *)
(*                                                                         *)
(* A stage of a check is the store call it waits for; the call takes       *)
(* effect and returns in one action, or fails, with or without its effect. *)
(* A call under the check's context has returned when the context's        *)
(* deadline is over; the clean-up after a failed read has no deadline.     *)
(* Checks of several probes overlap (HealthManager), and their keys differ *)
(* unless they begin at the same UnixNano.                                 *)
(***************************************************************************)
EXTENDS Naturals

CONSTANTS
    Checks,    \* the calls of Check
    Stamps,    \* tells the UnixNanos of one tick of the clock apart
    Timeout,   \* of the check's context: 3 s or HealthCheckTimeout, the shorter
    TTL,       \* of a test key: 5 s
    MaxTime    \* bound on the clock

ASSUME TimeAssumption == Timeout \in Nat /\ TTL \in Nat /\ Timeout < TTL /\ MaxTime \in Nat

Time   == 0..MaxTime
Key    == [tick : Time, stamp : Stamps]
NoKey  == [tick |-> 0]
Calls  == {"put", "get", "delete", "cleanup"}
Stages == Calls \cup {"idle", "done"}

VARIABLES
    now,     \* the clock
    dmap,    \* the test keys in the DMap, with the time they expire
    key,     \* key[c]: the test key of check c, of the tick it began in
    stage,   \* stage[c]: the call check c waits for
    status,  \* status[c]: the result of check c
    failed   \* failed[c]: the calls of c that returned an error; history, no step reads it

vars == <<now, dmap, key, stage, status, failed>>

TypeOK ==
    /\ now \in Time
    /\ dmap \subseteq [key : Key, expiresAt : Nat]
    /\ key \in [Checks -> Key \cup {NoKey}]
    /\ \A c \in Checks : stage[c] # "idle" => key[c] \in Key
    /\ stage \in [Checks -> Stages]
    /\ status \in [Checks -> {"none", "ok", "error"}]
    /\ failed \in [Checks -> SUBSET Calls]

Init ==
    /\ now = 0
    /\ dmap = {}
    /\ key = [c \in Checks |-> NoKey]
    /\ stage = [c \in Checks |-> "idle"]
    /\ status = [c \in Checks |-> "none"]
    /\ failed = [c \in Checks |-> {}]

\* Mutation: the check that succeeded cleans up without its context.
BoundedUntilRead == {"put", "get"}

\* The calls that are made with checkCtx.
Bounded == {"put", "get", "delete"}

Began(c)   == key[c].tick
Without(k) == {e \in dmap : e.key # k}
Present(k) == \E e \in dmap : e.key = k

Goto(c, s)   == stage' = [stage EXCEPT ![c] = s]
Return(c, r) == Goto(c, "done") /\ status' = [status EXCEPT ![c] = r]
CallFails(c) == failed' = [failed EXCEPT ![c] = @ \cup {stage[c]}]

-----------------------------------------------------------------------------

Begin(c) ==
    /\ stage[c] = "idle"
    /\ \E s \in Stamps : key' = [key EXCEPT ![c] = [tick |-> now, stamp |-> s]]
    /\ Goto(c, "put")
    /\ UNCHANGED <<now, dmap, status, failed>>

\* Mutation: the key is put without a time to live.
PutForever(c) == dmap' = Without(key[c]) \cup {[key |-> key[c], expiresAt |-> MaxTime + 1]}

\* Mutation: the key lives for one tick.
PutBriefly(c) == dmap' = Without(key[c]) \cup {[key |-> key[c], expiresAt |-> now + 1]}

\* OlricStore.Put with EX(ttl).
PutKey(c) == dmap' = Without(key[c]) \cup {[key |-> key[c], expiresAt |-> now + TTL]}

\* A failed Put ends the check, and nobody deletes what it may have put.
Put(c) ==
    /\ stage[c] = "put"
    /\ \/ PutKey(c) /\ Goto(c, "get") /\ UNCHANGED <<status, failed>>
       \/ (PutKey(c) \/ UNCHANGED dmap) /\ Return(c, "error") /\ CallFails(c)
    /\ UNCHANGED <<now, key>>

\* Mutation: a failed read ends the check.
GetOrReturn(c) ==
    /\ stage[c] = "get"
    /\ \/ Present(key[c]) /\ Goto(c, "delete") /\ UNCHANGED <<status, failed>>
       \/ ~Present(key[c]) /\ Return(c, "error") /\ UNCHANGED failed
       \/ Return(c, "error") /\ CallFails(c)
    /\ UNCHANGED <<now, dmap, key>>

\* Mutation: a failed read is tried again.
GetAndRetry(c) ==
    /\ stage[c] = "get"
    /\ \/ Present(key[c]) /\ Goto(c, "delete") /\ UNCHANGED failed
       \/ Goto(c, "retry") /\ CallFails(c)
    /\ UNCHANGED <<now, dmap, key, status>>

\* A key that is gone is an error like any other, and the check cleans up.  Its value
\* is the one every check writes.
Get(c) ==
    /\ stage[c] = "get"
    /\ \/ Present(key[c]) /\ Goto(c, "delete") /\ UNCHANGED <<status, failed>>
       \/ ~Present(key[c]) /\ Goto(c, "cleanup") /\ UNCHANGED <<status, failed>>
       \/ Goto(c, "cleanup") /\ CallFails(c) /\ UNCHANGED status
    /\ UNCHANGED <<now, dmap, key>>

DeleteKey(c) == dmap' = Without(key[c])

\* The check has succeeded, and an error of this Delete is only logged; after a failed
\* read it is not even that.
Delete(c) ==
    /\ stage[c] \in {"delete", "cleanup"}
    /\ \/ DeleteKey(c) /\ UNCHANGED failed
       \/ (DeleteKey(c) \/ UNCHANGED dmap) /\ CallFails(c)
    /\ Return(c, IF stage[c] = "delete" THEN "ok" ELSE "error")
    /\ UNCHANGED <<now, key>>

\* Time passes, unless a call must return first; keys expire.
Tick ==
    /\ now < MaxTime
    /\ \A c \in Checks : stage[c] \in Bounded => now < Began(c) + Timeout
    /\ now' = now + 1
    /\ dmap' = {e \in dmap : now' < e.expiresAt}
    /\ UNCHANGED <<key, stage, status, failed>>

Next == Tick \/ \E c \in Checks : Begin(c) \/ Put(c) \/ Get(c) \/ Delete(c)

Spec == Init /\ [][Next]_vars

-----------------------------------------------------------------------------
(* Properties. *)

\* A check shares its key when another one began at the same instant of the clock.
Alone(c) == \A d \in Checks \ {c} : stage[d] # "idle" => key[d] # key[c]

\* A working store is not reported as failed: an error means that a call failed, or
\* that another check deleted the key they share.  The key never expires under a check
\* (health.go:162-186).
ErrorsAreReal ==
    \A c \in Checks : status[c] = "error" => failed[c] # {} \/ ~Alone(c)

\* A test key that nobody is going to delete is there because the Put or the Delete of
\* its check returned an error: every other way out of Check deletes it
\* (health.go:170-205).
LeftoversExplained ==
    \A e \in dmap : \E c \in Checks :
        /\ key[c] = e.key
        /\ stage[c] \in {"get", "delete", "cleanup"} \/ failed[c] \cap {"put", "delete", "cleanup"} # {}

\* However its check ended, a test key is gone a time to live and a timeout after the
\* check began: the DMap of the locks does not fill with them (health.go:170).
TestKeysGoAway == \A e \in dmap : now < e.key.tick + Timeout + TTL

\* A check that takes longer than its timeout is one whose read failed: it deletes the
\* key with context.Background(), and the probe waits for it (health.go:184,197).
OnlyCleanUpIsLate ==
    \A c \in Checks :
        (stage[c] \in Calls /\ now > Began(c) + Timeout) =>
            "get" \in failed[c] \/ ~Alone(c)
=============================================================================
