------------------------- MODULE StorageHealthProofs -------------------------
(***************************************************************************)
(* The invariants of StorageHealth for any number of overlapping checks,   *)
(* any timeout and any longer time to live.                                *)
(*                                                                         *)
(* The key of a check that shares it with nobody is there when it is read, *)
(* because it lives longer than the context of the check (ReadInv); what a *)
(* check sees otherwise has a cause that stays true (CauseInv).            *)
(***************************************************************************)
EXTENDS StorageHealth, TLAPS

TimeInv ==
    \A c \in Checks :
        /\ stage[c] # "idle" => Began(c) <= now
        /\ stage[c] \in Bounded => now <= Began(c) + Timeout

KeysInv ==
    \A e \in dmap : now < e.expiresAt /\ e.expiresAt <= e.key.tick + Timeout + TTL

ReadInv ==
    \A c \in Checks :
        stage[c] = "get" /\ Alone(c) =>
            \E e \in dmap : e.key = key[c] /\ Began(c) + TTL <= e.expiresAt

CauseInv ==
    \A c \in Checks :
        /\ stage[c] = "idle" => failed[c] = {}
        /\ stage[c] # "done" => status[c] = "none"
        /\ stage[c] = "cleanup" => "get" \in failed[c] \/ ~Alone(c)

IInv ==
    /\ TypeOK
    /\ TimeInv
    /\ KeysInv
    /\ ReadInv
    /\ CauseInv
    /\ ErrorsAreReal
    /\ LeftoversExplained

LEMMA InitInv == Init => IInv
  BY TimeAssumption DEF Init, IInv, TypeOK, Time, Stages, Calls, TimeInv, KeysInv, ReadInv, CauseInv,
     ErrorsAreReal, LeftoversExplained, Bounded

-----------------------------------------------------------------------------
(* Facts about steps. *)

\* Two checks that share a key share it for good: keys are given once.
LEMMA SharingLasts ==
    ASSUME IInv, [Next]_vars, NEW c \in Checks, stage[c] # "idle"
    PROVE  /\ key'[c] = key[c] /\ stage'[c] # "idle"
           /\ Alone(c)' => Alone(c)
  <1>1. ASSUME NEW d \in Checks, stage[d] # "idle"
        PROVE  key'[d] = key[d] /\ stage'[d] # "idle"
    BY <1>1 DEF Next, vars, Tick, Begin, Put, Get, Delete, Goto, Return, IInv, TypeOK, Stages, Calls
  <1> QED BY <1>1 DEF Alone

\* The type and the clocks of a step of check c that is not its Begin.
LEMMA Clocked ==
    ASSUME IInv, NEW c \in Checks, Put(c) \/ Get(c) \/ Delete(c)
    PROVE  TypeOK' /\ TimeInv'
  <1> USE DEF IInv
  <1>0. key[c] \in Key /\ now' = now /\ key' = key
    BY DEF Put, Get, Delete, TypeOK
  <1>1. stage' \in [Checks -> Stages] /\ status' \in [Checks -> {"none", "ok", "error"}]
        /\ failed' \in [Checks -> SUBSET Calls]
    BY DEF Put, Get, Delete, Goto, Return, CallFails, TypeOK, Stages, Calls
  <1>2. dmap' \subseteq [key : Key, expiresAt : Nat]
    BY <1>0, TimeAssumption DEF Put, Get, Delete, PutKey, DeleteKey, Without, TypeOK, Time
  <1>3. \A d \in Checks : /\ stage'[d] # "idle" => stage[d] # "idle"
                          /\ stage'[d] \in Bounded => stage[d] \in Bounded
    BY DEF Put, Get, Delete, Goto, Return, TypeOK, Bounded
  <1>4. TypeOK'
    BY <1>0, <1>1, <1>2, <1>3 DEF TypeOK
  <1>5. TimeInv'
    BY <1>0, <1>3 DEF TimeInv, Began
  <1> QED BY <1>4, <1>5

\* A key that was put now lives longer than the context of its check.
LEMMA PutLives ==
    ASSUME IInv, NEW c \in Checks, stage[c] = "put"
    PROVE  /\ Began(c) \in Nat /\ now \in Nat /\ TTL \in Nat /\ Timeout \in Nat
           /\ now < now + TTL /\ Began(c) + TTL <= now + TTL
           /\ now + TTL <= Began(c) + Timeout + TTL
  <1>1. Began(c) \in Nat /\ now \in Nat /\ TTL \in Nat /\ Timeout \in Nat /\ Timeout < TTL
    BY TimeAssumption DEF IInv, TypeOK, Key, Began, Time
  <1>2. Began(c) <= now /\ now <= Began(c) + Timeout
    BY DEF IInv, TimeInv, Bounded
  <1> QED BY <1>1, <1>2

\* A check that is the only one with its key still has the entry it put, whatever the
\* other checks delete.
LEMMA OthersKeepEntry ==
    ASSUME IInv, NEW c \in Checks, stage[c] # "idle",
           NEW d \in Checks \ {c}, stage[d] = "get", Alone(d)
    PROVE  \E e \in Without(key[c]) : e.key = key[d] /\ Began(d) + TTL <= e.expiresAt
  <1>1. PICK e \in dmap : e.key = key[d] /\ Began(d) + TTL <= e.expiresAt
    BY DEF IInv, ReadInv
  <1>2. key[c] # key[d]
    BY DEF Alone
  <1> QED BY <1>1, <1>2 DEF Without

-----------------------------------------------------------------------------
(* One lemma per action. *)

\* The new check has put nothing and failed at nothing; it can only share a key.
LEMMA BeginKeeps ==
    ASSUME IInv, NEW c \in Checks, Begin(c)
    PROVE  IInv'
  <1> USE DEF IInv
  <1>0. [Next]_vars
    BY DEF Next
  <1>1. PICK s \in Stamps : key' = [key EXCEPT ![c] = [tick |-> now, stamp |-> s]]
    BY DEF Begin
  <1>2. /\ stage[c] = "idle" /\ stage' = [stage EXCEPT ![c] = "put"]
        /\ now' = now /\ dmap' = dmap /\ status' = status /\ failed' = failed
    BY DEF Begin, Goto
  <1>3. TypeOK'
    <2>1. [tick |-> now, stamp |-> s] \in Key
      BY DEF TypeOK, Key
    <2> QED BY <1>1, <1>2, <2>1 DEF TypeOK, Stages, Calls
  <1>4. TimeInv'
    <2>1. now <= now /\ now <= now + Timeout
      BY TimeAssumption DEF TypeOK, Time
    <2>2. key'[c].tick = now
      BY <1>1 DEF TypeOK
    <2>3. \A d \in Checks \ {c} : key'[d] = key[d] /\ stage'[d] = stage[d]
      BY <1>1, <1>2 DEF TypeOK
    <2>4. ASSUME NEW d \in Checks
          PROVE  /\ stage'[d] # "idle" => key'[d].tick <= now
                 /\ stage'[d] \in Bounded => now <= key'[d].tick + Timeout
      <3>1. CASE d = c
        BY <2>1, <2>2, <3>1
      <3>2. CASE d # c
        BY <2>3, <3>2 DEF TimeInv, Began
      <3> QED BY <3>1, <3>2
    <2> QED BY <1>2, <2>4 DEF TimeInv, Began
  <1>5. KeysInv'
    BY <1>2 DEF KeysInv
  <1>6. ReadInv'
    <2> SUFFICES ASSUME NEW d \in Checks, stage'[d] = "get", Alone(d)'
                 PROVE  \E e \in dmap : e.key = key'[d] /\ key'[d].tick + TTL <= e.expiresAt
      BY <1>2 DEF ReadInv, Began
    <2>1. stage[d] = "get"
      BY <1>2 DEF TypeOK
    <2>2. key'[d] = key[d] /\ Alone(d)
      BY <1>0, <2>1, SharingLasts
    <2> QED BY <2>1, <2>2 DEF ReadInv, Began
  <1>7. CauseInv'
    <2> SUFFICES ASSUME NEW d \in Checks
                 PROVE  /\ stage'[d] = "idle" => failed[d] = {}
                        /\ stage'[d] # "done" => status[d] = "none"
                        /\ stage'[d] = "cleanup" => "get" \in failed[d] \/ ~Alone(d)'
      BY <1>2 DEF CauseInv
    <2>1. stage'[d] = IF d = c THEN "put" ELSE stage[d]
      BY <1>2 DEF TypeOK
    <2>2. stage[d] # "idle" => (Alone(d)' => Alone(d))
      BY <1>0, SharingLasts
    <2> QED BY <1>2, <2>1, <2>2 DEF CauseInv
  <1>8. ErrorsAreReal'
    <2> SUFFICES ASSUME NEW d \in Checks, status[d] = "error"
                 PROVE  failed[d] # {} \/ ~Alone(d)'
      BY <1>2 DEF ErrorsAreReal
    <2>1. stage[d] = "done"
      BY DEF CauseInv
    <2> QED BY <1>0, <2>1, SharingLasts DEF ErrorsAreReal
  <1>9. LeftoversExplained'
    <2> SUFFICES ASSUME NEW e \in dmap
                 PROVE  \E d \in Checks : /\ key'[d] = e.key
                                          /\ \/ stage'[d] \in {"get", "delete", "cleanup"}
                                             \/ failed[d] \cap {"put", "delete", "cleanup"} # {}
      BY <1>2 DEF LeftoversExplained
    <2>1. PICK d \in Checks : /\ key[d] = e.key
                              /\ \/ stage[d] \in {"get", "delete", "cleanup"}
                                 \/ failed[d] \cap {"put", "delete", "cleanup"} # {}
      BY DEF LeftoversExplained
    <2>2. d # c
      BY <1>2, <2>1 DEF CauseInv
    <2> QED BY <1>1, <1>2, <2>1, <2>2 DEF TypeOK
  <1> QED BY <1>3, <1>4, <1>5, <1>6, <1>7, <1>8, <1>9

\* What every step of check c that is not its Begin leaves to the other checks.
LEMMA OthersKeepState ==
    ASSUME IInv, NEW c \in Checks, Put(c) \/ Get(c) \/ Delete(c)
    PROVE  /\ stage[c] # "idle" /\ now' = now /\ key' = key
           /\ \A d \in Checks : Alone(d)' <=> Alone(d)
           /\ \A d \in Checks \ {c} : /\ stage'[d] = stage[d]
                                      /\ status'[d] = status[d]
                                      /\ failed'[d] = failed[d]
           /\ \A d \in Checks : failed[d] \subseteq failed'[d]
  <1> USE DEF IInv
  <1>1. stage[c] # "idle" /\ now' = now /\ key' = key
    BY DEF Put, Get, Delete
  <1>2. /\ stage'[c] # "idle"
        /\ \A d \in Checks \ {c} : /\ stage'[d] = stage[d]
                                   /\ status'[d] = status[d]
                                   /\ failed'[d] = failed[d]
    BY DEF Put, Get, Delete, Goto, Return, CallFails, TypeOK
  <1>3. failed[c] \subseteq failed'[c]
    BY DEF Put, Get, Delete, CallFails, TypeOK
  <1>4. \A d \in Checks : stage'[d] # "idle" <=> stage[d] # "idle"
    BY <1>1, <1>2
  <1>5. \A d \in Checks : Alone(d)' <=> Alone(d)
    BY <1>1, <1>4 DEF Alone
  <1> QED BY <1>1, <1>2, <1>3, <1>5

LEMMA PutKeeps ==
    ASSUME IInv, NEW c \in Checks, Put(c)
    PROVE  IInv'
  <1> USE DEF IInv
  <1> DEFINE new == [key |-> key[c], expiresAt |-> now + TTL]
  <1>1. TypeOK' /\ TimeInv'
    BY Clocked
  <1>2. /\ now' = now /\ key' = key /\ stage[c] # "idle"
        /\ \A d \in Checks : Alone(d)' <=> Alone(d)
        /\ \A d \in Checks \ {c} : stage'[d] = stage[d] /\ status'[d] = status[d] /\ failed'[d] = failed[d]
    BY OthersKeepState
  <1>3. stage[c] = "put" /\ (dmap' = dmap \/ dmap' = Without(key[c]) \cup {new})
    BY DEF Put, PutKey
  <1>4. \/ /\ stage'[c] = "get" /\ status'[c] = status[c] /\ failed' = failed
           /\ dmap' = Without(key[c]) \cup {new}
        \/ /\ stage'[c] = "done" /\ status'[c] = "error" /\ "put" \in failed'[c]
    BY DEF Put, PutKey, Goto, Return, CallFails, TypeOK
  <1>5. KeysInv'
    <2> SUFFICES ASSUME NEW e \in dmap'
                 PROVE  now < e.expiresAt /\ e.expiresAt <= e.key.tick + Timeout + TTL
      BY <1>2 DEF KeysInv
    <2>1. CASE e \in dmap
      BY <2>1 DEF KeysInv
    <2>2. CASE e = new
      BY <1>3, <2>2, PutLives DEF Began
    <2> QED BY <1>3, <2>1, <2>2 DEF Without
  <1>6. ReadInv'
    <2> SUFFICES ASSUME NEW d \in Checks, stage'[d] = "get", Alone(d)
                 PROVE  \E e \in dmap' : e.key = key[d] /\ Began(d) + TTL <= e.expiresAt
      BY <1>2 DEF ReadInv, Began
    <2>1. CASE d = c
      <3>1. new \in dmap' /\ new.key = key[d] /\ Began(d) + TTL <= new.expiresAt
        BY <1>3, <1>4, <2>1, PutLives
      <3> QED BY <3>1
    <2>2. CASE d # c
      <3>1. \E e \in Without(key[c]) : e.key = key[d] /\ Began(d) + TTL <= e.expiresAt
        BY <1>2, <2>2, OthersKeepEntry
      <3>2. Without(key[c]) \subseteq dmap'
        BY <1>3 DEF Without
      <3> QED BY <3>1, <3>2
    <2> QED BY <2>1, <2>2
  <1>7. CauseInv'
    <2> SUFFICES ASSUME NEW d \in Checks
                 PROVE  /\ stage'[d] = "idle" => failed'[d] = {}
                        /\ stage'[d] # "done" => status'[d] = "none"
                        /\ stage'[d] = "cleanup" => "get" \in failed'[d] \/ ~Alone(d)
      BY <1>2 DEF CauseInv
    <2>1. CASE d = c
      BY <1>3, <1>4, <2>1 DEF CauseInv
    <2>2. CASE d # c
      BY <1>2, <2>2 DEF CauseInv
    <2> QED BY <2>1, <2>2
  <1>8. ErrorsAreReal'
    <2> SUFFICES ASSUME NEW d \in Checks, status'[d] = "error"
                 PROVE  failed'[d] # {} \/ ~Alone(d)
      BY <1>2 DEF ErrorsAreReal
    <2>1. CASE d = c
      BY <1>3, <1>4, <2>1 DEF CauseInv
    <2>2. CASE d # c
      BY <1>2, <2>2 DEF ErrorsAreReal
    <2> QED BY <2>1, <2>2
  <1>9. LeftoversExplained'
    <2> SUFFICES ASSUME NEW e \in dmap'
                 PROVE  \E d \in Checks : /\ key[d] = e.key
                                          /\ \/ stage'[d] \in {"get", "delete", "cleanup"}
                                             \/ failed'[d] \cap {"put", "delete", "cleanup"} # {}
      BY <1>2 DEF LeftoversExplained
    <2>1. CASE e.key = key[c]
      BY <1>4, <2>1
    <2>2. CASE e.key # key[c]
      <3>1. e \in dmap
        BY <1>3, <2>2 DEF Without
      <3>2. PICK d \in Checks : /\ key[d] = e.key
                                /\ \/ stage[d] \in {"get", "delete", "cleanup"}
                                   \/ failed[d] \cap {"put", "delete", "cleanup"} # {}
        BY <3>1 DEF LeftoversExplained
      <3>3. d # c
        BY <2>2, <3>2
      <3> QED BY <1>2, <3>2, <3>3
    <2> QED BY <2>1, <2>2
  <1> QED BY <1>1, <1>5, <1>6, <1>7, <1>8, <1>9

LEMMA GetKeeps ==
    ASSUME IInv, NEW c \in Checks, Get(c)
    PROVE  IInv'
  <1> USE DEF IInv
  <1>1. TypeOK' /\ TimeInv'
    BY Clocked
  <1>2. /\ now' = now /\ key' = key
        /\ \A d \in Checks : Alone(d)' <=> Alone(d)
        /\ \A d \in Checks \ {c} : stage'[d] = stage[d] /\ status'[d] = status[d] /\ failed'[d] = failed[d]
        /\ \A d \in Checks : failed[d] \subseteq failed'[d]
    BY OthersKeepState
  <1>3. stage[c] = "get" /\ dmap' = dmap /\ status' = status
    BY DEF Get
  <1>4. \/ stage'[c] = "delete"
        \/ stage'[c] = "cleanup" /\ ("get" \in failed'[c] \/ ~Present(key[c]))
    BY DEF Get, Goto, CallFails, TypeOK
  <1>5. KeysInv'
    BY <1>2, <1>3 DEF KeysInv
  <1>6. ReadInv'
    BY <1>2, <1>3, <1>4 DEF ReadInv, Began
  \* The check that finds no key shares it.
  <1>7. CauseInv'
    <2> SUFFICES ASSUME NEW d \in Checks
                 PROVE  /\ stage'[d] = "idle" => failed'[d] = {}
                        /\ stage'[d] # "done" => status[d] = "none"
                        /\ stage'[d] = "cleanup" => "get" \in failed'[d] \/ ~Alone(d)
      BY <1>2, <1>3 DEF CauseInv
    <2>1. CASE d = c
      <3>1. status[d] = "none"
        BY <1>3, <2>1 DEF CauseInv
      <3>2. Present(key[c]) \/ ~Alone(c)
        BY <1>3 DEF ReadInv, Present
      <3> QED BY <1>4, <2>1, <3>1, <3>2
    <2>2. CASE d # c
      BY <1>2, <2>2 DEF CauseInv
    <2> QED BY <2>1, <2>2
  <1>8. ErrorsAreReal'
    BY <1>2, <1>3 DEF ErrorsAreReal
  <1>9. LeftoversExplained'
    <2> SUFFICES ASSUME NEW e \in dmap
                 PROVE  \E d \in Checks : /\ key[d] = e.key
                                          /\ \/ stage'[d] \in {"get", "delete", "cleanup"}
                                             \/ failed'[d] \cap {"put", "delete", "cleanup"} # {}
      BY <1>2, <1>3 DEF LeftoversExplained
    <2>1. PICK d \in Checks : /\ key[d] = e.key
                              /\ \/ stage[d] \in {"get", "delete", "cleanup"}
                                 \/ failed[d] \cap {"put", "delete", "cleanup"} # {}
      BY DEF LeftoversExplained
    <2> QED BY <1>2, <1>4, <2>1
  <1> QED BY <1>1, <1>5, <1>6, <1>7, <1>8, <1>9

LEMMA DeleteKeeps ==
    ASSUME IInv, NEW c \in Checks, Delete(c)
    PROVE  IInv'
  <1> USE DEF IInv
  <1>1. TypeOK' /\ TimeInv'
    BY Clocked
  <1>2. /\ now' = now /\ key' = key /\ stage[c] # "idle"
        /\ \A d \in Checks : Alone(d)' <=> Alone(d)
        /\ \A d \in Checks \ {c} : stage'[d] = stage[d] /\ status'[d] = status[d] /\ failed'[d] = failed[d]
        /\ \A d \in Checks : failed[d] \subseteq failed'[d]
    BY OthersKeepState
  <1>3. /\ stage[c] \in {"delete", "cleanup"} /\ stage'[c] = "done"
        /\ status'[c] = IF stage[c] = "delete" THEN "ok" ELSE "error"
    BY DEF Delete, Return, Goto, TypeOK
  <1>4. \/ dmap' = Without(key[c])
        \/ dmap' = dmap /\ failed'[c] \cap {"put", "delete", "cleanup"} # {}
    BY <1>3 DEF Delete, DeleteKey, CallFails, TypeOK
  <1>5. KeysInv'
    BY <1>2, <1>4 DEF KeysInv, Without
  <1>6. ReadInv'
    <2> SUFFICES ASSUME NEW d \in Checks \ {c}, stage[d] = "get", Alone(d)
                 PROVE  \E e \in dmap' : e.key = key[d] /\ Began(d) + TTL <= e.expiresAt
      BY <1>2, <1>3 DEF ReadInv, Began
    <2>1. \E e \in Without(key[c]) : e.key = key[d] /\ Began(d) + TTL <= e.expiresAt
      BY <1>2, OthersKeepEntry
    <2>2. Without(key[c]) \subseteq dmap'
      BY <1>4 DEF Without
    <2> QED BY <2>1, <2>2
  <1>7. CauseInv'
    BY <1>2, <1>3 DEF CauseInv
  <1>8. ErrorsAreReal'
    <2> SUFFICES ASSUME NEW d \in Checks, status'[d] = "error"
                 PROVE  failed'[d] # {} \/ ~Alone(d)
      BY <1>2 DEF ErrorsAreReal
    <2>1. CASE d = c
      <3>1. stage[c] = "cleanup"
        BY <1>3, <2>1
      <3>2. "get" \in failed[c] \/ ~Alone(c)
        BY <3>1 DEF CauseInv
      <3> QED BY <1>2, <2>1, <3>2
    <2>2. CASE d # c
      BY <1>2, <2>2 DEF ErrorsAreReal
    <2> QED BY <2>1, <2>2
  <1>9. LeftoversExplained'
    <2> SUFFICES ASSUME NEW e \in dmap'
                 PROVE  \E d \in Checks : /\ key[d] = e.key
                                          /\ \/ stage'[d] \in {"get", "delete", "cleanup"}
                                             \/ failed'[d] \cap {"put", "delete", "cleanup"} # {}
      BY <1>2 DEF LeftoversExplained
    <2>1. e \in dmap /\ (e.key = key[c] => failed'[c] \cap {"put", "delete", "cleanup"} # {})
      BY <1>4 DEF Without
    <2>2. PICK d \in Checks : /\ key[d] = e.key
                              /\ \/ stage[d] \in {"get", "delete", "cleanup"}
                                 \/ failed[d] \cap {"put", "delete", "cleanup"} # {}
      BY <2>1 DEF LeftoversExplained
    <2> QED BY <1>2, <2>1, <2>2
  <1> QED BY <1>1, <1>5, <1>6, <1>7, <1>8, <1>9

\* A key expires after the context of the check that put it.
LEMMA TickKeeps == IInv /\ Tick => IInv'
  <1> SUFFICES ASSUME IInv, Tick
               PROVE  IInv'
    OBVIOUS
  <1> USE DEF IInv
  <1>1. /\ now' = now + 1 /\ now' \in Time
        /\ dmap' = {e \in dmap : now' < e.expiresAt}
        /\ key' = key /\ stage' = stage /\ status' = status /\ failed' = failed
    BY TimeAssumption DEF Tick, TypeOK, Time
  <1>2. TypeOK'
    BY <1>1 DEF TypeOK
  <1>3. TimeInv'
    <2> SUFFICES ASSUME NEW c \in Checks
                 PROVE  /\ stage[c] # "idle" => Began(c) <= now + 1
                        /\ stage[c] \in Bounded => now + 1 <= Began(c) + Timeout
      BY <1>1 DEF TimeInv, Began
    <2>1. now \in Nat /\ Timeout \in Nat /\ (stage[c] # "idle" => Began(c) \in Nat)
      BY TimeAssumption DEF TypeOK, Time, Began, Key
    <2>2. stage[c] \in Bounded => stage[c] # "idle" /\ now < Began(c) + Timeout
      BY DEF Tick, Bounded
    <2>3. stage[c] # "idle" => Began(c) <= now
      BY DEF TimeInv
    <2> QED BY <2>1, <2>2, <2>3
  <1>4. KeysInv'
    BY <1>1 DEF KeysInv
  <1>5. ReadInv'
    <2> SUFFICES ASSUME NEW c \in Checks, stage[c] = "get", Alone(c)
                 PROVE  \E e \in dmap' : e.key = key[c] /\ Began(c) + TTL <= e.expiresAt
      BY <1>1 DEF ReadInv, Began, Alone
    <2>1. PICK e \in dmap : e.key = key[c] /\ Began(c) + TTL <= e.expiresAt
      BY DEF ReadInv
    <2>2. now + 1 <= Began(c) + Timeout
      BY <1>1, <1>3 DEF TimeInv, Bounded, Began
    <2>3. now \in Nat /\ Timeout \in Nat /\ TTL \in Nat /\ Timeout < TTL
          /\ Began(c) \in Nat /\ e.expiresAt \in Nat
      BY TimeAssumption DEF TypeOK, Time, Began, Key
    <2>4. now + 1 < e.expiresAt
      BY <2>1, <2>2, <2>3
    <2> QED BY <1>1, <2>1, <2>4
  <1>6. CauseInv'
    BY <1>1 DEF CauseInv, Alone
  <1>7. ErrorsAreReal'
    BY <1>1 DEF ErrorsAreReal, Alone
  <1>8. LeftoversExplained'
    BY <1>1 DEF LeftoversExplained
  <1> QED BY <1>2, <1>3, <1>4, <1>5, <1>6, <1>7, <1>8

-----------------------------------------------------------------------------

\* The inductive invariant holds in every state, for any number of overlapping checks.
THEOREM Invariance == Spec => []IInv
  <1>1. IInv /\ UNCHANGED vars => IInv'
    BY DEF IInv, vars, TypeOK, TimeInv, KeysInv, ReadInv, CauseInv, ErrorsAreReal,
       LeftoversExplained, Alone, Began
  <1>2. IInv /\ [Next]_vars => IInv'
    BY <1>1, TickKeeps, BeginKeeps, PutKeeps, GetKeeps, DeleteKeeps DEF Next
  <1> QED BY InitInv, <1>2, PTL DEF Spec

\* Stages, results and the entries of the DMap keep their types.
THEOREM TypeCorrect == Spec => []TypeOK
  <1> QED BY Invariance, PTL DEF IInv

\* Check reports an error only when a store call failed or its key was another check's,
\* too: the TTL of the test key outlives the context (health.go:162-186).
THEOREM NoFalseErrors == Spec => []ErrorsAreReal
  <1> QED BY Invariance, PTL DEF IInv

\* Whatever test key is left behind, a Put or a Delete of its check failed.
THEOREM NothingLeftQuietly == Spec => []LeftoversExplained
  <1> QED BY Invariance, PTL DEF IInv

\* No test key stays in the DMap longer than a timeout and a time to live.
THEOREM TestKeysExpire == Spec => []TestKeysGoAway
  <1>1. IInv => TestKeysGoAway
    <2> SUFFICES ASSUME IInv, NEW e \in dmap
                 PROVE  now < e.key.tick + Timeout + TTL
      BY DEF TestKeysGoAway
    <2>1. now \in Nat /\ Timeout \in Nat /\ TTL \in Nat /\ e.key.tick \in Nat /\ e.expiresAt \in Nat
      BY TimeAssumption DEF IInv, TypeOK, Time, Key
    <2> QED BY <2>1 DEF IInv, KeysInv
  <1> QED BY Invariance, <1>1, PTL

\* Only the clean-up after a failed read outlives the context of the check.
THEOREM LateMeansCleanUp == Spec => []OnlyCleanUpIsLate
  <1>1. IInv => OnlyCleanUpIsLate
    <2> SUFFICES ASSUME IInv, NEW c \in Checks, stage[c] \in Calls, now > Began(c) + Timeout
                 PROVE  "get" \in failed[c] \/ ~Alone(c)
      BY DEF OnlyCleanUpIsLate
    <2>1. now \in Nat /\ Timeout \in Nat /\ Began(c) \in Nat
      BY TimeAssumption DEF IInv, TypeOK, Time, Key, Began, Calls
    <2>2. stage[c] \notin Bounded
      BY <2>1 DEF IInv, TimeInv
    <2> QED BY <2>2 DEF Calls, Bounded, IInv, CauseInv
  <1> QED BY Invariance, <1>1, PTL
=============================================================================
