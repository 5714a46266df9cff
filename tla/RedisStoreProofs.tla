-------------------------- MODULE RedisStoreProofs --------------------------
(***************************************************************************)
(* RedisStateStore implements IStateStore, and with atomic_index keeps its *)
(* index in agreement with its hashes, for any sessions, clients, statuses *)
(* and calls, whatever is lost, sent again, given up or expires.  A write  *)
(* takes effect when the server runs the script: the client still holds    *)
(* the version it compares with, because it starts no other call.  The     *)
(* claim of a session has at most one holder whose claim has not expired.  *)
(***************************************************************************)
EXTENDS MCRedis, FiniteSetTheorems, TLAPS

PCs == {"idle", "write", "reply", "batch", "probe"}
Req == [sess : Sessions, value : Values, expected : -1..MaxVersion]
Replies == [code : {"saved", "ok", "version_conflict", "gone"}, old : Statuses \cup {None}]
Cmds == [cmd : {"zadd", "zrem", "del"}, key : Keys, sess : Sessions]

\* The variables of a call in progress.
CallTyped ==
    /\ pc \in [Clients -> PCs]
    /\ req \in [Clients -> Req \cup {None}]
    /\ \A c \in Clients : pc[c] \in {"write", "reply"} => req[c] \in Req
    /\ reply \in [Clients -> Replies \cup {None}]
    /\ \A c \in Clients : pc[c] = "reply" => reply[c] \in Replies
    /\ batch \in [Clients -> Seq(Cmds)]
    /\ pos \in [Clients -> Nat]
    /\ \A c \in Clients : pos[c] <= Len(batch[c])
    /\ ids \in [Clients -> SUBSET Sessions]
    /\ missing \in [Clients -> SUBSET Sessions]

\* The client that sends a conditional write holds what it compares with.
HoldsExpected ==
    \A c \in Clients :
        pc[c] \in {"write", "reply"} /\ req[c].expected >= 0 =>
            /\ held[c] # None
            /\ held[c].sess = req[c].sess
            /\ Version(held[c].rec) = req[c].expected

StoreInv == TypeOK /\ CallTyped /\ HoldsExpected
----------------------------------------------------------------------------
LEMMA VersionType ==
    ASSUME RedisAssumption, NEW r \in Rec \cup {None}
    PROVE  Version(r) \in 0..MaxVersion /\ (r # None => Status(r) \in Statuses)
BY DEF RedisAssumption, Version, Status, Rec

LEMMA ConcatFacts ==
    ASSUME NEW S, NEW a \in Seq(S), NEW b \in Seq(S)
    PROVE  /\ a \o b \in Seq(S) /\ Len(a \o b) = Len(a) + Len(b)
           /\ Len(a) \in Nat /\ Len(b) \in Nat
           /\ \A i \in 1..Len(a) : (a \o b)[i] = a[i]
           /\ \A i \in 1..Len(a \o b) : i > Len(a) =>
                 i - Len(a) \in 1..Len(b) /\ (a \o b)[i] = b[i - Len(a)]
OBVIOUS

\* The pipelines hold commands, and those that clear the indexes nothing but
\* ZREMs of the sessions they are for.
LEMMA ClearingTyped ==
    ASSUME RedisAssumption, NEW s \in Sessions
    PROVE  /\ RemoveFromEveryIndex(s) \in Seq(Cmds)
           /\ \A i \in 1..Len(RemoveFromEveryIndex(s)) :
                 RemoveFromEveryIndex(s)[i].cmd = "zrem" /\ RemoveFromEveryIndex(s)[i].sess = s
<1> DEFINE rest == [i \in DOMAIN StatusNames |-> ZRem(StatusNames[i], s)]
           all == <<ZRem(All, s)>>
<1>1. StatusNames \in Seq(STRING) /\ \A i \in DOMAIN StatusNames : StatusNames[i] \in Keys
  BY DEF RedisAssumption, Keys, Statuses
<1>2. \A k \in Keys : ZRem(k, s) \in Cmds /\ ZRem(k, s).cmd = "zrem" /\ ZRem(k, s).sess = s
  BY DEF ZRem, Cmds
<1>3. All \in Keys
  BY DEF Keys
<1> HIDE DEF All
<1>4. rest \in Seq(Cmds) /\ \A i \in 1..Len(rest) : rest[i].cmd = "zrem" /\ rest[i].sess = s
  BY <1>1, <1>2
<1>5. all \in Seq(Cmds) /\ Len(all) = 1 /\ all[1].cmd = "zrem" /\ all[1].sess = s
  BY <1>2, <1>3
<1>6. RemoveFromEveryIndex(s) = all \o rest
  BY DEF RemoveFromEveryIndex
<1> HIDE DEF all, rest
<1>7. \A i \in 1..Len(all \o rest) : i \in 1..Len(all) \/ i > Len(all)
  BY <1>4, <1>5, ConcatFacts
<1>8. \A i \in 1..Len(all \o rest) :
         (all \o rest)[i].cmd = "zrem" /\ (all \o rest)[i].sess = s
  <2> SUFFICES ASSUME NEW i \in 1..Len(all \o rest)
               PROVE  (all \o rest)[i].cmd = "zrem" /\ (all \o rest)[i].sess = s
    OBVIOUS
  <2>1. CASE i \in 1..Len(all)
    BY <1>4, <1>5, <2>1, ConcatFacts
  <2>2. CASE i > Len(all)
    BY <1>4, <1>5, <2>2, ConcatFacts
  <2> QED  BY <1>7, <2>1, <2>2
<1> QED
  BY <1>4, <1>5, <1>6, <1>8, ConcatFacts

LEMMA RemoveTyped ==
    ASSUME RedisAssumption, NEW s \in Sessions
    PROVE  LET b == <<Del(s)>> \o RemoveFromEveryIndex(s)
           IN  /\ b \in Seq(Cmds) /\ Len(b) >= 1
               /\ b[1].cmd = "del" /\ b[1].sess = s
               /\ \A i \in 1..Len(b) : i # 1 => b[i].cmd = "zrem" /\ b[i].sess = s
<1> DEFINE rest == RemoveFromEveryIndex(s)
           first == <<Del(s)>>
<1>1. rest \in Seq(Cmds) /\ \A i \in 1..Len(rest) : rest[i].cmd = "zrem" /\ rest[i].sess = s
  BY ClearingTyped
<1>2. first \in Seq(Cmds) /\ Len(first) = 1 /\ first[1].cmd = "del" /\ first[1].sess = s
  BY DEF Del, Cmds, Keys
<1> HIDE DEF first, rest
<1>3. /\ first \o rest \in Seq(Cmds) /\ Len(first \o rest) >= 1
      /\ (first \o rest)[1] = first[1]
  BY <1>1, <1>2, ConcatFacts
<1>4. ASSUME NEW i \in 1..Len(first \o rest), i # 1
      PROVE  (first \o rest)[i].cmd = "zrem" /\ (first \o rest)[i].sess = s
  <2>0. i > Len(first)
    BY <1>1, <1>2, <1>4, ConcatFacts
  <2>1. i - Len(first) \in 1..Len(rest) /\ (first \o rest)[i] = rest[i - Len(first)]
    BY <1>1, <1>2, <1>4, <2>0, ConcatFacts
  <2> QED  BY <1>1, <2>1
<1> QED
  BY <1>2, <1>3, <1>4 DEF first, rest

LEMMA RemoveAllTyped ==
    ASSUME RedisAssumption, NEW S \in SUBSET Sessions
    PROVE  /\ RemoveAll(S) \in Seq(Cmds)
           /\ \A i \in 1..Len(RemoveAll(S)) :
                 RemoveAll(S)[i].cmd = "zrem" /\ RemoveAll(S)[i].sess \in S
<1> DEFINE R == {ZRem(k, s) : k \in Keys, s \in S}
           Listing(b) == \A r \in R : \E i \in DOMAIN b : b[i] = r
<1>1. IsFiniteSet(Keys)
  <2>1. StatusNames \in Seq(STRING)
    BY DEF RedisAssumption
  <2>2. DOMAIN StatusNames = 1..Len(StatusNames) /\ Len(StatusNames) \in Nat
    BY <2>1
  <2>3. IsFiniteSet(DOMAIN StatusNames)
    BY <2>2, FS_Interval
  <2>4. StatusNames \in Surjection(DOMAIN StatusNames, Statuses)
    BY <2>1 DEF Surjection, Statuses
  <2>5. IsFiniteSet(Statuses)
    BY <2>3, <2>4, FS_Surjection
  <2> QED
    BY <2>5, FS_AddElement DEF Keys
<1>2. IsFiniteSet(S)
  BY FS_Subset DEF RedisAssumption
<1>3. IsFiniteSet(R)
  <2> DEFINE f == [p \in Keys \X S |-> ZRem(p[1], p[2])]
  <2>1. IsFiniteSet(Keys \X S)
    BY <1>1, <1>2, FS_Product
  <2>2. f \in Surjection(Keys \X S, R)
    <3>1. \A p \in Keys \X S : f[p] \in R
      OBVIOUS
    <3>2. \A k \in Keys, t \in S : <<k, t>> \in Keys \X S /\ f[<<k, t>>] = ZRem(k, t)
      OBVIOUS
    <3>3. f \in [Keys \X S -> R]
      BY <3>1
    <3>4. \A r \in R : \E p \in Keys \X S : f[p] = r
      <4>1. \A r \in R : \E k \in Keys, t \in S : r = ZRem(k, t)
        OBVIOUS
      <4> HIDE DEF f, R
      <4> QED  BY <3>2, <4>1
    <3> HIDE DEF f, R
    <3> QED
      BY <3>3, <3>4 DEF Surjection
  <2> QED
    BY <2>1, <2>2, FS_Surjection
<1>4. \A r \in R : r \in Cmds /\ r.cmd = "zrem" /\ r.sess \in S
  BY DEF ZRem, Cmds
<1> HIDE DEF R
<1>5. PICK b \in Bijection(1..Cardinality(R), R) : TRUE
  BY <1>3, FS_CardinalityType DEF ExistsBijection
<1>6. b \in [1..Cardinality(R) -> R] /\ Listing(b)
  BY <1>5 DEF Bijection, Surjection
<1>7. RemoveAll(S) \in [1..Cardinality(R) -> R]
  <2>1. RemoveAll(S) = CHOOSE f \in [1..Cardinality(R) -> R] : Listing(f)
    BY DEF RemoveAll, R
  <2> HIDE DEF Listing
  <2> QED
    BY <1>6, <2>1
<1>8. Cardinality(R) \in Nat
  BY <1>3, FS_CardinalityType
<1>9. RemoveAll(S) \in Seq(R) /\ Len(RemoveAll(S)) = Cardinality(R)
  BY <1>7, <1>8
<1> QED
  BY <1>4, <1>7, <1>9

LEMMA UpdateTyped ==
    ASSUME NEW s \in Sessions, NEW old \in Statuses \cup {None}, NEW st \in Statuses
    PROVE  UpdateIndex(s, old, st) \in Seq(Cmds)
<1>1. ZAdd(st, s) \in Cmds /\ ZAdd(All, s) \in Cmds
  BY DEF ZAdd, Cmds, Keys
<1>2. old # None => ZRem(old, s) \in Cmds
  BY DEF ZRem, Cmds, Keys
<1> QED
  BY <1>1, <1>2 DEF UpdateIndex

LEMMA InitStore == ASSUME RedisAssumption, Init PROVE StoreInv
<1>1. <<>> \in Seq(Cmds) /\ Len(<<>>) = 0
  OBVIOUS
<1> QED
  BY <1>1 DEF Init, StoreInv, TypeOK, CallTyped, HoldsExpected, PCs
----------------------------------------------------------------------------
\* The end of a call, and the start of a pipeline, type their locals.
LEMMA ReturnTyped ==
    ASSUME StoreInv, NEW c \in Clients, Return(c), UNCHANGED held
    PROVE  CallTyped' /\ HoldsExpected' /\ (\A d \in Clients : pos'[d] \in 0..Len(batch'[d]))
<1>1. <<>> \in Seq(Cmds) /\ Len(<<>>) = 0
  OBVIOUS
<1>2. /\ pc' \in [Clients -> PCs] /\ req' \in [Clients -> Req \cup {None}]
      /\ reply' \in [Clients -> Replies \cup {None}]
      /\ batch' \in [Clients -> Seq(Cmds)] /\ pos' \in [Clients -> Nat]
      /\ ids' \in [Clients -> SUBSET Sessions] /\ missing' \in [Clients -> SUBSET Sessions]
  BY <1>1 DEF Return, StoreInv, CallTyped, PCs
<1>3. /\ pc'[c] = "idle" /\ batch'[c] = <<>> /\ pos'[c] = 0
      /\ \A d \in Clients \ {c} : /\ pc'[d] = pc[d] /\ req'[d] = req[d] /\ reply'[d] = reply[d]
                                  /\ batch'[d] = batch[d] /\ pos'[d] = pos[d]
  BY DEF Return, StoreInv, CallTyped
<1>4. \A d \in Clients : pos'[d] <= Len(batch'[d]) /\ pos'[d] >= 0
  <2>1. pos'[c] <= Len(batch'[c]) /\ pos'[c] >= 0
    BY <1>1, <1>3
  <2>2. \A d \in Clients \ {c} : pos[d] <= Len(batch[d]) /\ pos[d] >= 0
    BY DEF StoreInv, CallTyped
  <2> QED  BY <1>3, <2>1, <2>2
<1>5. \A d \in Clients : Len(batch'[d]) \in Nat /\ pos'[d] \in Nat
  BY <1>2
<1>6. CallTyped'
  BY <1>2, <1>3, <1>4 DEF StoreInv, CallTyped
<1>7. HoldsExpected'
  BY <1>3 DEF StoreInv, HoldsExpected, Version
<1> QED
  BY <1>4, <1>5, <1>6, <1>7

LEMMA SendTyped ==
    ASSUME StoreInv, NEW c \in Clients, NEW b \in Seq(Cmds), Send(c, b), UNCHANGED held
    PROVE  CallTyped' /\ HoldsExpected' /\ (\A d \in Clients : pos'[d] \in 0..Len(batch'[d]))
<1>2. /\ pc' \in [Clients -> PCs] /\ req' \in [Clients -> Req \cup {None}]
      /\ reply' \in [Clients -> Replies \cup {None}]
      /\ batch' \in [Clients -> Seq(Cmds)] /\ pos' \in [Clients -> Nat]
      /\ ids' \in [Clients -> SUBSET Sessions] /\ missing' \in [Clients -> SUBSET Sessions]
  BY DEF Send, StoreInv, CallTyped, PCs
<1>3. /\ pc'[c] = "batch" /\ batch'[c] = b /\ pos'[c] = 0
      /\ \A d \in Clients \ {c} : /\ pc'[d] = pc[d] /\ req'[d] = req[d] /\ reply'[d] = reply[d]
                                  /\ batch'[d] = batch[d] /\ pos'[d] = pos[d]
  BY DEF Send, StoreInv, CallTyped
<1>4. \A d \in Clients : pos'[d] <= Len(batch'[d]) /\ pos'[d] >= 0
  <2>1. pos'[c] <= Len(batch'[c]) /\ pos'[c] >= 0
    BY <1>3, Len(b) \in Nat
  <2>2. \A d \in Clients \ {c} : pos[d] <= Len(batch[d]) /\ pos[d] >= 0
    BY DEF StoreInv, CallTyped
  <2> QED  BY <1>3, <2>1, <2>2
<1>5. \A d \in Clients : Len(batch'[d]) \in Nat /\ pos'[d] \in Nat
  BY <1>2
<1>6. CallTyped'
  BY <1>2, <1>3, <1>4 DEF StoreInv, CallTyped
<1>7. HoldsExpected'
  BY <1>3 DEF StoreInv, HoldsExpected, Version
<1> QED
  BY <1>4, <1>5, <1>6, <1>7

LEMMA StartStore ==
    ASSUME RedisAssumption, StoreInv, NEW c \in Clients, Start(c), UNCHANGED atomic
    PROVE  StoreInv'
<1> USE DEF StoreInv
<1>1. ASSUME NEW s \in Sessions, Load(c, s)
      PROVE  StoreInv'
  <2>1. /\ held' = [held EXCEPT ![c] = [sess |-> s, rec |-> hash[s]]] /\ pc[c] = "idle"
        /\ UNCHANGED <<server, delisted, pc, req, reply, pipeline, scan, answered>>
    BY <1>1 DEF Load, Begin
  <2>2. hash[s] \in Rec \cup {None}
    BY DEF TypeOK
  <2>3. TypeOK' /\ CallTyped'
    BY <2>1, <2>2 DEF TypeOK, CallTyped, server, pipeline, scan
  <2>4. HoldsExpected'
    BY <2>1 DEF TypeOK, HoldsExpected, Version
  <2> QED  BY <2>3, <2>4
<1>2. ASSUME NEW s \in Sessions, Remove(c, s)
      PROVE  StoreInv'
  <2>1. <<Del(s)>> \o RemoveFromEveryIndex(s) \in Seq(Cmds)
    BY RemoveTyped
  <2>2. UNCHANGED <<server, delisted, held, answered>> /\ Send(c, <<Del(s)>> \o RemoveFromEveryIndex(s))
    BY <1>2 DEF Remove
  <2>3. CallTyped' /\ HoldsExpected' /\ \A d \in Clients : pos'[d] \in 0..Len(batch'[d])
    BY <2>1, <2>2, SendTyped
  <2> QED
    BY <2>2, <2>3 DEF TypeOK, CallTyped, PCs, server
\* A write: what it compares with is -1, or the version the client holds.
<1>3. ASSUME NEW s \in Sessions, NEW v \in Values, NEW e \in -1..MaxVersion,
             Write(c, s, v, e),
             e >= 0 => held[c] # None /\ held[c].sess = s /\ Version(held[c].rec) = e
      PROVE  StoreInv'
  <2>1. /\ pc' = [pc EXCEPT ![c] = "write"]
        /\ req' = [req EXCEPT ![c] = [sess |-> s, value |-> v, expected |-> e]]
        /\ UNCHANGED <<server, delisted, reply, pipeline, scan, held, answered>>
    BY <1>3 DEF Write
  <2>2. [sess |-> s, value |-> v, expected |-> e] \in Req
    BY DEF Req
  <2>3. TypeOK' /\ CallTyped'
    BY <2>1, <2>2 DEF TypeOK, CallTyped, PCs, server, pipeline, scan
  <2>4. HoldsExpected'
    BY <1>3, <2>1 DEF CallTyped, HoldsExpected, Version
  <2> QED  BY <2>3, <2>4
<1>4. ASSUME NEW s \in Sessions, NEW v \in Values, Save(c, s, v)
      PROVE  StoreInv'
  <2>1. -1 \in -1..MaxVersion /\ ~(-1 >= 0)
    BY DEF RedisAssumption
  <2> QED
    BY <1>3, <1>4, <2>1 DEF Save
<1>5. ASSUME NEW v \in Values, SaveIf(c, v)
      PROVE  StoreInv'
  <2>1. held[c] # None /\ held[c].sess \in Sessions /\ held[c].rec \in Rec \cup {None}
    BY <1>5 DEF SaveIf, TypeOK
  <2>2. Version(held[c].rec) \in -1..MaxVersion
    BY <2>1, VersionType DEF RedisAssumption
  <2>3. Write(c, held[c].sess, v, Version(held[c].rec))
    BY <1>5 DEF SaveIf
  <2> QED
    BY <1>3, <2>1, <2>2, <2>3
<1>6. CASE Scan(c)
  <2>1. /\ pc' = [pc EXCEPT ![c] = "probe"] /\ ids' = [ids EXCEPT ![c] = index[All]]
        /\ missing' = [missing EXCEPT ![c] = {}]
        /\ UNCHANGED <<server, delisted, req, reply, pipeline, held, answered>>
    BY <1>6 DEF Scan
  <2>2. index[All] \in SUBSET Sessions
    BY DEF TypeOK, Keys
  <2>3. TypeOK' /\ CallTyped'
    BY <2>1, <2>2 DEF TypeOK, CallTyped, PCs, server, pipeline
  <2>4. HoldsExpected'
    BY <2>1 DEF CallTyped, HoldsExpected, Version
  <2> QED  BY <2>3, <2>4
<1> QED
  BY <1>1, <1>2, <1>4, <1>5, <1>6 DEF Start

\* What the script finds and answers.
LEMMA EvalFacts ==
    ASSUME RedisAssumption, StoreInv, NEW c \in Clients, EvalSave(c)
    PROVE  /\ pc[c] = "write" /\ req[c] \in Req /\ hash[req[c].sess] \in Rec \cup {None}
           /\ answered' = [answered EXCEPT ![c] = reply'[c].code]
           /\ pc' = [pc EXCEPT ![c] = "reply"]
           /\ UNCHANGED <<req, batch, pos, retried, ids, missing, held, removed>>
           /\ LET s == req[c].sess
                  r == hash[s]
                  old == IF r = None THEN None ELSE Status(r)
                  next == [id |-> s, value |-> req[c].value, version |-> Version(r) + 1]
              IN  \/ /\ Refused(r, req[c].expected)
                     /\ reply' = [reply EXCEPT ![c] =
                           [code |-> IF r = None THEN "gone" ELSE "version_conflict", old |-> None]]
                     /\ UNCHANGED <<hash, index, delisted>>
                  \/ /\ ~Refused(r, req[c].expected) /\ Version(r) < MaxVersion
                     /\ next \in Rec /\ next # None /\ Status(next) \in Statuses
                     /\ old \in Statuses \cup {None}
                     /\ hash' = [hash EXCEPT ![s] = next]
                     /\ index' = IF atomic THEN Indexed(index, s, old, Status(next)) ELSE index
                     /\ reply' = [reply EXCEPT ![c] =
                           [code |-> IF req[c].expected < 0 THEN "saved" ELSE "ok", old |-> old]]
                     /\ delisted' = IF Doubted(s) THEN delisted ELSE delisted \ {s}
<1>1. pc[c] = "write" /\ req[c] \in Req
  BY DEF EvalSave, StoreInv, CallTyped
<1>2. req[c].sess \in Sessions /\ req[c].value \in Values /\ hash[req[c].sess] \in Rec \cup {None}
  BY <1>1 DEF StoreInv, TypeOK, Req
<1> DEFINE s == req[c].sess
           r == hash[s]
           next == [id |-> s, value |-> req[c].value, version |-> Version(r) + 1]
<1>3. Version(r) \in 0..MaxVersion /\ (r # None => Status(r) \in Statuses)
  BY <1>2, VersionType
<1>4. Version(r) < MaxVersion => next \in Rec /\ next # None /\ Status(next) \in Statuses
  BY <1>2, <1>3 DEF RedisAssumption, Rec, Status
<1> QED
  BY <1>1, <1>2, <1>3, <1>4 DEF EvalSave, NextVersion, pipeline, scan

LEMMA EvalStore ==
    ASSUME RedisAssumption, StoreInv, NEW c \in Clients, EvalSave(c), UNCHANGED atomic
    PROVE  StoreInv'
<1> USE DEF StoreInv
<1>1. /\ pc[c] = "write" /\ req[c] \in Req /\ pc' = [pc EXCEPT ![c] = "reply"]
      /\ answered' = [answered EXCEPT ![c] = reply'[c].code]
      /\ UNCHANGED <<req, batch, pos, retried, ids, missing, held, removed>>
  BY EvalFacts
<1>2. PICK a \in Replies : reply' = [reply EXCEPT ![c] = a]
  <2> DEFINE r == hash[req[c].sess]
             old == IF r = None THEN None ELSE Status(r)
  <2>1. CASE Refused(r, req[c].expected)
    <3>1. [code |-> IF r = None THEN "gone" ELSE "version_conflict", old |-> None] \in Replies
      BY DEF Replies
    <3> QED  BY <2>1, <3>1, EvalFacts
  <2>2. CASE ~Refused(r, req[c].expected)
    <3>1. old \in Statuses \cup {None}
      BY <2>2, EvalFacts
    <3>2. [code |-> IF req[c].expected < 0 THEN "saved" ELSE "ok", old |-> old] \in Replies
      BY <3>1 DEF Replies
    <3> QED  BY <2>2, <3>2, EvalFacts
  <2> QED  BY <2>1, <2>2
<1>3. reply'[c] = a /\ a.code \in {"saved", "ok", "version_conflict", "gone"}
  BY <1>2 DEF CallTyped, Replies
<1>4. hash' \in [Sessions -> Rec \cup {None}] /\ index' \in [Keys -> SUBSET Sessions]
  <2>1. req[c].sess \in Sessions
    BY <1>1 DEF Req
  <2>2. \A old, st : Indexed(index, req[c].sess, old, st) \in [Keys -> SUBSET Sessions]
    BY <2>1 DEF Indexed, TypeOK
  <2>3. \/ UNCHANGED <<hash, index>>
        \/ \E next \in Rec : \E old, st :
              /\ hash' = [hash EXCEPT ![req[c].sess] = next]
              /\ index' \in {index, Indexed(index, req[c].sess, old, st)}
    <3> DEFINE was == hash[req[c].sess]
               next == [id |-> req[c].sess, value |-> req[c].value, version |-> Version(was) + 1]
               old == IF was = None THEN None ELSE Status(was)
    <3>1. CASE Refused(was, req[c].expected)
      BY <3>1, EvalFacts
    <3>2. CASE ~Refused(was, req[c].expected)
      <4>1. /\ next \in Rec /\ hash' = [hash EXCEPT ![req[c].sess] = next]
            /\ index' \in {index, Indexed(index, req[c].sess, old, Status(next))}
        BY <3>2, EvalFacts
      <4> HIDE DEF next, old
      <4> QED  BY <4>1
    <3> QED  BY <3>1, <3>2
  <2>4. CASE UNCHANGED <<hash, index>>
    BY <2>4 DEF TypeOK
  <2>5. CASE \E next \in Rec : \E old, st :
              /\ hash' = [hash EXCEPT ![req[c].sess] = next]
              /\ index' \in {index, Indexed(index, req[c].sess, old, st)}
    BY <2>1, <2>2, <2>5 DEF TypeOK
  <2> QED  BY <2>3, <2>4, <2>5
<1>5. TypeOK'
  <2>1. delisted' \subseteq delisted
    BY EvalFacts
  <2> QED
    BY <1>1, <1>3, <1>4, <2>1 DEF TypeOK
<1>6. CallTyped'
  BY <1>1, <1>2, <1>3 DEF CallTyped, PCs
<1>7. HoldsExpected'
  BY <1>1 DEF CallTyped, HoldsExpected, Version
<1> QED
  BY <1>5, <1>6, <1>7

LEMMA ContinueStore ==
    ASSUME RedisAssumption, StoreInv, NEW c \in Clients, Continue(c), UNCHANGED atomic
    PROVE  StoreInv'
<1> USE DEF StoreInv
\* A call that ends, or sends a pipeline, and touches nothing shared.
<1>a. ASSUME UNCHANGED <<server, delisted, held>>,
             answered' = answered \/ answered' = [answered EXCEPT ![c] = "error"],
             \/ Return(c)
             \/ \E b \in Seq(Cmds) : Send(c, b)
      PROVE  StoreInv'
  <2>1. CallTyped' /\ HoldsExpected' /\ \A d \in Clients : pos'[d] \in 0..Len(batch'[d])
    BY <1>a, ReturnTyped, SendTyped
  <2> QED
    BY <1>a, <2>1 DEF TypeOK, CallTyped, PCs, server
<1>1. ASSUME NEW s \in Sessions, Probe(c, s)
      PROVE  StoreInv'
  <2>1. /\ ids' = [ids EXCEPT ![c] = @ \ {s}] /\ delisted' \subseteq Sessions
        /\ \E new \in {{}, {s}} : missing' = [missing EXCEPT ![c] = @ \cup new]
        /\ UNCHANGED <<server, pc, req, reply, pipeline, held, answered>>
    BY <1>1 DEF Probe, TypeOK, CallTyped
  <2> QED
    BY <2>1 DEF TypeOK, CallTyped, HoldsExpected, Version, server, pipeline
<1>2. CASE EvalSave(c)
  BY <1>2, EvalStore
<1>3. CASE WriteReply(c)
  <2>1. UNCHANGED <<server, delisted, held, answered>> /\ req[c] \in Req /\ reply[c] \in Replies
    BY <1>3 DEF WriteReply, CallTyped
  <2>2. UpdateIndex(req[c].sess, reply[c].old, StatusOf[req[c].value]) \in Seq(Cmds)
    BY <2>1, UpdateTyped DEF Req, Replies, RedisAssumption
  <2> QED
    BY <1>3, <1>a, <2>1, <2>2 DEF WriteReply
<1>4. CASE Prune(c)
  <2>1. missing[c] \in SUBSET Sessions
    BY DEF CallTyped
  <2>2. RemoveAll(missing[c]) \in Seq(Cmds)
    BY <2>1, RemoveAllTyped
  <2> QED
    BY <1>4, <1>a, <2>2 DEF Prune
<1>5. CASE Exec(c)
  <2>1. /\ pos[c] \in Nat /\ batch[c] \in Seq(Cmds) /\ pos[c] + 1 \in 1..Len(batch[c])
        /\ pos' = [pos EXCEPT ![c] = pos[c] + 1]
        /\ UNCHANGED <<delisted, pc, req, reply, batch, retried, scan, held, applied, answered>>
    BY <1>5 DEF Exec, CallTyped
  <2>2. batch[c][pos[c] + 1] \in Cmds
    BY <2>1
  <2>3. hash' \in [Sessions -> Rec \cup {None}] /\ index' \in [Keys -> SUBSET Sessions]
        /\ removed' \subseteq Sessions
    <3> DEFINE k == batch[c][pos[c] + 1]
    <3>1. k.key \in Keys /\ k.sess \in Sessions
      BY <2>2 DEF Cmds
    <3>2. \/ index' = [index EXCEPT ![k.key] = @ \cup {k.sess}] /\ UNCHANGED <<hash, removed>>
          \/ index' = [index EXCEPT ![k.key] = @ \ {k.sess}] /\ UNCHANGED <<hash, removed>>
          \/ /\ hash' = [hash EXCEPT ![k.sess] = None] /\ removed' = removed \cup {k.sess}
             /\ UNCHANGED index
      BY <1>5 DEF Exec
    <3> HIDE DEF k
    <3> QED  BY <3>1, <3>2 DEF TypeOK
  <2>4. \A d \in Clients : pos'[d] \in 0..Len(batch'[d]) /\ pos'[d] <= Len(batch'[d])
    BY <2>1 DEF TypeOK, CallTyped
  <2> QED
    BY <2>1, <2>3, <2>4 DEF TypeOK, CallTyped, HoldsExpected, Version, scan
<1>6. CASE BatchReplies(c)
  BY <1>6, <1>a DEF BatchReplies
<1>7. CASE Retry(c)
  <2>1. /\ pc' = [pc EXCEPT ![c] = IF pc[c] = "batch" THEN "batch" ELSE "write"]
        /\ reply' = [reply EXCEPT ![c] = None] /\ pos' = [pos EXCEPT ![c] = 0]
        /\ pc[c] \in {"write", "reply", "batch"}
        /\ UNCHANGED <<server, delisted, req, batch, scan, held, answered>>
    BY <1>7 DEF Retry, CallTyped
  <2>2. \A d \in Clients : pos'[d] \in 0..Len(batch'[d]) /\ pos'[d] <= Len(batch'[d])
    <3>1. \A d \in Clients : Len(batch[d]) \in Nat
      BY DEF CallTyped
    <3> QED
      BY <2>1, <3>1 DEF TypeOK, CallTyped
  <2>3. TypeOK' /\ CallTyped'
    BY <2>1, <2>2 DEF TypeOK, CallTyped, PCs, server, scan
  <2>4. HoldsExpected'
    BY <2>1 DEF CallTyped, HoldsExpected, Version
  <2> QED  BY <2>3, <2>4
<1>8. CASE GiveUp(c)
  BY <1>8, <1>a DEF GiveUp
<1>9. CASE Refuse(c)
  <2>1. /\ pos[c] \in Nat /\ batch[c] \in Seq(Cmds) /\ pos[c] + 1 \in 1..Len(batch[c])
        /\ pos' = [pos EXCEPT ![c] = pos[c] + 1]
        /\ UNCHANGED <<server, pc, req, reply, batch, scan, held, answered>>
    BY <1>9 DEF Refuse, CallTyped
  <2>2. delisted' \subseteq Sessions
    <3>0. batch[c][pos[c] + 1] \in Cmds
      BY <2>1
    <3>1. batch[c][pos[c] + 1].sess \in Sessions
      BY <3>0 DEF Cmds
    <3> QED
      BY <1>9, <3>1 DEF Refuse, TypeOK
  <2>3. \A d \in Clients : pos'[d] \in 0..Len(batch'[d]) /\ pos'[d] <= Len(batch'[d])
    BY <2>1 DEF TypeOK, CallTyped
  <2> QED
    BY <2>1, <2>2, <2>3 DEF TypeOK, CallTyped, HoldsExpected, Version, scan, server
<1> QED
  BY <1>1, <1>2, <1>3, <1>4, <1>5, <1>6, <1>7, <1>8, <1>9 DEF Continue

LEMMA NextStore ==
    ASSUME RedisAssumption, StoreInv, [Next]_vars
    PROVE  StoreInv'
<1>1. CASE UNCHANGED vars
  BY <1>1 DEF vars, StoreInv, TypeOK, CallTyped, HoldsExpected, Version
<1>2. ASSUME NEW s \in Sessions, Expire(s), UNCHANGED atomic
      PROVE  StoreInv'
  BY <1>2 DEF Expire, StoreInv, TypeOK, CallTyped, HoldsExpected, Version, pipeline, scan
<1> QED
  BY <1>1, <1>2, StartStore, ContinueStore DEF Next

\* What the hashes, the indexes and the answers may hold, as the scripts and
\* pipelines write them.
THEOREM StoreTypes == ASSUME RedisAssumption PROVE Spec => []TypeOK
<1>1. Init => StoreInv
  BY InitStore
<1>2. StoreInv /\ [Next]_vars => StoreInv'
  BY NextStore
<1>3. StoreInv => TypeOK
  BY DEF StoreInv
<1> QED
  BY <1>1, <1>2, <1>3, PTL DEF Spec
----------------------------------------------------------------------------
\* The sessions the index owes nothing: what makes a pipeline or a scan forget
\* a session is its removal, its expiry or an error reply.
Gone == removed \cup delisted

\* A session that was never removed is in no index its hash does not name, and,
\* if it is stored and was not delisted either, in each that it does name.
Filed(s) ==
    \A k \in Keys : s \in index[k] => hash[s] # None /\ k \in {All, Status(hash[s])}

FiledOrAbsent ==
    \A s \in Sessions \ removed : Filed(s) /\ (s \notin delisted => IndexedRight(s))

\* A scan collects only sessions that have, or had, a hash.
ScanFinds ==
    \A c \in Clients :
        /\ \A s \in ids[c] : s \notin removed => hash[s] # None
        /\ missing[c] \subseteq Gone

\* A pipeline adds no member, and takes a session out of an index only when
\* that session is gone, or when its own DEL goes first.
BatchesClear ==
    \A c \in Clients : \A i \in 1..Len(batch[c]) :
        /\ batch[c][i].cmd # "zadd"
        /\ batch[c][i].cmd = "zrem" =>
              \/ batch[c][i].sess \in Gone
              \/ /\ i # 1 /\ pos[c] = 0
                 /\ batch[c][1].cmd = "del" /\ batch[c][1].sess = batch[c][i].sess

IndexInv == atomic => FiledOrAbsent /\ ScanFinds /\ BatchesClear

LEMMA InitIndex == ASSUME Init PROVE IndexInv
<1>1. \A c \in Clients : Len(batch[c]) = 0
  BY DEF Init
<1> QED
  BY <1>1 DEF Init, IndexInv, FiledOrAbsent, Filed, IndexedRight, ScanFinds, BatchesClear

\* The batches of the other clients, and the sets of their scans.
LEMMA BatchesFrame ==
    ASSUME StoreInv, BatchesClear, NEW c \in Clients,
           batch' \in [Clients -> Seq(Cmds)],
           \A d \in Clients \ {c} : batch'[d] = batch[d] /\ pos'[d] = pos[d],
           Gone \subseteq Gone',
           \A i \in 1..Len(batch'[c]) :
              /\ batch'[c][i].cmd # "zadd"
              /\ batch'[c][i].cmd = "zrem" =>
                    \/ batch'[c][i].sess \in Gone'
                    \/ /\ i # 1 /\ pos'[c] = 0
                       /\ batch'[c][1].cmd = "del" /\ batch'[c][1].sess = batch'[c][i].sess
    PROVE  BatchesClear'
<1>1. ASSUME NEW d \in Clients \ {c}, NEW i \in 1..Len(batch'[d])
      PROVE  /\ batch'[d][i].cmd # "zadd"
             /\ batch'[d][i].cmd = "zrem" =>
                   \/ batch'[d][i].sess \in Gone'
                   \/ /\ i # 1 /\ pos'[d] = 0
                      /\ batch'[d][1].cmd = "del" /\ batch'[d][1].sess = batch'[d][i].sess
  BY <1>1 DEF BatchesClear
<1> QED
  BY <1>1 DEF BatchesClear

\* Steps that leave the server alone.
LEMMA ClientIndex ==
    ASSUME StoreInv, IndexInv, UNCHANGED <<atomic, server, delisted>>,
           atomic => ScanFinds', atomic => BatchesClear'
    PROVE  IndexInv'
BY DEF IndexInv, FiledOrAbsent, Filed, IndexedRight, Status, server

LEMMA StartIndex ==
    ASSUME RedisAssumption, StoreInv, IndexInv, NEW c \in Clients, Start(c), UNCHANGED atomic
    PROVE  IndexInv'
<1> USE DEF StoreInv
<1>0. UNCHANGED <<server, delisted>>
  BY DEF Start, Load, Remove, Save, SaveIf, Write, Scan
<1>1. ASSUME NEW s \in Sessions, Load(c, s)
      PROVE  IndexInv'
  BY <1>1, ClientIndex DEF Load, IndexInv, ScanFinds, BatchesClear, Gone, server, scan, pipeline
<1>2. ASSUME NEW s \in Sessions, Remove(c, s)
      PROVE  IndexInv'
  <2> DEFINE b == <<Del(s)>> \o RemoveFromEveryIndex(s)
  <2>1. /\ b \in Seq(Cmds) /\ Len(b) >= 1 /\ b[1].cmd = "del" /\ b[1].sess = s
        /\ \A i \in 1..Len(b) : i # 1 => b[i].cmd = "zrem" /\ b[i].sess = s
    BY RemoveTyped
  <2>2. UNCHANGED <<server, delisted>> /\ Send(c, b)
    BY <1>2 DEF Remove
  <2> HIDE DEF b
  <2>3. /\ batch' \in [Clients -> Seq(Cmds)] /\ batch'[c] = b /\ pos'[c] = 0
        /\ ids'[c] = {} /\ missing'[c] = {}
        /\ \A d \in Clients \ {c} : /\ batch'[d] = batch[d] /\ pos'[d] = pos[d]
                                    /\ ids'[d] = ids[d] /\ missing'[d] = missing[d]
    BY <2>1, <2>2 DEF Send, CallTyped
  <2>4. \A i \in 1..Len(b) :
           /\ b[i].cmd # "zadd"
           /\ b[i].cmd = "zrem" => i # 1 /\ b[1].cmd = "del" /\ b[1].sess = b[i].sess
    BY <2>1
  <2>5. atomic => BatchesClear'
    BY <2>2, <2>3, <2>4, BatchesFrame DEF IndexInv, Gone, server
  <2>6. atomic => ScanFinds'
    BY <2>2, <2>3 DEF IndexInv, ScanFinds, Gone, server
  <2> QED
    BY <2>2, <2>5, <2>6, ClientIndex
<1>3. ASSUME NEW s, NEW v, NEW e, Write(c, s, v, e)
      PROVE  IndexInv'
  BY <1>3, ClientIndex DEF Write, IndexInv, ScanFinds, BatchesClear, Gone, server, scan, pipeline
<1>4. CASE Scan(c)
  <2>1. /\ ids' = [ids EXCEPT ![c] = index[All]] /\ missing' = [missing EXCEPT ![c] = {}]
        /\ UNCHANGED <<server, delisted, pipeline>>
    BY <1>4 DEF Scan
  <2>2. atomic => ScanFinds'
    <3>1. All \in Keys /\ index[All] \subseteq Sessions
      BY DEF Keys, TypeOK
    <3> HIDE DEF All
    <3>2. atomic => \A s \in index[All] : s \notin removed => hash[s] # None
      BY <3>1 DEF IndexInv, FiledOrAbsent, Filed
    <3> QED
      BY <2>1, <3>2 DEF IndexInv, ScanFinds, Gone, CallTyped, server
  <2> QED
    BY <2>1, <2>2, ClientIndex DEF IndexInv, BatchesClear, Gone, server, pipeline
<1> QED
  BY <1>1, <1>2, <1>3, <1>4 DEF Start, Save, SaveIf

\* The script stores a session and indexes it, in one step.
LEMMA EvalIndex ==
    ASSUME RedisAssumption, StoreInv, IndexInv, NEW c \in Clients, EvalSave(c), UNCHANGED atomic
    PROVE  IndexInv'
<1> USE DEF StoreInv
<1> SUFFICES ASSUME atomic
             PROVE  FiledOrAbsent' /\ ScanFinds' /\ BatchesClear'
  BY DEF IndexInv
<1> DEFINE s == req[c].sess
           r == hash[s]
           old == IF r = None THEN None ELSE Status(r)
           next == [id |-> s, value |-> req[c].value, version |-> Version(r) + 1]
<1>1. s \in Sessions /\ UNCHANGED <<batch, pos, ids, missing, removed>>
  BY EvalFacts DEF Req
\* Only a session that nobody is about to delist is owed its index again.
<1>2. BatchesClear' /\ \A d \in Clients : missing'[d] \subseteq Gone'
  <2>1. delisted' = delisted \/ (delisted' = delisted \ {s} /\ ~Doubted(s))
    BY EvalFacts
  <2>2. CASE delisted' = delisted
    BY <1>1, <2>2 DEF IndexInv, BatchesClear, ScanFinds, Gone
  <2>3. CASE delisted' = delisted \ {s} /\ ~Doubted(s)
    <3>1. \A d \in Clients : s \notin missing[d] /\ \A i \in 1..Len(batch[d]) : batch[d][i].sess # s
      <4>1. \A d \in Clients : DOMAIN batch[d] = 1..Len(batch[d])
        BY DEF CallTyped
      <4> QED
        BY <2>3, <4>1 DEF Doubted
    <3>2. \A x : x # s /\ x \in Gone => x \in Gone'
      BY <1>1, <2>3 DEF Gone
    <3> QED
      BY <1>1, <3>1, <3>2 DEF IndexInv, BatchesClear, ScanFinds
  <2> QED
    BY <2>1, <2>2, <2>3
<1>3. CASE Refused(r, req[c].expected)
  <2>1. UNCHANGED <<hash, index, delisted>>
    BY <1>3, EvalFacts
  <2> QED
    BY <1>1, <1>2, <2>1 DEF IndexInv, FiledOrAbsent, Filed, IndexedRight, Status, ScanFinds
<1>4. CASE ~Refused(r, req[c].expected)
  <2>1. /\ next \in Rec /\ next # None /\ Status(next) \in Statuses
        /\ hash' = [hash EXCEPT ![s] = next]
        /\ index' = Indexed(index, s, old, Status(next))
    BY <1>4, EvalFacts
  <2>2. hash'[s] = next /\ \A t \in Sessions \ {s} : hash'[t] = hash[t]
    BY <1>1, <2>1 DEF TypeOK
  <2> DEFINE st == Status(next)
  <2>3. st \in Statuses /\ st # All /\ st = Status(hash'[s])
    BY <2>1, <2>2 DEF RedisAssumption
  <2>4. /\ old # None => old \in Statuses
        /\ r # None => old = Status(r) /\ old # None
        /\ old # All
    BY <1>1, VersionType DEF RedisAssumption, TypeOK, Keys
  <2>a. index' = Indexed(index, s, old, st)
    BY <2>1
  <2> HIDE DEF next, st, old, All
  <2>5. \A k \in Keys : index'[k] =
           IF k = st \/ k = All THEN index[k] \cup {s}
           ELSE IF k = old THEN index[k] \ {s} ELSE index[k]
    <3> SUFFICES ASSUME NEW k \in Keys
                 PROVE  index'[k] = IF k = st \/ k = All THEN index[k] \cup {s}
                                    ELSE IF k = old THEN index[k] \ {s} ELSE index[k]
      OBVIOUS
    <3>1. index'[k] = CASE k \in {st, All} -> index[k] \cup {s}
                        [] k = old /\ k # st -> index[k] \ {s}
                        [] OTHER -> index[k]
      BY <2>a DEF Indexed
    <3>2. CASE k \in {st, All}
      BY <2>3, <2>4, <3>1, <3>2
    <3>3. CASE k = old /\ k \notin {st, All}
      BY <3>1, <3>3
    <3>4. CASE k # old /\ k \notin {st, All}
      BY <3>1, <3>4
    <3> QED  BY <3>2, <3>3, <3>4
  <2>6. ScanFinds'
    BY <1>1, <1>2, <2>1, <2>2 DEF IndexInv, ScanFinds, CallTyped
  <2>b. \A t : t # s /\ t \notin delisted' => t \notin delisted
    BY <1>4, EvalFacts
  <2>7. ASSUME NEW t \in Sessions \ removed'
        PROVE  Filed(t)' /\ (t \notin delisted' => IndexedRight(t)')
    <3>0. All \in Keys /\ Statuses \subseteq Keys /\ \A k \in Keys : k = All \/ k \in Statuses
      BY DEF Keys
    <3>1. CASE t # s
      <4>1. \A k \in Keys : t \in index'[k] <=> t \in index[k]
        BY <2>5, <3>1
      <4>2. Filed(t) /\ (t \notin delisted => IndexedRight(t))
        BY <1>1, <2>7 DEF IndexInv, FiledOrAbsent
      <4>3. hash'[t] = hash[t]
        BY <2>2, <2>7, <3>1
      <4>4. Filed(t)'
        BY <4>1, <4>2, <4>3 DEF Filed, Status
      <4>5. ASSUME IndexedRight(t) PROVE IndexedRight(t)'
        BY <3>0, <4>1, <4>3, <4>5 DEF IndexedRight, Status
      <4> QED
        BY <2>b, <3>1, <4>2, <4>4, <4>5
    <3>2. CASE t = s
      <4>1. t \in index'[All]
        BY <2>5, <3>0, <3>2
      <4>2. Filed(s)
        BY <1>1, <2>7, <3>2 DEF IndexInv, FiledOrAbsent
      <4>3. \A k \in Statuses : t \in index'[k] <=> k = st
        BY <2>3, <2>4, <2>5, <3>0, <3>2, <4>2 DEF Filed, RedisAssumption
      <4>a. st = Status(hash[t])' /\ hash'[t] # None
        BY <2>1, <2>2, <2>3, <3>2 DEF Status
      <4>4. IndexedRight(t)'
        BY <4>1, <4>3, <4>a DEF IndexedRight
      <4>5. Filed(t)'
        BY <3>0, <4>3, <4>a DEF Filed
      <4> QED
        BY <4>4, <4>5
    <3> QED  BY <3>1, <3>2
  <2> QED
    BY <1>2, <2>6, <2>7 DEF FiledOrAbsent
<1> QED
  BY <1>3, <1>4

\* Steps that only take gone sessions out of the indexes, and forget no hash
\* of another.
LEMMA ShrinkIndex ==
    ASSUME StoreInv, IndexInv, UNCHANGED atomic,
           removed \subseteq removed', delisted \subseteq delisted',
           \A t \in Sessions \ removed' :
              /\ hash'[t] = hash[t]
              /\ \A k \in Keys : t \in index'[k] => t \in index[k]
              /\ t \notin delisted' => \A k \in Keys : t \in index[k] => t \in index'[k],
           atomic => ScanFinds', atomic => BatchesClear'
    PROVE  IndexInv'
<1> SUFFICES ASSUME atomic, NEW t \in Sessions \ removed'
             PROVE  Filed(t)' /\ (t \notin delisted' => IndexedRight(t)')
  BY DEF IndexInv, FiledOrAbsent
<1>1. Filed(t) /\ (t \notin delisted => IndexedRight(t)) /\ hash'[t] = hash[t]
  BY DEF IndexInv, FiledOrAbsent
<1>2. Filed(t)'
  BY <1>1 DEF Filed, Status
<1>3. ASSUME t \notin delisted'
      PROVE  IndexedRight(t)'
  <2>1. All \in Keys /\ Statuses \subseteq Keys
    BY DEF Keys
  <2> HIDE DEF All
  <2> QED
    BY <1>1, <1>3, <2>1 DEF IndexedRight, Status
<1> QED
  BY <1>2, <1>3

LEMMA ContinueIndex ==
    ASSUME RedisAssumption, StoreInv, StoreInv', IndexInv, NEW c \in Clients, Continue(c),
           UNCHANGED atomic
    PROVE  IndexInv'
<1> USE DEF StoreInv
<1>a. ASSUME Return(c), UNCHANGED <<server, delisted>>
      PROVE  IndexInv'
  <2>1. /\ batch'[c] = <<>> /\ ids'[c] = {} /\ missing'[c] = {}
        /\ \A d \in Clients \ {c} : /\ batch'[d] = batch[d] /\ pos'[d] = pos[d]
                                    /\ ids'[d] = ids[d] /\ missing'[d] = missing[d]
    BY <1>a DEF Return, CallTyped
  <2>2. atomic => ScanFinds'
    BY <1>a, <2>1 DEF IndexInv, ScanFinds, Gone, server
  <2>3. atomic => BatchesClear'
    <3>1. <<>> \in Seq(Cmds) /\ Len(<<>>) = 0
      OBVIOUS
    <3>2. batch' \in [Clients -> Seq(Cmds)]
      BY <1>a, <3>1 DEF Return, CallTyped
    <3>3. 1..Len(batch'[c]) = {}
      BY <2>1, <3>1
    <3>4. \A d \in Clients \ {c} : pos'[d] = pos[d]
      BY <1>a DEF Return, CallTyped
    <3> QED
      BY <1>a, <2>1, <3>2, <3>3, <3>4, BatchesFrame DEF IndexInv, Gone, server
  <2> QED
    BY <1>a, <2>2, <2>3, ClientIndex
<1>1. ASSUME NEW s \in Sessions, Probe(c, s)
      PROVE  IndexInv'
  <2>1. /\ s \in ids[c] /\ ids' = [ids EXCEPT ![c] = @ \ {s}]
        /\ UNCHANGED <<server, batch, pos>>
    BY <1>1 DEF Probe, pipeline
  <2>2. PICK error \in BOOLEAN :
           /\ missing' = [missing EXCEPT ![c] = IF error \/ hash[s] = None THEN @ \cup {s} ELSE @]
           /\ delisted' = IF error THEN delisted \cup {s} ELSE delisted
    BY <1>1 DEF Probe
  <2>3. Gone \subseteq Gone' /\ delisted \subseteq delisted'
    BY <2>1, <2>2 DEF Gone, server
  <2>4. \A d \in Clients : ids'[d] \subseteq ids[d]
    BY <2>1 DEF CallTyped
  <2>5. atomic => ScanFinds'
    <3>1. atomic /\ (error \/ hash[s] = None) => s \in Gone'
      BY <2>1, <2>2 DEF IndexInv, ScanFinds, Gone, server
    <3>2. missing'[c] \subseteq missing[c] \cup (IF error \/ hash[s] = None THEN {s} ELSE {})
      BY <2>2 DEF CallTyped
    <3>3. \A d \in Clients \ {c} : missing'[d] = missing[d]
      BY <2>2 DEF CallTyped
    <3> QED
      BY <2>1, <2>3, <2>4, <3>1, <3>2, <3>3 DEF IndexInv, ScanFinds, server
  <2> QED
    BY <2>1, <2>3, <2>5, ShrinkIndex DEF IndexInv, BatchesClear, server
<1>2. CASE EvalSave(c)
  BY <1>2, EvalIndex
<1>3. CASE WriteReply(c)
  <2>1. CASE Return(c)
    BY <1>3, <1>a, <2>1 DEF WriteReply
  <2>2. CASE ~atomic
    BY <2>2 DEF IndexInv
  <2> QED
    BY <1>3, <2>1, <2>2 DEF WriteReply
<1>4. CASE Prune(c)
  <2>1. CASE Return(c)
    BY <1>4, <1>a, <2>1 DEF Prune
  <2>2. CASE Send(c, RemoveAll(missing[c]))
    <3> DEFINE b == RemoveAll(missing[c])
    <3>1. missing[c] \in SUBSET Sessions
      BY DEF CallTyped
    <3>2. b \in Seq(Cmds) /\ \A i \in 1..Len(b) : b[i].cmd = "zrem" /\ b[i].sess \in missing[c]
      BY <3>1, RemoveAllTyped
    <3>3. UNCHANGED <<server, delisted>> /\ Send(c, b)
      BY <1>4, <2>2 DEF Prune
    <3> HIDE DEF b
    <3>4. /\ batch'[c] = b /\ ids'[c] = {} /\ missing'[c] = {}
          /\ \A d \in Clients \ {c} : /\ batch'[d] = batch[d] /\ pos'[d] = pos[d]
                                      /\ ids'[d] = ids[d] /\ missing'[d] = missing[d]
      BY <3>3 DEF Send, CallTyped
    <3>5. atomic => BatchesClear'
      BY <3>2, <3>3, <3>4, BatchesFrame DEF IndexInv, ScanFinds, Gone, CallTyped, server
    <3>6. atomic => ScanFinds'
      BY <3>3, <3>4 DEF IndexInv, ScanFinds, Gone, server
    <3> QED
      BY <3>3, <3>5, <3>6, ClientIndex
  <2> QED
    BY <1>4, <2>1, <2>2 DEF Prune
<1>5. CASE Exec(c)
  <2> DEFINE k == batch[c][pos[c] + 1]
  <2>1. /\ pos[c] + 1 \in 1..Len(batch[c]) /\ k \in Cmds /\ pos[c] \in Nat
        /\ pos' = [pos EXCEPT ![c] = pos[c] + 1] /\ UNCHANGED <<batch, ids, missing, delisted>>
    <3>1. /\ pos[c] < Len(batch[c]) /\ pos' = [pos EXCEPT ![c] = pos[c] + 1]
          /\ UNCHANGED <<batch, ids, missing, delisted>>
      BY <1>5 DEF Exec, scan
    <3>2. pos[c] \in Nat /\ batch[c] \in Seq(Cmds)
      BY DEF CallTyped
    <3> QED
      BY <3>1, <3>2
  <2>2. atomic =>
           \/ /\ k.cmd = "zrem" /\ index' = [index EXCEPT ![k.key] = @ \ {k.sess}]
              /\ UNCHANGED <<hash, removed>>
           \/ /\ k.cmd = "del" /\ UNCHANGED index
              /\ hash' = [hash EXCEPT ![k.sess] = None] /\ removed' = removed \cup {k.sess}
    BY <1>5, <2>1 DEF Exec, IndexInv, BatchesClear
  <2>3. atomic /\ k.cmd = "zrem" => k.sess \in Gone
    BY <2>1 DEF IndexInv, BatchesClear
  <2>4. k.key \in Keys /\ k.sess \in Sessions
    BY <2>1 DEF Cmds
  <2> HIDE DEF k
  <2>5. atomic =>
        /\ removed \subseteq removed'
        /\ \A t \in Sessions \ removed' :
              /\ hash'[t] = hash[t]
              /\ \A set \in Keys : t \in index'[set] => t \in index[set]
              /\ t \notin delisted' => \A set \in Keys : t \in index[set] => t \in index'[set]
    <3>1. CASE k.cmd = "zrem" /\ index' = [index EXCEPT ![k.key] = @ \ {k.sess}]
               /\ UNCHANGED <<hash, removed>>
      BY <2>1, <2>3, <2>4, <3>1 DEF TypeOK, Gone
    <3>2. CASE UNCHANGED index /\ hash' = [hash EXCEPT ![k.sess] = None]
               /\ removed' = removed \cup {k.sess}
      BY <2>4, <3>2 DEF TypeOK
    <3> QED  BY <2>2, <3>1, <3>2
  <2>6. atomic => ScanFinds'
    BY <2>1, <2>5 DEF IndexInv, ScanFinds, Gone, CallTyped
  <2>7. atomic => BatchesClear'
    <3> SUFFICES ASSUME atomic PROVE BatchesClear'
      OBVIOUS
    <3>0. Gone \subseteq Gone'
      BY <2>1, <2>5 DEF Gone
    <3>1. ASSUME NEW i \in 1..Len(batch[c]), batch[c][i].cmd = "zrem"
          PROVE  batch[c][i].sess \in Gone'
      <4>1. CASE batch[c][i].sess \in Gone
        BY <3>0, <4>1
      <4>2. CASE i # 1 /\ pos[c] = 0 /\ batch[c][1].cmd = "del"
                 /\ batch[c][1].sess = batch[c][i].sess
        <5>1. k = batch[c][1]
          BY <4>2 DEF k
        <5> QED
          BY <2>2, <4>2, <5>1 DEF Gone
      <4> QED
        BY <3>1, <4>1, <4>2 DEF IndexInv, BatchesClear
    <3>2. \A d \in Clients \ {c} : pos'[d] = pos[d]
      BY <2>1 DEF CallTyped
    <3> QED
      BY <2>1, <3>0, <3>1, <3>2, BatchesFrame DEF IndexInv, BatchesClear, CallTyped
  <2> QED
    BY <2>1, <2>5, <2>6, <2>7, ShrinkIndex DEF IndexInv
<1>6. CASE BatchReplies(c)
  BY <1>6, <1>a DEF BatchReplies
<1>7. CASE Retry(c)
  <2>1. /\ pos' = [pos EXCEPT ![c] = 0] /\ UNCHANGED <<server, delisted, batch, ids, missing>>
    BY <1>7 DEF Retry, scan
  <2>2. atomic => BatchesClear'
    <3>1. pos'[c] = 0 /\ \A d \in Clients \ {c} : pos'[d] = pos[d]
      BY <2>1 DEF CallTyped
    <3>2. atomic => \A i \in 1..Len(batch[c]) :
              /\ batch[c][i].cmd # "zadd"
              /\ batch[c][i].cmd = "zrem" =>
                    \/ batch[c][i].sess \in Gone
                    \/ /\ i # 1 /\ batch[c][1].cmd = "del"
                       /\ batch[c][1].sess = batch[c][i].sess
      BY DEF IndexInv, BatchesClear
    <3> QED
      BY <2>1, <3>1, <3>2, BatchesFrame DEF IndexInv, Gone, CallTyped, server
  <2> QED
    BY <2>1, <2>2, ClientIndex DEF IndexInv, ScanFinds, Gone, server
<1>8. CASE GiveUp(c)
  BY <1>8, <1>a DEF GiveUp
\* An error reply forgets at most the session whose DEL it answers.
<1>9. CASE Refuse(c)
  <2> DEFINE k == batch[c][pos[c] + 1]
  <2>1. /\ pos[c] \in Nat /\ pos' = [pos EXCEPT ![c] = pos[c] + 1]
        /\ UNCHANGED <<server, batch, ids, missing>>
        /\ delisted' = IF k.cmd = "del" THEN delisted \cup {k.sess} ELSE delisted
    BY <1>9 DEF Refuse, CallTyped, scan
  <2>2. Gone \subseteq Gone' /\ delisted \subseteq delisted'
    BY <2>1 DEF Gone, server
  <2>3. atomic => ScanFinds'
    BY <2>1, <2>2 DEF IndexInv, ScanFinds, CallTyped, server
  <2>4. atomic => BatchesClear'
    <3> SUFFICES ASSUME atomic PROVE BatchesClear'
      OBVIOUS
    <3>1. ASSUME NEW i \in 1..Len(batch[c]), batch[c][i].cmd = "zrem"
          PROVE  batch[c][i].sess \in Gone'
      <4>1. CASE batch[c][i].sess \in Gone
        BY <2>2, <4>1
      <4>2. CASE i # 1 /\ pos[c] = 0 /\ batch[c][1].cmd = "del"
                 /\ batch[c][1].sess = batch[c][i].sess
        BY <2>1, <4>2 DEF Gone
      <4> QED
        BY <3>1, <4>1, <4>2 DEF IndexInv, BatchesClear
    <3>2. \A d \in Clients \ {c} : pos'[d] = pos[d]
      BY <2>1 DEF CallTyped
    <3> QED
      BY <2>1, <2>2, <3>1, <3>2, BatchesFrame DEF IndexInv, BatchesClear, CallTyped
  <2> HIDE DEF k
  <2> QED
    BY <2>1, <2>2, <2>3, <2>4, ShrinkIndex DEF IndexInv, server
<1> QED
  BY <1>1, <1>2, <1>3, <1>4, <1>5, <1>6, <1>7, <1>8, <1>9 DEF Continue

\* With atomic_index a stored session is listed, under the status its hash has,
\* for any sessions, statuses, clients, retries, error replies and interleavings,
\* unless it was removed or expired, or an error reply has made a client take it
\* out and it was not written since: the scan that list and pruneExpired act on
\* is stale only about such sessions, and a pipeline meddles with no other.
THEOREM AtomicIndexAgrees == ASSUME RedisAssumption PROVE Spec => []IndexAgrees
<1>1. Init => StoreInv /\ IndexInv
  BY InitStore, InitIndex
<1>2. StoreInv /\ [Next]_vars => StoreInv'
  BY NextStore
<1>3. StoreInv /\ StoreInv' /\ IndexInv /\ [Next]_vars => IndexInv'
  <2> SUFFICES ASSUME StoreInv, StoreInv', IndexInv, [Next]_vars PROVE IndexInv'
    OBVIOUS
  <2>1. CASE UNCHANGED vars
    BY <2>1 DEF vars, IndexInv, FiledOrAbsent, Filed, IndexedRight, Status, ScanFinds,
                BatchesClear, Gone
  <2>2. ASSUME NEW s \in Sessions, Expire(s), UNCHANGED atomic
        PROVE  IndexInv'
    <3>1. /\ hash' = [hash EXCEPT ![s] = None] /\ removed' = removed \cup {s}
          /\ UNCHANGED <<index, batch, pos, ids, missing, delisted>>
      BY <2>2 DEF Expire, pipeline, scan
    <3>2. \A t \in Sessions \ removed' : hash'[t] = hash[t]
      BY <3>1 DEF StoreInv, TypeOK
    <3>3. Gone \subseteq Gone'
      BY <3>1 DEF Gone
    <3>4. atomic => ScanFinds'
      BY <3>1, <3>2, <3>3 DEF IndexInv, ScanFinds, StoreInv, CallTyped
    <3>5. atomic => BatchesClear'
      BY <3>1, <3>3 DEF IndexInv, BatchesClear
    <3> QED
      BY <2>2, <3>1, <3>2, <3>4, <3>5, ShrinkIndex
  <2> QED
    BY <2>1, <2>2, StartIndex, ContinueIndex DEF Next
<1>4. IndexInv => IndexAgrees
  BY DEF IndexInv, FiledOrAbsent, IndexAgrees
<1> QED
  BY <1>1, <1>2, <1>3, <1>4, PTL DEF Spec
----------------------------------------------------------------------------
\* One step of the store is one step of IStateStore, or none of its business.
LEMMA EvalRefines ==
    ASSUME RedisAssumption, StoreInv, NEW c \in Clients, EvalSave(c)
    PROVE  Store!Next
<1> DEFINE s == req[c].sess
           v == req[c].value
           r == hash[s]
           e == req[c].expected
           next == [id |-> s, value |-> v, version |-> Version(r) + 1]
<1>1. /\ pc[c] = "write" /\ s \in Sessions /\ v \in Values /\ e \in -1..MaxVersion
      /\ answered' = [answered EXCEPT ![c] = reply'[c].code] /\ UNCHANGED <<held, removed>>
      /\ MaxVersion \in Nat
  BY EvalFacts DEF Req, RedisAssumption
<1>2. next = Store!Stored(s, v, r) /\ Store!Version(r) = Version(r)
  BY DEF Store!Stored, Store!NextVersion, Store!Version, Version
<1>3. e >= 0 => held[c] # None /\ held[c].sess = s /\ Store!Version(held[c].rec) = e
  BY <1>1 DEF StoreInv, HoldsExpected, Store!Version, Version
<1>4. CASE Refused(r, e)
  <2>1. e >= 0 /\ Version(r) # e
    BY <1>4 DEF Refused
  <2>2. /\ reply'[c].code = IF r = None THEN "gone" ELSE "version_conflict"
        /\ UNCHANGED hash
    <3>1. /\ reply' = [reply EXCEPT ![c] =
                [code |-> IF r = None THEN "gone" ELSE "version_conflict", old |-> None]]
          /\ UNCHANGED hash
      BY <1>4, EvalFacts
    <3>2. reply'[c] = [code |-> IF r = None THEN "gone" ELSE "version_conflict", old |-> None]
      BY <3>1 DEF StoreInv, CallTyped
    <3> QED  BY <3>1, <3>2
  <2>3. ~Store!Matches(r, Store!Version(held[c].rec))
    BY <1>2, <1>3, <2>1 DEF Store!Matches
  <2>4. Store!SaveIf(c, v)
    BY <1>1, <1>3, <2>1, <2>2, <2>3 DEF Store!SaveIf
  <2> QED  BY <1>1, <2>4 DEF Store!Next
<1>5. CASE ~Refused(r, e)
  <2>1. /\ Version(r) < MaxVersion /\ hash' = [hash EXCEPT ![s] = next]
        /\ reply'[c].code = IF e < 0 THEN "saved" ELSE "ok"
    <3>1. PICK old : /\ Version(r) < MaxVersion /\ hash' = [hash EXCEPT ![s] = next]
                     /\ reply' = [reply EXCEPT ![c] =
                           [code |-> IF e < 0 THEN "saved" ELSE "ok", old |-> old]]
      BY <1>5, EvalFacts
    <3>2. reply'[c] = [code |-> IF e < 0 THEN "saved" ELSE "ok", old |-> old]
      BY <3>1 DEF StoreInv, CallTyped
    <3> QED  BY <3>1, <3>2
  <2>2. hash' = [hash EXCEPT ![s] = Store!Stored(s, v, r)]
    BY <1>2, <2>1
  <2>3. CASE e < 0
    <3>1. Store!Save(c, s, v)
      BY <1>1, <1>2, <2>1, <2>2, <2>3 DEF Store!Save
    <3> QED  BY <1>1, <3>1 DEF Store!Next
  <2>4. CASE e >= 0
    <3>1. Version(r) = e
      BY <1>5, <2>4 DEF Refused
    <3>2. Store!Matches(r, Store!Version(held[c].rec))
      BY <1>2, <1>3, <2>4, <3>1 DEF Store!Matches
    <3>3. answered' = [answered EXCEPT ![c] = "ok"]
      <4>1. ~(e < 0)
        BY <1>1, <2>4
      <4>2. reply'[c].code = "ok"
        BY <2>1, <4>1
      <4> QED  BY <1>1, <4>2
    <3>4. Store!SaveIf(c, v)
      BY <1>1, <1>2, <1>3, <2>1, <2>2, <2>4, <3>2, <3>3 DEF Store!SaveIf
    <3> QED  BY <1>1, <3>4 DEF Store!Next
  <2> QED  BY <1>1, <2>3, <2>4
<1> QED  BY <1>4, <1>5

LEMMA StepRefines ==
    ASSUME RedisAssumption, StoreInv, [Next]_vars
    PROVE  [Store!Next]_(Store!vars)
<1>1. ASSUME UNCHANGED <<hash, held, answered, removed>> PROVE UNCHANGED Store!vars
  BY <1>1 DEF Store!vars
<1>2. ASSUME NEW c \in Clients, NEW s \in Sessions, Load(c, s)
      PROVE  Store!Next
  <2>1. Store!Load(c, s)
    BY <1>2 DEF Load, Store!Load, server
  <2> QED  BY <2>1 DEF Store!Next
<1>3. ASSUME NEW c \in Clients, Start(c), ~\E s \in Sessions : Load(c, s)
      PROVE  UNCHANGED Store!vars
  BY <1>1, <1>3 DEF Start, Remove, Save, SaveIf, Write, Scan, server
<1>4. ASSUME NEW c \in Clients, EvalSave(c)
      PROVE  Store!Next
  BY <1>4, EvalRefines
\* DEL removes the session; the index is not the abstract store's.
<1>5. ASSUME NEW c \in Clients, Exec(c)
      PROVE  Store!Next \/ UNCHANGED Store!vars
  <2> DEFINE k == batch[c][pos[c] + 1]
  <2>1. pos[c] \in Nat /\ pos[c] < Len(batch[c]) /\ batch[c] \in Seq(Cmds)
        /\ UNCHANGED <<held, answered>>
    BY <1>5 DEF Exec, StoreInv, CallTyped
  <2>2. k \in Cmds
    BY <2>1
  <2>3. CASE hash' = [hash EXCEPT ![k.sess] = None] /\ removed' = removed \cup {k.sess}
    <3>1. k.sess \in Sessions
      BY <2>2 DEF Cmds
    <3>2. Store!Remove(c, k.sess)
      BY <2>1, <2>3 DEF Store!Remove
    <3> QED  BY <3>1, <3>2 DEF Store!Next
  <2>4. CASE UNCHANGED <<hash, removed>>
    BY <1>1, <2>1, <2>4
  <2> QED
    BY <1>5, <2>3, <2>4 DEF Exec
\* A call that gives up has failed, whatever the server ran of it.
<1>6. ASSUME NEW c \in Clients, GiveUp(c)
      PROVE  Store!Next
  <2>1. Store!Fail(c)
    BY <1>6 DEF GiveUp, Store!Fail, server
  <2> QED  BY <2>1 DEF Store!Next
<1>7. ASSUME NEW c \in Clients, NEW s \in Sessions, Probe(c, s)
      PROVE  UNCHANGED Store!vars
  BY <1>1, <1>7 DEF Probe, server
<1>8. ASSUME NEW c \in Clients, WriteReply(c) \/ Prune(c) \/ Refuse(c) \/ BatchReplies(c) \/ Retry(c)
      PROVE  UNCHANGED Store!vars
  BY <1>1, <1>8 DEF WriteReply, Prune, Refuse, BatchReplies, Retry, server
\* A session that expires is removed by nobody in particular.
<1>9. ASSUME NEW s \in Sessions, Expire(s)
      PROVE  Store!Next
  <2>1. PICK c : c \in Clients
    BY DEF RedisAssumption
  <2>2. Store!Remove(c, s)
    BY <1>9 DEF Expire, Store!Remove
  <2> QED  BY <2>1, <2>2 DEF Store!Next
<1>10. CASE UNCHANGED vars
  BY <1>1, <1>10 DEF vars
<1>11. ASSUME NEW c \in Clients, Start(c)
       PROVE  Store!Next \/ UNCHANGED Store!vars
  BY <1>2, <1>3, <1>11
<1>12. ASSUME NEW c \in Clients, Continue(c)
       PROVE  Store!Next \/ UNCHANGED Store!vars
  BY <1>4, <1>5, <1>6, <1>7, <1>8, <1>12 DEF Continue
<1> QED
  BY <1>9, <1>10, <1>11, <1>12 DEF Next

\* For any clients, retries, lost replies, expiries and interleavings, with or
\* without atomic_index, the Redis store behaves as the atomic versioned map of
\* IStateStore: what a client compares with is what it loaded, and the script
\* decides alone whether the write happens.
THEOREM RedisStoreRefines == ASSUME RedisAssumption PROVE Spec => ImplementsStore
<1>1. Init => Store!Init
  BY DEF Init, Store!Init
<1>2. StoreInv /\ [Next]_vars => [Store!Next]_(Store!vars)
  BY StepRefines
<1>3. StoreInv /\ [Next]_vars => StoreInv'
  BY NextStore
<1>4. Init => StoreInv
  BY InitStore
<1> QED
  BY <1>1, <1>2, <1>3, <1>4, PTL DEF Spec, ImplementsStore, Store!Spec
----------------------------------------------------------------------------
(***************************************************************************)
(* The claims.  The invariant also speaks of the caller whose tryClaim the *)
(* server has granted and which has not returned, and says that a caller   *)
(* that is releasing no longer counts as a holder.                         *)
(***************************************************************************)
\* A grant on its way to the caller is as good as the claim, until it expires.
GrantKept ==
    \A c \in Claimants : at[c] = "claimed" /\ answer[c] /\ c \notin lapsed => key = {c}

\* Who claims or releases does not hold.
BusyHoldsNothing == \A c \in holds : at[c] = "idle"

ClaimInv == ClaimTypeOK /\ HolderKeepsClaim /\ GrantKept /\ BusyHoldsNothing

LEMMA InitClaim == ClaimInit => ClaimInv
BY DEF ClaimInit, ClaimInv, ClaimTypeOK, HolderKeepsClaim, GrantKept, BusyHoldsNothing

LEMMA NextClaim ==
    ASSUME ClaimInv, [ClaimNext]_claimVars
    PROVE  ClaimInv'
<1> USE DEF ClaimInv
<1>1. CASE UNCHANGED claimVars
  BY <1>1 DEF claimVars, ClaimTypeOK, HolderKeepsClaim, GrantKept, BusyHoldsNothing
<1>2. ASSUME NEW c \in Claimants, TryClaim(c)
      PROVE  ClaimInv'
  BY <1>2 DEF TryClaim, ClaimTypeOK, HolderKeepsClaim, GrantKept, BusyHoldsNothing
<1>3. ASSUME NEW c \in Claimants, ReleaseClaim(c)
      PROVE  ClaimInv'
  BY <1>3 DEF ReleaseClaim, ClaimTypeOK, HolderKeepsClaim, GrantKept, BusyHoldsNothing
<1>4. ASSUME NEW c \in Claimants, SetNx(c)
      PROVE  ClaimInv'
  <2>1. CASE key = {}
    <3>1. /\ key' = {c} /\ lapsed' = lapsed \ {c} /\ holds' = holds
          /\ at' = [at EXCEPT ![c] = "claimed"] /\ answer' = [answer EXCEPT ![c] = TRUE]
          /\ secondTry' = secondTry
      BY <1>4, <2>1 DEF SetNx, Takes
    <3>2. c \notin holds /\ holds \subseteq lapsed
      BY <1>4, <2>1 DEF SetNx, ClaimTypeOK, HolderKeepsClaim, BusyHoldsNothing
    <3>3. \A d \in Claimants \ {c} : ~(at'[d] = "claimed" /\ answer'[d] /\ d \notin lapsed')
      BY <2>1, <3>1 DEF ClaimTypeOK, GrantKept
    <3>4. ClaimTypeOK'
      BY <3>1 DEF ClaimTypeOK
    <3>5. HolderKeepsClaim' /\ GrantKept' /\ BusyHoldsNothing'
      BY <3>1, <3>2, <3>3 DEF ClaimTypeOK, HolderKeepsClaim, GrantKept, BusyHoldsNothing
    <3> QED
      BY <3>4, <3>5
  <2>2. CASE key # {}
    <3>1. /\ key' = key /\ lapsed' = lapsed /\ holds' = holds /\ secondTry' = secondTry
          /\ at' = [at EXCEPT ![c] = "claimed"] /\ answer' = [answer EXCEPT ![c] = FALSE]
      BY <1>4, <2>2 DEF SetNx, Takes
    <3>2. c \notin holds
      BY <1>4 DEF SetNx, BusyHoldsNothing
    <3> QED
      BY <3>1, <3>2 DEF ClaimTypeOK, HolderKeepsClaim, GrantKept, BusyHoldsNothing
  <2> QED
    BY <2>1, <2>2
<1>5. ASSUME NEW c \in Claimants, ClaimReply(c)
      PROVE  ClaimInv'
  BY <1>5 DEF ClaimReply, ClaimTypeOK, HolderKeepsClaim, GrantKept, BusyHoldsNothing
<1>6. ASSUME NEW c \in Claimants, EvalRelease(c)
      PROVE  ClaimInv'
  <2>1. /\ key' = (IF key = {c} THEN {} ELSE key) /\ lapsed' = lapsed /\ holds' = holds
        /\ at[c] = "release" /\ at' = [at EXCEPT ![c] = "released"]
        /\ answer' \in [Claimants -> BOOLEAN] /\ secondTry' = secondTry
        /\ \A d \in Claimants \ {c} : answer'[d] = answer[d]
    BY <1>6 DEF EvalRelease, Drops, Deleted, ClaimTypeOK
  <2>2. c \notin holds
    BY <2>1 DEF BusyHoldsNothing
  <2>3. ClaimTypeOK'
    BY <2>1 DEF ClaimTypeOK
  <2>4. HolderKeepsClaim' /\ BusyHoldsNothing'
    BY <2>1, <2>2 DEF ClaimTypeOK, HolderKeepsClaim, BusyHoldsNothing
  <2>5. GrantKept'
    BY <2>1 DEF ClaimTypeOK, GrantKept
  <2> QED
    BY <2>3, <2>4, <2>5
<1>7. ASSUME NEW c \in Claimants, ReleaseReply(c)
      PROVE  ClaimInv'
  BY <1>7 DEF ReleaseReply, ClaimTypeOK, HolderKeepsClaim, GrantKept, BusyHoldsNothing
<1>8. ASSUME NEW c \in Claimants, ClaimRetry(c)
      PROVE  ClaimInv'
  BY <1>8 DEF ClaimRetry, ClaimTypeOK, HolderKeepsClaim, GrantKept, BusyHoldsNothing
<1>9. ASSUME NEW c \in Claimants, ClaimGiveUp(c)
      PROVE  ClaimInv'
  BY <1>9 DEF ClaimGiveUp, ClaimTypeOK, HolderKeepsClaim, GrantKept, BusyHoldsNothing
<1>10. CASE ClaimExpires
  BY <1>10 DEF ClaimExpires, ClaimTypeOK, HolderKeepsClaim, GrantKept, BusyHoldsNothing
<1> QED
  BY <1>1, <1>2, <1>3, <1>4, <1>5, <1>6, <1>7, <1>8, <1>9, <1>10 DEF ClaimNext, ClaimStep

\* tryClaim and releaseClaim give the claim to one caller at a time: whoever
\* was told it has the claim still has it, unless its TTL passed.
THEOREM ClaimsExclude == ClaimSpec => []HolderKeepsClaim
<1>1. ClaimInit => ClaimInv
  BY InitClaim
<1>2. ClaimInv /\ [ClaimNext]_claimVars => ClaimInv'
  BY NextClaim
<1>3. ClaimInv => HolderKeepsClaim
  BY DEF ClaimInv
<1> QED
  BY <1>1, <1>2, <1>3, PTL DEF ClaimSpec
----------------------------------------------------------------------------
(***************************************************************************)
(* Both in one server                                                      *)
(***************************************************************************)
\* The claims are keys of their own, so the hashes and the claims behave as
\* they do by themselves.
LEMMA RedisRunsBoth == RedisSpec => Spec /\ ClaimSpec
<1>1. RedisInit => Init /\ ClaimInit
  BY DEF RedisInit
<1>2. [RedisNext]_<<part, vars, claimVars>> => [Next]_vars /\ [ClaimNext]_claimVars
  BY DEF RedisNext
<1> QED
  BY <1>1, <1>2, PTL DEF RedisSpec, Spec, ClaimSpec

\* What RedisStateStore keeps in its hashes, its indexes and its requests on
\* their way, and what the claim of a session is, is what the script of saveIf,
\* the batched commands, SET NX and EXPIRE can leave there, and nothing else.
THEOREM RedisTypes == ASSUME RedisAssumption PROVE RedisSpec => []TypesOK
<1>1. ClaimSpec => []ClaimTypeOK
  <2>1. ClaimInit => ClaimInv
    BY InitClaim
  <2>2. ClaimInv /\ [ClaimNext]_claimVars => ClaimInv'
    BY NextClaim
  <2>3. ClaimInv => ClaimTypeOK
    BY DEF ClaimInv
  <2> QED
    BY <2>1, <2>2, <2>3, PTL DEF ClaimSpec
<1>2. TypeOK /\ ClaimTypeOK => TypesOK
  BY DEF TypesOK
<1> QED
  BY <1>1, <1>2, StoreTypes, RedisRunsBoth, PTL
=============================================================================
