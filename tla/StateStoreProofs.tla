-------------------------- MODULE StateStoreProofs --------------------------
(***************************************************************************)
(* Compare-and-swap has one winner, for any sessions, clients and values,  *)
(* as long as the session is not removed: its versions then only grow, so  *)
(* an equal version is the same checkpoint.                                *)
(***************************************************************************)
EXTENDS StateStore, TLAPS

\* A client's copy is never ahead of the store, and with an equal version it
\* is the stored checkpoint.
CopyBehind ==
    \A c \in Clients : held[c] # None /\ held[c].sess \notin removed =>
        /\ Version(held[c].rec) <= Version(sessions[held[c].sess])
        /\ Version(held[c].rec) = Version(sessions[held[c].sess]) =>
              held[c].rec = sessions[held[c].sess]

CasInv == TypeOK /\ CopyBehind

LEMMA VersionType ==
    ASSUME StoreConstants
    PROVE  /\ \A r \in Rec \cup {None} : Version(r) \in Nat
           /\ \A s \in Sessions, v \in Values, r \in Rec \cup {None} :
                 Version(r) < MaxVersion =>
                     /\ Stored(s, v, r) \in Rec
                     /\ Version(Stored(s, v, r)) = Version(r) + 1
BY DEF StoreConstants, Version, NextVersion, Stored, Rec

\* Overwriting a session moves its version past every copy.
LEMMA Overwrite ==
    ASSUME StoreConstants, CasInv, NEW s \in Sessions, NEW v \in Values,
           Version(sessions[s]) < MaxVersion,
           sessions' = [sessions EXCEPT ![s] = Stored(s, v, sessions[s])],
           UNCHANGED <<held, removed>>
    PROVE  sessions' \in [Sessions -> Rec \cup {None}] /\ CopyBehind'
<1>1. /\ Stored(s, v, sessions[s]) \in Rec
      /\ Version(Stored(s, v, sessions[s])) = Version(sessions[s]) + 1
      /\ \A r \in Rec \cup {None} : Version(r) \in Nat
  BY VersionType DEF CasInv, TypeOK
<1>2. sessions' \in [Sessions -> Rec \cup {None}]
  BY <1>1 DEF CasInv, TypeOK
<1>3. ASSUME NEW c \in Clients, held[c] # None, held[c].sess \notin removed
      PROVE  /\ Version(held[c].rec) <= Version(sessions'[held[c].sess])
             /\ Version(held[c].rec) = Version(sessions'[held[c].sess]) =>
                   held[c].rec = sessions'[held[c].sess]
  <2>1. held[c].sess \in Sessions /\ held[c].rec \in Rec \cup {None}
    BY <1>3 DEF CasInv, TypeOK, Loaded
  <2>2. CASE held[c].sess = s
    <3>1. Version(held[c].rec) <= Version(sessions[s])
      BY <1>3, <2>2 DEF CasInv, CopyBehind
    <3>2. Version(sessions'[s]) = Version(sessions[s]) + 1
      BY <1>1 DEF CasInv, TypeOK
    <3>3. Version(held[c].rec) \in Nat /\ Version(sessions[s]) \in Nat
      BY <1>1, <2>1 DEF CasInv, TypeOK
    <3> QED  BY <2>2, <3>1, <3>2, <3>3
  <2>3. CASE held[c].sess # s
    BY <1>3, <2>1, <2>3 DEF CasInv, CopyBehind, TypeOK
  <2> QED  BY <2>2, <2>3
<1> QED
  BY <1>2, <1>3 DEF CopyBehind

LEMMA InitCas == Init => CasInv
BY DEF Init, CasInv, TypeOK, CopyBehind, Loaded, Results

LEMMA NextCas ==
    ASSUME StoreConstants, CasInv, [Next]_vars
    PROVE  CasInv'
<1>1. CASE UNCHANGED vars
  BY <1>1 DEF vars, CasInv, TypeOK, CopyBehind
<1>2. ASSUME NEW c \in Clients, NEW s \in Sessions, Load(c, s)
      PROVE  CasInv'
  <2>1. TypeOK'
    BY <1>2 DEF Load, CasInv, TypeOK, Loaded
  <2>2. CopyBehind'
    <3>1. Version(sessions[s]) \in Nat
      BY VersionType DEF CasInv, TypeOK
    <3> QED
      BY <1>2, <3>1 DEF Load, CasInv, TypeOK, CopyBehind
  <2> QED  BY <2>1, <2>2 DEF CasInv
<1>3. ASSUME NEW c \in Clients, NEW s \in Sessions, NEW v \in Values, Save(c, s, v)
      PROVE  CasInv'
  BY <1>3, Overwrite DEF Save, CasInv, TypeOK, Results
<1>4. ASSUME NEW c \in Clients, NEW v \in Values, SaveIf(c, v)
      PROVE  CasInv'
  <2>1. held[c].sess \in Sessions
    BY <1>4 DEF SaveIf, CasInv, TypeOK, Loaded
  <2>2. CASE UNCHANGED sessions
    BY <1>4, <2>2 DEF SaveIf, CasInv, TypeOK, CopyBehind, Results
  <2>3. CASE ~UNCHANGED sessions
    BY <1>4, <2>1, <2>3, Overwrite DEF SaveIf, CasInv, TypeOK, Results
  <2> QED  BY <2>2, <2>3
<1>5. ASSUME NEW c \in Clients, Fail(c)
      PROVE  CasInv'
  BY <1>5 DEF Fail, CasInv, TypeOK, CopyBehind, Results
<1>6. CASE Restart
  BY <1>6 DEF Restart, CasInv, TypeOK, CopyBehind, Loaded, Results
<1>7. ASSUME NEW c \in Clients, NEW s \in Sessions, Remove(c, s)
      PROVE  CasInv'
  BY <1>7 DEF Remove, CasInv, TypeOK, CopyBehind, Loaded
<1> QED
  BY <1>1, <1>2, <1>3, <1>4, <1>5, <1>6, <1>7 DEF Next

\* saveIf never loses an update: the checkpoint it replaces is the one its
\* caller loaded, however many clients save and saveIf in between, unless the
\* session was removed and created again.
THEOREM OneWinner == ASSUME StoreConstants PROVE Spec => CasReplacesWhatWasRead
<1>1. CasInv => [\A c \in Clients :
                    CasWrites(c) /\ held[c].sess \notin removed =>
                        sessions[held[c].sess] = held[c].rec]_vars
  <2> SUFFICES ASSUME CasInv, NEW c \in Clients, NEW v \in Values,
                      SaveIf(c, v), outcome'[c] = "ok", held[c].sess \notin removed
               PROVE  sessions[held[c].sess] = held[c].rec
    BY DEF CasWrites
  <2>1. Matches(sessions[held[c].sess], Version(held[c].rec))
    BY DEF SaveIf, CasInv, TypeOK
  <2> QED
    BY <2>1 DEF SaveIf, Matches, CasInv, CopyBehind
<1>2. CasInv /\ [Next]_vars => CasInv'
  BY NextCas
<1> QED
  BY InitCas, <1>1, <1>2, PTL DEF Spec, CasReplacesWhatWasRead
=============================================================================
