---------------------------- MODULE WatchProofs -----------------------------
(***************************************************************************)
(* WatchProtocol under every interleaving of its actions, for every set of *)
(* targets and documents, every setting and every bound on the messages    *)
(* under way: its types, that the requests without an answer are counted   *)
(* (CountInv), and, while existence filters agree with the client, that    *)
(* resume tokens, snapshots and rejections are what they should be         *)
(* (WatchInv).                                                             *)
(***************************************************************************)
EXTENDS WatchProtocol, SequenceTheorems, FiniteSetTheorems, TLAPS

-----------------------------------------------------------------------------
(* The aggregator *)

States     == UNION {[D -> TargetState] : D \in SUBSET Targets}
Aggregator == [states : States, updates : [Keys -> Updates], resets : SUBSET Targets]
Pending(a, t) == StateOf(a, t).pending

\* The entries of an aggregator, as a set.
LEMMA StatesDef ==
  \A f : f \in States <=> f \in [DOMAIN f -> TargetState] /\ DOMAIN f \subseteq Targets
BY DEF States

\* A new entry has the type of an entry.
LEMMA NewTargetStateType == NewTargetState \in TargetState
<1>1. [k \in Keys |-> "none"] \in [Keys -> ChangeTypes]
  BY DEF ChangeTypes
<1>2. NoToken \in Tokens
  BY DEF Tokens
<1> QED BY <1>1, <1>2 DEF NewTargetState, TargetState

\* The entry of any target has the type of an entry.
LEMMA StateOfType ==
  ASSUME NEW a \in Aggregator, NEW t \in Targets
  PROVE  StateOf(a, t) \in TargetState
BY StatesDef, NewTargetStateType DEF StateOf, Aggregator

\* SetState changes one entry.
LEMMA SetStateFacts ==
  ASSUME NEW a \in Aggregator, NEW t \in Targets, NEW s \in TargetState
  PROVE  LET b == SetState(a, t, s) IN
         /\ b \in Aggregator
         /\ DOMAIN b.states = DOMAIN a.states \cup {t}
         /\ b.states[t] = s /\ StateOf(b, t) = s
         /\ \A u \in Targets \ {t} : StateOf(b, u) = StateOf(a, u)
         /\ b.updates = a.updates /\ b.resets = a.resets
<1> DEFINE f == [u \in DOMAIN a.states \cup {t} |-> IF u = t THEN s ELSE a.states[u]]
           b == SetState(a, t, s)
<1>1. a.states \in [DOMAIN a.states -> TargetState] /\ DOMAIN a.states \subseteq Targets
  BY StatesDef DEF Aggregator
<1>3. b = [a EXCEPT !.states = f]
  BY DEF SetState
<1>4. DOMAIN f = DOMAIN a.states \cup {t} /\ f[t] = s /\ \A u \in DOMAIN a.states \ {t} : f[u] = a.states[u]
  OBVIOUS
<1>5. f \in States
  <2>1. f \in [DOMAIN f -> TargetState] BY <1>1
  <2> QED BY <2>1, <1>4, <1>1, StatesDef
<1> HIDE DEF f
<1>6. b.states = f /\ b.updates = a.updates /\ b.resets = a.resets /\ b \in Aggregator
  BY <1>3, <1>5 DEF Aggregator
<1> HIDE DEF b
<1>7. StateOf(b, t) = s /\ \A u \in Targets \ {t} : StateOf(b, u) = StateOf(a, u)
  BY <1>4, <1>6 DEF StateOf
<1> QED BY <1>4, <1>6, <1>7 DEF b

OneEntry(a, b, t) ==
  /\ b \in Aggregator /\ DOMAIN b.states \subseteq DOMAIN a.states \cup {t}
  /\ \A u \in Targets \ {t} :
       StateOf(b, u) = StateOf(a, u) /\ (u \in DOMAIN b.states <=> u \in DOMAIN a.states)
  /\ \A k \in Keys : a.updates[k] # "none" => b.updates[k] # "none"

\* No change is a change of at most one entry.
LEMMA OneEntryRefl ==
  ASSUME NEW a \in Aggregator, NEW t \in Targets
  PROVE  OneEntry(a, a, t)
BY DEF OneEntry

\* SetState with a new entry is a change of one entry.
LEMMA SetStateOne ==
  ASSUME NEW a \in Aggregator, NEW t \in Targets, NEW s \in TargetState
  PROVE  /\ OneEntry(a, SetState(a, t, s), t)
         /\ SetState(a, t, s).resets = a.resets
         /\ StateOf(SetState(a, t, s), t) = s
         /\ t \in DOMAIN SetState(a, t, s).states
         /\ SetState(a, t, s).updates = a.updates
<1> DEFINE b == SetState(a, t, s)
<1>1. /\ b \in Aggregator /\ DOMAIN b.states = DOMAIN a.states \cup {t}
      /\ b.updates = a.updates /\ b.resets = a.resets /\ StateOf(b, t) = s
      /\ \A u \in Targets \ {t} : StateOf(b, u) = StateOf(a, u)
  BY SetStateFacts
<1> HIDE DEF b
<1>2. OneEntry(a, b, t)
  BY <1>1 DEF OneEntry
<1> QED BY <1>1, <1>2 DEF b

\* RemoveTarget is a change of one entry.
LEMMA RemoveTargetOne ==
  ASSUME NEW a \in Aggregator, NEW t \in Targets
  PROVE  /\ OneEntry(a, RemoveTarget(a, t), t)
         /\ StateOf(RemoveTarget(a, t), t) = NewTargetState
         /\ RemoveTarget(a, t).resets = a.resets
<1> DEFINE f == Restrict(a.states, DOMAIN a.states \ {t})
           b == RemoveTarget(a, t)
<1>1. a.states \in [DOMAIN a.states -> TargetState] /\ DOMAIN a.states \subseteq Targets
  BY StatesDef DEF Aggregator
<1>2. DOMAIN f = DOMAIN a.states \ {t} /\ \A u \in DOMAIN a.states \ {t} : f[u] = a.states[u]
  BY DEF Restrict
<1>3. f \in States
  <2>1. f \in [DOMAIN f -> TargetState] BY <1>1 DEF Restrict
  <2> QED BY <2>1, <1>2, <1>1, StatesDef
<1>4. b = [a EXCEPT !.states = f]
  BY DEF RemoveTarget
<1> HIDE DEF f
<1>5. b.states = f /\ b.updates = a.updates /\ b.resets = a.resets /\ b \in Aggregator
  BY <1>3, <1>4 DEF Aggregator
<1> HIDE DEF b
<1>6. StateOf(b, t) = NewTargetState /\ \A u \in Targets \ {t} : StateOf(b, u) = StateOf(a, u)
  BY <1>2, <1>5 DEF StateOf
<1>7. OneEntry(a, b, t)
  BY <1>2, <1>5, <1>6 DEF OneEntry
<1> QED BY <1>5, <1>6, <1>7 DEF b

\* RecordPendingTargetRequests adds to the counts of some targets only.
LEMMA RecordFacts ==
  ASSUME NEW a \in Aggregator, NEW ts \in SUBSET Targets, NEW n \in Nat
  PROVE  LET b == RecordPendingTargetRequests(a, ts, n) IN
         /\ b \in Aggregator
         /\ DOMAIN b.states = DOMAIN a.states \cup ts
         /\ b.updates = a.updates /\ b.resets = a.resets
         /\ \A u \in ts : Pending(b, u) = Pending(a, u) + n
         /\ \A u \in Targets \ ts : StateOf(b, u) = StateOf(a, u)
<1> DEFINE g(u) == [StateOf(a, u) EXCEPT !.pending = @ + n]
           f == [u \in DOMAIN a.states \cup ts |-> IF u \in ts THEN g(u) ELSE a.states[u]]
           b == RecordPendingTargetRequests(a, ts, n)
<1>1. a.states \in [DOMAIN a.states -> TargetState] /\ DOMAIN a.states \subseteq Targets
  BY StatesDef DEF Aggregator
<1>2. \A u \in Targets : g(u) \in TargetState /\ g(u).pending = Pending(a, u) + n
  BY StateOfType DEF TargetState, Pending
<1>3. b = [a EXCEPT !.states = f]
  BY DEF RecordPendingTargetRequests
<1> HIDE DEF g
<1>4. DOMAIN f = DOMAIN a.states \cup ts
      /\ \A u \in DOMAIN f : f[u] = IF u \in ts THEN g(u) ELSE a.states[u]
  OBVIOUS
<1>5. f \in States
  <2>1. f \in [DOMAIN f -> TargetState] BY <1>1, <1>2
  <2> QED BY <2>1, <1>4, <1>1, StatesDef
<1> HIDE DEF f
<1>6. b.states = f /\ b.updates = a.updates /\ b.resets = a.resets /\ b \in Aggregator
  BY <1>3, <1>5 DEF Aggregator
<1> HIDE DEF b
<1>7. \A u \in ts : Pending(b, u) = Pending(a, u) + n
  <2> TAKE u \in ts
  <2>1. StateOf(b, u) = g(u)
    BY <1>4, <1>6 DEF StateOf
  <2> QED BY <2>1, <1>2 DEF Pending
<1>8. \A u \in Targets \ ts : StateOf(b, u) = StateOf(a, u)
  BY <1>4, <1>6 DEF StateOf
<1> QED BY <1>4, <1>6, <1>7, <1>8 DEF b

Metadatas == [listened : SUBSET Targets, keys : [Targets -> SUBSET Keys]]

Shown(s, docs) == (docs \ With(s, "removed")) \cup With(s, "added")
Sound(s, docs, updates) ==
  \A k \in Keys : /\ s.docs[k] \in {"removed", "modified"} => k \in docs
                  /\ s.docs[k] = "added" => k \notin docs /\ updates[k] # "none"

\* A document is added to an active target.
LEMMA AddDocumentEffect ==
  ASSUME NEW a \in Aggregator, NEW m \in Metadatas, NEW t \in Targets, NEW k \in Keys
  PROVE  LET b == AddDocumentToTarget(a, m, t, k) IN
         /\ OneEntry(a, b, t) /\ b.resets = a.resets /\ Pending(b, t) = Pending(a, t)
         /\ IsActiveTarget(a, m, t) /\ Sound(StateOf(a, t), m.keys[t], a.updates) =>
            /\ t \in DOMAIN b.states /\ Sound(StateOf(b, t), m.keys[t], b.updates)
            /\ Shown(StateOf(b, t), m.keys[t]) = Shown(StateOf(a, t), m.keys[t]) \cup {k}
<1> DEFINE b == AddDocumentToTarget(a, m, t, k)
           type == IF k \in m.keys[t] THEN "modified" ELSE "added"
           s == [StateOf(a, t) EXCEPT !.changed = TRUE, !.docs[k] = type]
           c == SetState(a, t, s)
<1>0. StateOf(a, t) \in TargetState
  BY StateOfType
<1>1. type \in ChangeTypes
  BY DEF ChangeTypes
<1>2. /\ s \in TargetState /\ s.pending = StateOf(a, t).pending
      /\ s.docs[k] = type /\ \A l \in Keys \ {k} : s.docs[l] = StateOf(a, t).docs[l]
  <2> HIDE DEF type
  <2> QED BY <1>0, <1>1 DEF TargetState
<1>3. CASE ~IsActiveTarget(a, m, t)
  BY <1>3, OneEntryRefl DEF AddDocumentToTarget
<1>4. CASE IsActiveTarget(a, m, t)
  <2>1. b = [c EXCEPT !.updates[k] = "found"]
    BY <1>4 DEF AddDocumentToTarget
  <2>2. /\ OneEntry(a, c, t) /\ c.resets = a.resets /\ StateOf(c, t) = s
        /\ t \in DOMAIN c.states /\ c.updates = a.updates
    <3> HIDE DEF s
    <3> QED BY <1>2, SetStateOne
  <2> HIDE DEF c, s
  <2>3. c \in Aggregator
    BY <2>2 DEF OneEntry
  <2>4. /\ b \in Aggregator /\ b.states = c.states /\ b.resets = c.resets
        /\ b.updates = [a.updates EXCEPT ![k] = "found"]
    BY <2>1, <2>2, <2>3 DEF Aggregator, Updates
  <2> HIDE DEF b
  <2>5. \A u : StateOf(b, u) = StateOf(c, u)
    BY <2>4 DEF StateOf
  <2>6. \A l \in Keys : a.updates[l] # "none" => b.updates[l] # "none"
    BY <2>4 DEF Aggregator
  <2>7. OneEntry(a, b, t)
    BY <2>2, <2>4, <2>5, <2>6 DEF OneEntry
  <2>8. Pending(b, t) = Pending(a, t)
    BY <2>2, <2>5, <1>2 DEF Pending
  <2>9. ASSUME Sound(StateOf(a, t), m.keys[t], a.updates)
        PROVE  /\ Sound(s, m.keys[t], b.updates)
               /\ Shown(s, m.keys[t]) = Shown(StateOf(a, t), m.keys[t]) \cup {k}
    <3>1. m.keys[t] \in SUBSET Keys
      BY DEF Metadatas
    <3>2. b.updates[k] = "found" /\ \A l \in Keys \ {k} : b.updates[l] = a.updates[l]
      BY <2>4 DEF Aggregator
    <3> QED BY <2>9, <3>1, <3>2, <1>2 DEF Sound, Shown, With
  <2> QED BY <2>2, <2>4, <2>5, <2>7, <2>8, <2>9 DEF b
<1> QED BY <1>3, <1>4

\* A document is removed from an active target.
LEMMA RemoveDocumentEffect ==
  ASSUME NEW a \in Aggregator, NEW m \in Metadatas, NEW t \in Targets, NEW k \in Keys
  PROVE  LET b == RemoveDocumentFromTarget(a, m, t, k, "deleted") IN
         /\ OneEntry(a, b, t) /\ b.resets = a.resets /\ Pending(b, t) = Pending(a, t)
         /\ IsActiveTarget(a, m, t) /\ Sound(StateOf(a, t), m.keys[t], a.updates) =>
            /\ t \in DOMAIN b.states /\ Sound(StateOf(b, t), m.keys[t], b.updates)
            /\ Shown(StateOf(b, t), m.keys[t]) = Shown(StateOf(a, t), m.keys[t]) \ {k}
<1> DEFINE b == RemoveDocumentFromTarget(a, m, t, k, "deleted")
           type == IF k \in m.keys[t] THEN "removed" ELSE "none"
           s == [StateOf(a, t) EXCEPT !.changed = TRUE, !.docs[k] = type]
           c == SetState(a, t, s)
<1>0. StateOf(a, t) \in TargetState
  BY StateOfType
<1>1. type \in ChangeTypes
  BY DEF ChangeTypes
<1>2. /\ s \in TargetState /\ s.pending = StateOf(a, t).pending
      /\ s.docs[k] = type /\ \A l \in Keys \ {k} : s.docs[l] = StateOf(a, t).docs[l]
  <2> HIDE DEF type
  <2> QED BY <1>0, <1>1 DEF TargetState
<1>3. CASE ~IsActiveTarget(a, m, t)
  BY <1>3, OneEntryRefl DEF RemoveDocumentFromTarget
<1>4. CASE IsActiveTarget(a, m, t)
  <2>1. b = [c EXCEPT !.updates[k] = "deleted"]
    BY <1>4 DEF RemoveDocumentFromTarget
  <2>2. /\ OneEntry(a, c, t) /\ c.resets = a.resets /\ StateOf(c, t) = s
        /\ t \in DOMAIN c.states /\ c.updates = a.updates
    <3> HIDE DEF s
    <3> QED BY <1>2, SetStateOne
  <2> HIDE DEF c, s
  <2>3. c \in Aggregator
    BY <2>2 DEF OneEntry
  <2>4. /\ b \in Aggregator /\ b.states = c.states /\ b.resets = c.resets
        /\ b.updates = [a.updates EXCEPT ![k] = "deleted"]
    BY <2>1, <2>2, <2>3 DEF Aggregator, Updates
  <2> HIDE DEF b
  <2>5. \A u : StateOf(b, u) = StateOf(c, u)
    BY <2>4 DEF StateOf
  <2>6. \A l \in Keys : a.updates[l] # "none" => b.updates[l] # "none"
    BY <2>4 DEF Aggregator
  <2>7. OneEntry(a, b, t)
    BY <2>2, <2>4, <2>5, <2>6 DEF OneEntry
  <2>8. Pending(b, t) = Pending(a, t)
    BY <2>2, <2>5, <1>2 DEF Pending
  <2>9. ASSUME Sound(StateOf(a, t), m.keys[t], a.updates)
        PROVE  /\ Sound(s, m.keys[t], b.updates)
               /\ Shown(s, m.keys[t]) = Shown(StateOf(a, t), m.keys[t]) \ {k}
    <3>1. m.keys[t] \in SUBSET Keys
      BY DEF Metadatas
    <3>2. b.updates[k] = "deleted" /\ \A l \in Keys \ {k} : b.updates[l] = a.updates[l]
      BY <2>4 DEF Aggregator
    <3> QED BY <2>9, <3>1, <3>2, <1>2 DEF Sound, Shown, With
  <2> QED BY <2>2, <2>4, <2>5, <2>7, <2>8, <2>9 DEF b
<1> QED BY <1>3, <1>4

\* The answer to a watch request.
LEMMA TargetAddedEffect ==
  ASSUME NEW a \in Aggregator, NEW t \in Targets
  PROVE  LET b == TargetAdded(a, t) IN
         /\ OneEntry(a, b, t) /\ b.resets = a.resets /\ Pending(b, t) = Pending(a, t) - 1
         /\ t \in DOMAIN b.states
         /\ Pending(b, t) = 0 => StateOf(b, t).docs = [k \in Keys |-> "none"]
<1> DEFINE s == [StateOf(a, t) EXCEPT !.pending = @ - 1]
           r == IF s.pending = 0 THEN ClearPendingChanges(s) ELSE s
           b == TargetAdded(a, t)
<1>1. s \in TargetState /\ s.pending = Pending(a, t) - 1
  BY StateOfType DEF TargetState, Pending
<1> HIDE DEF s
<1>2. [k \in Keys |-> "none"] \in [Keys -> ChangeTypes]
  BY DEF ChangeTypes
<1>3. /\ ClearPendingChanges(s) \in TargetState
      /\ ClearPendingChanges(s).pending = s.pending
      /\ ClearPendingChanges(s).docs = [k \in Keys |-> "none"]
  BY <1>1, <1>2 DEF ClearPendingChanges, TargetState
<1>4. /\ r \in TargetState /\ r.pending = s.pending
      /\ s.pending = 0 => r.docs = [k \in Keys |-> "none"]
  BY <1>1, <1>3
<1>5. b = SetState(a, t, r)
  BY DEF TargetAdded, s
<1> HIDE DEF r, b
<1>6. OneEntry(a, b, t) /\ b.resets = a.resets /\ StateOf(b, t) = r /\ t \in DOMAIN b.states
  BY <1>4, <1>5, SetStateOne
<1> QED BY <1>1, <1>4, <1>6 DEF Pending, b

\* The answer to an unwatch request.
LEMMA TargetRemovedEffect ==
  ASSUME NEW a \in Aggregator, NEW t \in Targets
  PROVE  LET b == TargetRemoved(a, t) IN
         OneEntry(a, b, t) /\ b.resets = a.resets /\ Pending(b, t) = Pending(a, t) - 1
<1> DEFINE s == [StateOf(a, t) EXCEPT !.pending = @ - 1]
           b == TargetRemoved(a, t)
<1>1. s \in TargetState /\ s.pending = Pending(a, t) - 1
  BY StateOfType DEF TargetState, Pending
<1>2. b = IF s.pending = 0 THEN RemoveTarget(a, t) ELSE SetState(a, t, s)
  BY DEF TargetRemoved
<1> HIDE DEF s, b
<1>3. CASE s.pending = 0
  <2>1. OneEntry(a, b, t) /\ b.resets = a.resets /\ StateOf(b, t) = NewTargetState
    BY <1>2, <1>3, RemoveTargetOne
  <2>2. NewTargetState.pending = 0
    BY DEF NewTargetState
  <2> QED BY <1>1, <1>3, <2>1, <2>2 DEF Pending, b
<1>4. CASE s.pending # 0
  <2>1. OneEntry(a, b, t) /\ b.resets = a.resets /\ StateOf(b, t) = s
    BY <1>1, <1>2, <1>4, SetStateOne
  <2> QED BY <1>1, <2>1 DEF Pending, b
<1> QED BY <1>3, <1>4

\* A resume token changes no document and no count.
LEMMA UpdateResumeTokenFacts ==
  ASSUME NEW s \in TargetState, NEW tok \in Tokens
  PROVE  /\ UpdateResumeToken(s, tok) \in TargetState
         /\ UpdateResumeToken(s, tok).pending = s.pending
         /\ UpdateResumeToken(s, tok).docs = s.docs
         /\ tok # NoToken => /\ UpdateResumeToken(s, tok).token = tok
                              /\ UpdateResumeToken(s, tok).changed
BY DEF UpdateResumeToken, TargetState

\* A target becomes current.
LEMMA TargetCurrentEffect ==
  ASSUME NEW a \in Aggregator, NEW m \in Metadatas, NEW t \in Targets, NEW tok \in Tokens
  PROVE  LET b == TargetCurrent(a, m, t, tok) IN
         /\ OneEntry(a, b, t) /\ b.resets = a.resets /\ Pending(b, t) = Pending(a, t)
         /\ b.updates = a.updates /\ t \in DOMAIN b.states
         /\ StateOf(b, t).docs = StateOf(a, t).docs
<1> DEFINE s == [StateOf(a, t) EXCEPT !.changed = TRUE, !.current = TRUE]
           r == IF IsActiveTarget(a, m, t) THEN UpdateResumeToken(s, tok) ELSE StateOf(a, t)
           b == TargetCurrent(a, m, t, tok)
<1>1. StateOf(a, t) \in TargetState
  BY StateOfType
<1>2. s \in TargetState /\ s.pending = StateOf(a, t).pending /\ s.docs = StateOf(a, t).docs
  BY <1>1 DEF TargetState
<1>3. b = SetState(a, t, r)
  BY DEF TargetCurrent
<1> HIDE DEF s
<1>4. r \in TargetState /\ r.pending = StateOf(a, t).pending /\ r.docs = StateOf(a, t).docs
  BY <1>1, <1>2, UpdateResumeTokenFacts
<1> HIDE DEF r, b
<1>5. /\ OneEntry(a, b, t) /\ b.resets = a.resets /\ b.updates = a.updates
      /\ StateOf(b, t) = r /\ t \in DOMAIN b.states
  BY <1>3, <1>4, SetStateOne
<1> QED BY <1>4, <1>5 DEF Pending, b

\* After a reset the view is to be emptied.
LEMMA ResetTargetEffect ==
  ASSUME NEW a \in Aggregator, NEW m \in Metadatas, NEW t \in Targets
  PROVE  LET b == ResetTarget(a, m, t) IN
         /\ OneEntry(a, b, t) /\ b.resets = a.resets /\ Pending(b, t) = 0
         /\ b.updates = a.updates /\ t \in DOMAIN b.states
         /\ Sound(StateOf(b, t), m.keys[t], b.updates)
         /\ Shown(StateOf(b, t), m.keys[t]) = {}
<1> DEFINE d == [k \in Keys |-> IF k \in m.keys[t] THEN "removed" ELSE "none"]
           s == [NewTargetState EXCEPT !.docs = d]
           b == ResetTarget(a, m, t)
<1>1. d \in [Keys -> ChangeTypes]
  BY DEF ChangeTypes
<1>2. m.keys[t] \in SUBSET Keys
  BY DEF Metadatas
<1>3. b = SetState(a, t, s)
  BY DEF ResetTarget
<1>4. \A k \in Keys : d[k] = IF k \in m.keys[t] THEN "removed" ELSE "none"
  OBVIOUS
<1> HIDE DEF d
<1>5. s \in TargetState /\ s.pending = 0 /\ s.docs = d
  BY <1>1, NewTargetStateType DEF TargetState, NewTargetState
<1> HIDE DEF s, b
<1>6. /\ OneEntry(a, b, t) /\ b.resets = a.resets /\ b.updates = a.updates
      /\ StateOf(b, t) = s /\ t \in DOMAIN b.states
  BY <1>3, <1>5, SetStateOne
<1>7. Sound(s, m.keys[t], b.updates)
  BY <1>4, <1>5 DEF Sound
<1>8. Shown(s, m.keys[t]) = {}
  BY <1>2, <1>4, <1>5 DEF Shown, With
<1> QED BY <1>5, <1>6, <1>7, <1>8 DEF Pending, b

\* The backend resets a target.
LEMMA TargetResetEffect ==
  ASSUME NEW a \in Aggregator, NEW m \in Metadatas, NEW t \in Targets
  PROVE  LET b == TargetReset(a, m, t) IN
         /\ OneEntry(a, b, t) /\ b.resets = a.resets /\ Pending(b, t) = Pending(a, t)
         /\ IsActiveTarget(a, m, t) =>
            /\ t \in DOMAIN b.states /\ Sound(StateOf(b, t), m.keys[t], b.updates)
            /\ Shown(StateOf(b, t), m.keys[t]) = {}
<1>1. CASE IsActiveTarget(a, m, t)
  BY <1>1, ResetTargetEffect DEF TargetReset, IsActiveTarget, Pending
<1>2. CASE ~IsActiveTarget(a, m, t)
  BY <1>2, SetStateOne, StateOfType DEF TargetReset, Pending
<1> QED BY <1>1, <1>2

\* An existence filter changes one entry, whatever it finds.
LEMMA FilterEffect ==
  ASSUME NEW a \in Aggregator, NEW m \in Metadatas, NEW t \in Targets,
         NEW count, NEW bloom
  PROVE  LET b == HandleExistenceFilter(a, m, t, count, bloom) IN
         OneEntry(a, b, t) /\ Pending(b, t) = Pending(a, t)
<1> DEFINE b == HandleExistenceFilter(a, m, t, count, bloom)
<1>1. CASE ~IsActiveTarget(a, m, t)
  BY <1>1, OneEntryRefl DEF HandleExistenceFilter
<1>2. CASE IsActiveTarget(a, m, t) /\ t \in DocTargets
  <2>1. DocOf[t] \in Keys
    BY <1>2, DocOfAssumption DEF Injection
  <2>2. b = IF count = 0 THEN RemoveDocumentFromTarget(a, m, t, DocOf[t], "deleted") ELSE a
    BY <1>2 DEF HandleExistenceFilter
  <2> QED BY <2>1, <2>2, RemoveDocumentEffect, OneEntryRefl
<1>3. CASE IsActiveTarget(a, m, t) /\ t \notin DocTargets
  <2> DEFINE d == [k \in Keys |-> IF k \in m.keys[t] \ bloom THEN "removed" ELSE StateOf(a, t).docs[k]]
             s == [StateOf(a, t) EXCEPT !.changed = @ \/ m.keys[t] \ bloom # {}, !.docs = d]
             r == ResetTarget(a, m, t)
             c == [r EXCEPT !.resets = @ \cup {t}]
  <2>1. \/ b = SetState(a, t, StateOf(a, t))
        \/ b = FilterRemovedDocuments(a, m, t, bloom)
        \/ b = c
    BY <1>3 DEF HandleExistenceFilter
  <2>2. CASE b = SetState(a, t, StateOf(a, t))
    <3> HIDE DEF b
    <3> QED BY <2>2, SetStateOne, StateOfType DEF Pending, b
  <2>3. CASE b = FilterRemovedDocuments(a, m, t, bloom)
    <3>1. StateOf(a, t) \in TargetState
      BY StateOfType
    <3>2. d \in [Keys -> ChangeTypes]
      BY <3>1 DEF ChangeTypes, TargetState
    <3>3. b = SetState(a, t, [StateOf(a, t) EXCEPT
                !.changed = @ \/ m.keys[t] \ bloom # {},
                !.docs    = [k \in Keys |-> IF k \in m.keys[t] \ bloom THEN "removed" ELSE @[k]]])
      BY <2>3 DEF FilterRemovedDocuments
    <3>4. b = SetState(a, t, s)
      BY <3>3
    <3> HIDE DEF d
    <3>5. s \in TargetState /\ s.pending = StateOf(a, t).pending
      <4>1. (StateOf(a, t).changed \/ m.keys[t] \ bloom # {}) \in BOOLEAN
        OBVIOUS
      <4> QED BY <3>1, <3>2, <4>1 DEF TargetState
    <3> HIDE DEF b, s
    <3> QED BY <3>4, <3>5, SetStateOne DEF Pending, b
  <2>4. CASE b = c
    <3>1. /\ OneEntry(a, r, t) /\ r.resets = a.resets /\ Pending(r, t) = 0
      BY ResetTargetEffect
    <3> HIDE DEF r
    <3>2. r \in Aggregator
      BY <3>1 DEF OneEntry
    <3>3. c \in Aggregator /\ c.states = r.states /\ c.updates = r.updates
      BY <3>2 DEF Aggregator
    <3> HIDE DEF c
    <3>4. \A u : StateOf(c, u) = StateOf(r, u)
      BY <3>3 DEF StateOf
    <3>5. OneEntry(a, c, t)
      BY <3>1, <3>3, <3>4 DEF OneEntry
    <3>6. Pending(c, t) = Pending(a, t)
      BY <1>3, <3>1, <3>4 DEF Pending, IsActiveTarget
    <3> QED BY <2>4, <3>5, <3>6
  <2> HIDE DEF b, c
  <2> QED BY <2>1, <2>2, <2>3, <2>4 DEF b
<1> QED BY <1>1, <1>2, <1>3

\* The count that a filter is compared with is that of the documents shown.
LEMMA CountIsShown ==
  ASSUME NEW a \in Aggregator, NEW m \in Metadatas, NEW t \in Targets,
         Sound(StateOf(a, t), m.keys[t], a.updates)
  PROVE  /\ GetCurrentDocumentCount(a, m, t) = Cardinality(Shown(StateOf(a, t), m.keys[t]))
         /\ IsFiniteSet(Shown(StateOf(a, t), m.keys[t]))
<1> DEFINE A == With(StateOf(a, t), "added")
           R == With(StateOf(a, t), "removed")
           K == m.keys[t]
<1>1. K \in SUBSET Keys /\ A \in SUBSET Keys /\ R \in SUBSET Keys
  BY DEF Metadatas, With
<1>2. R \subseteq K /\ A \cap K = {}
  BY <1>1 DEF Sound, With
<1>3. IsFiniteSet(K) /\ IsFiniteSet(A) /\ IsFiniteSet(R)
  BY <1>1, FS_Subset, FiniteAssumption
<1> HIDE DEF A, R, K
<1>4. IsFiniteSet(K \ R) /\ Cardinality(K \ R) = Cardinality(K) - Cardinality(R)
  <2>1. K \cap R = R
    BY <1>2
  <2> QED BY <1>3, <2>1, FS_Difference
<1>5. IsFiniteSet((K \ R) \cup A)
      /\ Cardinality((K \ R) \cup A) = Cardinality(K \ R) + Cardinality(A)
  <2>1. (K \ R) \cap A = {}
    BY <1>2
  <2>2. Cardinality((K \ R) \cap A) = 0
    BY <2>1, FS_EmptySet
  <2>3. Cardinality(K \ R) \in Nat /\ Cardinality(A) \in Nat
    BY <1>3, <1>4, FS_CardinalityType
  <2>4. Cardinality((K \ R) \cup A) = Cardinality(K \ R) + Cardinality(A) - Cardinality((K \ R) \cap A)
    BY <1>3, <1>4, FS_Union
  <2> QED BY <1>3, <1>4, <2>2, <2>3, <2>4, FS_Union
<1>6. Cardinality(K) \in Int /\ Cardinality(R) \in Int /\ Cardinality(A) \in Int
  BY <1>3, FS_CardinalityType
<1>7. Shown(StateOf(a, t), m.keys[t]) = (K \ R) \cup A
  BY DEF Shown, K, R, A
<1>8. GetCurrentDocumentCount(a, m, t) = Cardinality(K) + Cardinality(A) - Cardinality(R)
  BY DEF GetCurrentDocumentCount, K, R, A
<1> QED BY <1>4, <1>5, <1>6, <1>7, <1>8

\* A filter that agrees with the client changes nothing it shows.
LEMMA AgreedFilterEffect ==
  ASSUME NEW a \in Aggregator, NEW m \in Metadatas, NEW t \in Targets,
         NEW after \in SUBSET Keys, NEW bloom,
         IsActiveTarget(a, m, t), t \in DOMAIN a.states,
         Sound(StateOf(a, t), m.keys[t], a.updates),
         after \subseteq Shown(StateOf(a, t), m.keys[t]),
         t \in DocTargets => Shown(StateOf(a, t), m.keys[t]) \subseteq {DocOf[t]},
         t \notin DocTargets => GetCurrentDocumentCount(a, m, t) = Cardinality(after)
  PROVE  LET b == HandleExistenceFilter(a, m, t, Cardinality(after), bloom) IN
         /\ b.resets = a.resets /\ t \in DOMAIN b.states
         /\ Sound(StateOf(b, t), m.keys[t], b.updates)
         /\ Shown(StateOf(b, t), m.keys[t]) = after
<1> DEFINE b == HandleExistenceFilter(a, m, t, Cardinality(after), bloom)
           v == Shown(StateOf(a, t), m.keys[t])
<1>1. IsFiniteSet(v) /\ IsFiniteSet(after)
  BY CountIsShown, FS_Subset, FiniteAssumption
<1>2. CASE t \in DocTargets
  <2>1. DocOf[t] \in Keys
    BY <1>2, DocOfAssumption DEF Injection
  <2>2. CASE Cardinality(after) = 0
    <3>1. after = {}
      BY <1>1, <2>2, FS_EmptySet
    <3>2. b = RemoveDocumentFromTarget(a, m, t, DocOf[t], "deleted")
      BY <1>2, <2>2 DEF HandleExistenceFilter
    <3>3. v \ {DocOf[t]} = {}
      BY <1>2
    <3> HIDE DEF b, v
    <3> QED BY <2>1, <3>1, <3>2, <3>3, RemoveDocumentEffect DEF b, v
  <2>3. CASE Cardinality(after) # 0
    <3>1. after # {}
      BY <2>3, FS_EmptySet
    <3>2. after = v
      BY <1>2, <3>1
    <3>3. b = a
      BY <1>2, <2>3 DEF HandleExistenceFilter
    <3> QED BY <3>2, <3>3
  <2> QED BY <2>2, <2>3
<1>3. CASE t \notin DocTargets
  <2>1. b = SetState(a, t, StateOf(a, t))
    BY <1>3 DEF HandleExistenceFilter
  <2>2. Cardinality(after) = Cardinality(v)
    BY <1>3, CountIsShown
  <2>3. after = v
    <3> HIDE DEF v
    <3>1. after \in SUBSET v
      BY DEF v
    <3> QED BY <1>1, <2>2, <3>1, FS_Subset
  <2> HIDE DEF b
  <2>4. /\ b.resets = a.resets /\ t \in DOMAIN b.states /\ b.updates = a.updates
        /\ StateOf(b, t) = StateOf(a, t)
    BY <2>1, SetStateOne, StateOfType
  <2> QED BY <2>3, <2>4 DEF b
<1> QED BY <1>2, <1>3

SameEntries(a, b) ==
  /\ b \in Aggregator /\ DOMAIN b.states = DOMAIN a.states
  /\ \A u \in Targets : Pending(b, u) = Pending(a, u)

\* A way to show that entries and counts stay.
LEMMA SameEntriesFacts ==
  ASSUME NEW a \in Aggregator, NEW b, b.states \in [DOMAIN a.states -> TargetState],
         b \in [states : [DOMAIN a.states -> TargetState], updates : [Keys -> Updates],
                resets : SUBSET Targets],
         \A u \in DOMAIN a.states : b.states[u].pending = a.states[u].pending
  PROVE  SameEntries(a, b)
<1>1. DOMAIN a.states \subseteq Targets /\ DOMAIN b.states = DOMAIN a.states
  BY StatesDef DEF Aggregator
<1>2. b \in Aggregator
  <2>1. b.states \in States
    BY <1>1, StatesDef
  <2> QED BY <2>1 DEF Aggregator
<1>3. \A u \in Targets : Pending(b, u) = Pending(a, u)
  BY <1>1 DEF Pending, StateOf
<1> QED BY <1>1, <1>2, <1>3 DEF SameEntries

\* The tokens of a snapshot leave the documents alone.
LEMMA TokensEffect ==
  ASSUME NEW a \in Aggregator, NEW m \in Metadatas, NEW tokens \in [Targets -> Tokens]
  PROVE  LET b == TargetsUnchanged(a, m, tokens) IN
         /\ SameEntries(a, b) /\ b.updates = a.updates /\ b.resets = a.resets
         /\ \A u \in Targets : StateOf(b, u).docs = StateOf(a, u).docs
         /\ \A u \in DOMAIN a.states :
              IsActiveTarget(a, m, u) /\ tokens[u] # NoToken
                => StateOf(b, u).token = tokens[u] /\ StateOf(b, u).changed
<1> DEFINE g(u) == IF IsActiveTarget(a, m, u) THEN UpdateResumeToken(a.states[u], tokens[u])
                   ELSE a.states[u]
           f == [u \in DOMAIN a.states |-> g(u)]
           b == TargetsUnchanged(a, m, tokens)
<1>1. a.states \in [DOMAIN a.states -> TargetState] /\ DOMAIN a.states \subseteq Targets
  BY StatesDef DEF Aggregator
<1>2. \A u \in DOMAIN a.states :
        /\ g(u) \in TargetState /\ g(u).pending = a.states[u].pending
        /\ g(u).docs = a.states[u].docs
        /\ IsActiveTarget(a, m, u) /\ tokens[u] # NoToken
             => g(u).token = tokens[u] /\ g(u).changed
  <2> TAKE u \in DOMAIN a.states
  <2>1. a.states[u] \in TargetState /\ tokens[u] \in Tokens
    BY <1>1
  <2> QED BY <2>1, UpdateResumeTokenFacts
<1>3. b = [a EXCEPT !.states = f]
  BY DEF TargetsUnchanged
<1> HIDE DEF g
<1>4. f \in [DOMAIN a.states -> TargetState] /\ \A u \in DOMAIN a.states : f[u] = g(u)
  BY <1>2
<1> HIDE DEF f
<1>5. /\ b.states = f /\ b.updates = a.updates /\ b.resets = a.resets
      /\ b \in [states : [DOMAIN a.states -> TargetState], updates : [Keys -> Updates],
                resets : SUBSET Targets]
  BY <1>3, <1>4 DEF Aggregator
<1> HIDE DEF b
<1>6. SameEntries(a, b)
  BY <1>2, <1>4, <1>5, SameEntriesFacts
<1>7. DOMAIN b.states = DOMAIN a.states
  BY <1>4, <1>5
<1>8. \A u \in Targets : StateOf(b, u).docs = StateOf(a, u).docs
  BY <1>2, <1>4, <1>5, <1>7 DEF StateOf
<1>9. \A u \in DOMAIN a.states : StateOf(b, u) = g(u)
  BY <1>4, <1>5, <1>7 DEF StateOf
<1> QED BY <1>2, <1>5, <1>6, <1>8, <1>9 DEF b

\* Synthesized deletions leave the documents of the view alone.
LEMMA SynthesizedEffect ==
  ASSUME NEW a \in Aggregator, NEW m \in Metadatas
  PROVE  LET b == Synthesized(a, m) IN
         /\ SameEntries(a, b) /\ b.resets = a.resets
         /\ \A u \in DOMAIN a.states :
              /\ b.states[u].token = a.states[u].token
              /\ a.states[u].changed => b.states[u].changed
              /\ Sound(a.states[u], m.keys[u], a.updates) => b.states[u].docs = a.states[u].docs
<1> DEFINE missing == MissingDocuments(a, m)
           h(u) == [a.states[u] EXCEPT !.changed = TRUE, !.docs[DocOf[u]] = "none"]
           g(u) == IF u \in missing THEN h(u) ELSE a.states[u]
           f == [u \in DOMAIN a.states |-> g(u)]
           p == [k \in Keys |-> IF \E t \in missing : DocOf[t] = k THEN "deleted" ELSE a.updates[k]]
           b == Synthesized(a, m)
<1>1. a.states \in [DOMAIN a.states -> TargetState] /\ DOMAIN a.states \subseteq Targets
  BY StatesDef DEF Aggregator
<1>2. \A u \in missing : /\ DocOf[u] \in Keys /\ a.updates[DocOf[u]] = "none"
                         /\ DocOf[u] \notin m.keys[u]
  BY DocOfAssumption DEF MissingDocuments, Injection
<1> HIDE DEF missing
<1>3. \A u \in DOMAIN a.states :
        /\ g(u) \in TargetState /\ g(u).pending = a.states[u].pending
        /\ g(u).token = a.states[u].token
        /\ a.states[u].changed => g(u).changed
        /\ Sound(a.states[u], m.keys[u], a.updates) => g(u).docs = a.states[u].docs
  <2> TAKE u \in DOMAIN a.states
  <2>1. a.states[u] \in TargetState
    BY <1>1
  <2>2. CASE u \notin missing
    BY <2>1, <2>2
  <2>3. CASE u \in missing
    <3>1. /\ h(u) \in TargetState /\ h(u).pending = a.states[u].pending /\ h(u).changed
          /\ h(u).token = a.states[u].token
          /\ h(u).docs = [a.states[u].docs EXCEPT ![DocOf[u]] = "none"]
      BY <2>1, <2>3, <1>2 DEF TargetState, ChangeTypes
    <3>2. ASSUME Sound(a.states[u], m.keys[u], a.updates)
          PROVE  a.states[u].docs[DocOf[u]] = "none"
      <4>1. a.states[u].docs[DocOf[u]] \in ChangeTypes
        BY <2>1, <2>3, <1>2 DEF TargetState
      <4> QED BY <3>2, <4>1, <2>3, <1>2 DEF Sound, ChangeTypes
    <3>3. a.states[u].docs \in [Keys -> ChangeTypes]
      BY <2>1 DEF TargetState
    <3>4. a.states[u].docs[DocOf[u]] = "none" => h(u).docs = a.states[u].docs
      BY <3>1, <3>3
    <3> QED BY <2>3, <3>1, <3>2, <3>4
  <2> QED BY <2>2, <2>3
<1>4. p \in [Keys -> Updates]
  BY DEF Aggregator, Updates
<1>5. b = [a EXCEPT !.states = f, !.updates = p]
  BY DEF Synthesized, missing
<1> HIDE DEF g, p
<1>6. f \in [DOMAIN a.states -> TargetState] /\ \A u \in DOMAIN a.states : f[u] = g(u)
  BY <1>3
<1> HIDE DEF f
<1>7. /\ b.states = f /\ b.resets = a.resets
      /\ b \in [states : [DOMAIN a.states -> TargetState], updates : [Keys -> Updates],
                resets : SUBSET Targets]
  BY <1>4, <1>5, <1>6 DEF Aggregator
<1> HIDE DEF b
<1>8. SameEntries(a, b)
  BY <1>3, <1>6, <1>7, SameEntriesFacts
<1> QED BY <1>3, <1>6, <1>7, <1>8 DEF b

\* What CreateRemoteEvent leaves of the entries.
LEMMA AfterEventEffect ==
  ASSUME NEW a \in Aggregator, NEW m \in Metadatas
  PROVE  LET b == AfterRemoteEvent(a, m) IN
         /\ SameEntries(a, b) /\ b.resets = {}
         /\ \A u \in DOMAIN a.states :
              IsActiveTarget(a, m, u) /\ a.states[u].changed
                => b.states[u].docs = [k \in Keys |-> "none"]
<1> DEFINE c == Synthesized(a, m)
           g(u) == IF u \in Reported(c, m) THEN ClearPendingChanges(c.states[u]) ELSE c.states[u]
           f == [u \in DOMAIN c.states |-> g(u)]
           n == [k \in Keys |-> "none"]
           b == AfterRemoteEvent(a, m)
<1>1. SameEntries(a, c) /\ \A u \in DOMAIN a.states : a.states[u].changed => c.states[u].changed
  BY SynthesizedEffect
<1>2. b = [states |-> f, updates |-> n, resets |-> {}]
  BY DEF AfterRemoteEvent
<1>3. n \in [Keys -> ChangeTypes] /\ n \in [Keys -> Updates]
  BY DEF ChangeTypes, Updates
<1> HIDE DEF c
<1>4. c \in Aggregator /\ DOMAIN c.states = DOMAIN a.states /\ DOMAIN a.states \subseteq Targets
      /\ c.states \in [DOMAIN a.states -> TargetState]
  BY <1>1, StatesDef DEF SameEntries, Aggregator
<1>5. \A u \in DOMAIN a.states : c.states[u].pending = a.states[u].pending
  BY <1>1, <1>4 DEF SameEntries, Pending, StateOf
<1>6. \A u \in DOMAIN a.states :
        /\ g(u) \in TargetState /\ g(u).pending = c.states[u].pending
        /\ u \in Reported(c, m) => g(u).docs = n
  <2> TAKE u \in DOMAIN a.states
  <2>1. c.states[u] \in TargetState
    BY <1>4
  <2>2. ClearPendingChanges(c.states[u]) = [c.states[u] EXCEPT !.changed = FALSE, !.docs = n]
    BY DEF ClearPendingChanges
  <2> HIDE DEF n
  <2>3. /\ ClearPendingChanges(c.states[u]) \in TargetState
        /\ ClearPendingChanges(c.states[u]).pending = c.states[u].pending
        /\ ClearPendingChanges(c.states[u]).docs = n
    BY <2>1, <2>2, <1>3 DEF TargetState
  <2> QED BY <2>1, <2>3
<1>7. \A u \in DOMAIN a.states : IsActiveTarget(a, m, u) /\ a.states[u].changed => u \in Reported(c, m)
  BY <1>1, <1>4, <1>5 DEF Reported, IsActiveTarget, StateOf
<1> HIDE DEF g
<1>8. f \in [DOMAIN a.states -> TargetState] /\ \A u \in DOMAIN a.states : f[u] = g(u)
  BY <1>4, <1>6
<1> HIDE DEF f, n
<1>9. /\ b.states = f /\ b.resets = {}
      /\ b \in [states : [DOMAIN a.states -> TargetState], updates : [Keys -> Updates],
                resets : SUBSET Targets]
  BY <1>2, <1>3, <1>8
<1> HIDE DEF b
<1>10. SameEntries(a, b)
  BY <1>5, <1>6, <1>8, <1>9, SameEntriesFacts
<1> QED BY <1>6, <1>7, <1>8, <1>9, <1>10 DEF b, n

\* What a remote event says of each target it changes.
LEMMA EventFacts ==
  ASSUME NEW a \in Aggregator, NEW m \in Metadatas
  PROVE  LET e == CreateRemoteEvent(a, m) IN
         /\ e.mismatches = a.resets
         /\ \A u \in DOMAIN e.changes : u \in DOMAIN a.states /\ IsActiveTarget(a, m, u)
         /\ \A u \in DOMAIN a.states :
              IsActiveTarget(a, m, u) /\ a.states[u].changed
                /\ Sound(a.states[u], m.keys[u], a.updates)
              => /\ u \in DOMAIN e.changes /\ e.changes[u].token = a.states[u].token
                 /\ e.changes[u].added = With(a.states[u], "added")
                 /\ e.changes[u].removed = With(a.states[u], "removed")
         /\ \A u \in DOMAIN e.changes :
              /\ e.changes[u].token \in Tokens
              /\ e.changes[u].added \in SUBSET Keys /\ e.changes[u].removed \in SUBSET Keys
<1> DEFINE c == Synthesized(a, m)
           e == CreateRemoteEvent(a, m)
<1>1. SameEntries(a, c) /\ c.resets = a.resets
      /\ \A u \in DOMAIN a.states :
              /\ c.states[u].token = a.states[u].token
              /\ a.states[u].changed => c.states[u].changed
              /\ Sound(a.states[u], m.keys[u], a.updates) => c.states[u].docs = a.states[u].docs
  BY SynthesizedEffect
<1>2. e = [changes |-> [u \in Reported(c, m) |-> ToTargetChange(c.states[u])],
           mismatches |-> c.resets, updates |-> c.updates]
  BY DEF CreateRemoteEvent
<1> HIDE DEF c, e
<1>3. c \in Aggregator /\ DOMAIN c.states = DOMAIN a.states /\ DOMAIN a.states \subseteq Targets
      /\ c.states \in [DOMAIN a.states -> TargetState]
  BY <1>1, StatesDef DEF SameEntries, Aggregator
<1>4. \A u \in DOMAIN a.states : IsActiveTarget(c, m, u) <=> IsActiveTarget(a, m, u)
  BY <1>1, <1>3 DEF SameEntries, Pending, IsActiveTarget
<1>5. DOMAIN e.changes = Reported(c, m) /\ e.mismatches = a.resets
      /\ \A u \in Reported(c, m) : e.changes[u] = ToTargetChange(c.states[u])
  BY <1>1, <1>2
<1>6. \A u \in Reported(c, m) : u \in DOMAIN a.states /\ IsActiveTarget(a, m, u)
  BY <1>3, <1>4 DEF Reported
<1>7. \A u \in DOMAIN a.states :
        IsActiveTarget(a, m, u) /\ a.states[u].changed => u \in Reported(c, m)
  BY <1>1, <1>3, <1>4 DEF Reported
<1>8. \A u \in DOMAIN a.states :
        /\ ToTargetChange(c.states[u]).token = a.states[u].token
        /\ Sound(a.states[u], m.keys[u], a.updates) =>
             /\ ToTargetChange(c.states[u]).added = With(a.states[u], "added")
             /\ ToTargetChange(c.states[u]).removed = With(a.states[u], "removed")
  BY <1>1 DEF ToTargetChange, With
<1>9. \A u \in DOMAIN a.states :
        /\ ToTargetChange(c.states[u]).token \in Tokens
        /\ ToTargetChange(c.states[u]).added \in SUBSET Keys
        /\ ToTargetChange(c.states[u]).removed \in SUBSET Keys
  <2> TAKE u \in DOMAIN a.states
  <2>1. c.states[u] \in TargetState
    BY <1>3
  <2>2. c.states[u].token \in Tokens
    BY <2>1 DEF TargetState
  <2> QED BY <2>2 DEF ToTargetChange, With
<1>10. \A u \in DOMAIN e.changes :
        /\ e.changes[u].token \in Tokens
        /\ e.changes[u].added \in SUBSET Keys /\ e.changes[u].removed \in SUBSET Keys
  BY <1>5, <1>6, <1>9
<1>11. \A u \in DOMAIN a.states :
              IsActiveTarget(a, m, u) /\ a.states[u].changed
                /\ Sound(a.states[u], m.keys[u], a.updates)
              => /\ u \in DOMAIN e.changes /\ e.changes[u].token = a.states[u].token
                 /\ e.changes[u].added = With(a.states[u], "added")
                 /\ e.changes[u].removed = With(a.states[u], "removed")
  BY <1>5, <1>7, <1>8
<1> QED BY <1>5, <1>6, <1>10, <1>11 DEF e

-----------------------------------------------------------------------------
(* Counting in sequences *)

Count(s, S) == Cardinality({i \in 1..Len(s) : s[i] \in S})

\* A count is a number, and 0 if there is nothing to count.
LEMMA CountType ==
  ASSUME NEW T, NEW s \in Seq(T), NEW S
  PROVE  /\ Count(s, S) \in Nat
         /\ Count(s, S) = 0 <=> \A i \in 1..Len(s) : s[i] \notin S
<1> DEFINE I == {i \in 1..Len(s) : s[i] \in S}
<1>1. IsFiniteSet(1..Len(s))
  BY LenProperties, FS_Interval
<1>2. IsFiniteSet(I)
  BY <1>1, FS_Subset
<1>3. Cardinality(I) \in Nat /\ (Cardinality(I) = 0 <=> I = {})
  BY <1>2, FS_CardinalityType, FS_EmptySet
<1> QED BY <1>3 DEF Count

\* Counts add up over a concatenation.
LEMMA CountConcat ==
  ASSUME NEW T, NEW s \in Seq(T), NEW r \in Seq(T), NEW S
  PROVE  Count(s \o r, S) = Count(s, S) + Count(r, S)
<1> DEFINE n == Len(s)
           I == {i \in 1..n : s[i] \in S}
           J == {i \in 1..Len(r) : r[i] \in S}
           K == {i \in (n + 1)..(n + Len(r)) : r[i - n] \in S}
           A == {i \in 1..Len(s \o r) : (s \o r)[i] \in S}
           f == [j \in J |-> j + n]
<1>1. n \in Nat /\ Len(r) \in Nat /\ Len(s \o r) = n + Len(r)
      /\ \A i \in 1..(n + Len(r)) : (s \o r)[i] = IF i <= n THEN s[i] ELSE r[i - n]
  BY LenProperties, ConcatProperties
<1> HIDE DEF n
<1>2. A = I \cup K /\ I \cap K = {}
  BY <1>1
<1>3. IsFiniteSet(I) /\ IsFiniteSet(J) /\ IsFiniteSet(K)
  <2>1. IsFiniteSet(1..n) /\ IsFiniteSet(1..Len(r)) /\ IsFiniteSet((n + 1)..(n + Len(r)))
    BY <1>1, FS_Interval
  <2> QED BY <2>1, FS_Subset
<1>4. f \in Bijection(J, K)
  <2>1. f \in [J -> K]
    BY <1>1
  <2>2. \A a, b \in J : f[a] = f[b] => a = b
    BY <1>1
  <2>3. \A k \in K : \E j \in J : f[j] = k
    <3> TAKE k \in K
    <3>1. k - n \in J /\ f[k - n] = k
      BY <1>1
    <3> QED BY <3>1
  <2>4. DOMAIN f = J
    OBVIOUS
  <2> HIDE DEF f, J, K
  <2> QED BY <2>1, <2>2, <2>3, <2>4 DEF Bijection, Injection, Surjection, IsInjective
<1>5. Cardinality(K) = Cardinality(J)
  BY <1>3, <1>4, FS_Bijection DEF ExistsBijection
<1>6. Cardinality(A) = Cardinality(I) + Cardinality(K)
  <2> HIDE DEF I, K, A
  <2>1. Cardinality(I \cap K) = 0
    BY <1>2, FS_EmptySet
  <2>2. Cardinality(I) \in Nat /\ Cardinality(K) \in Nat
    BY <1>3, FS_CardinalityType
  <2>3. Cardinality(I \cup K) = Cardinality(I) + Cardinality(K) - Cardinality(I \cap K)
    BY <1>3, FS_Union
  <2> QED BY <1>2, <2>1, <2>2, <2>3
<1> QED BY <1>5, <1>6 DEF Count, n

\* The count in a sequence of one element.
LEMMA CountOne ==
  ASSUME NEW e, NEW S
  PROVE  Count(<<e>>, S) = IF e \in S THEN 1 ELSE 0
<1>1. {i \in 1..Len(<<e>>) : <<e>>[i] \in S} = IF e \in S THEN {1} ELSE {}
  OBVIOUS
<1> QED BY <1>1, FS_Singleton, FS_EmptySet DEF Count

\* The count after an Append.
LEMMA CountAppend ==
  ASSUME NEW T, NEW s \in Seq(T), NEW e \in T, NEW S
  PROVE  Count(Append(s, e), S) = Count(s, S) + (IF e \in S THEN 1 ELSE 0)
<1>1. <<e>> \in Seq(T) /\ Append(s, e) = s \o <<e>>
  OBVIOUS
<1>2. Count(s \o <<e>>, S) = Count(s, S) + Count(<<e>>, S)
  BY <1>1, CountConcat
<1> QED BY <1>1, <1>2, CountOne

\* The count after a Tail.
LEMMA CountTail ==
  ASSUME NEW T, NEW s \in Seq(T), s # <<>>, NEW S
  PROVE  Count(s, S) = (IF Head(s) \in S THEN 1 ELSE 0) + Count(Tail(s), S)
<1>1. Head(s) \in T /\ Tail(s) \in Seq(T) /\ s = <<Head(s)>> \o Tail(s)
  OBVIOUS
<1>2. PICK e \in T : e = Head(s)
  BY <1>1
<1>3. PICK r \in Seq(T) : r = Tail(s)
  BY <1>1
<1>4. <<e>> \in Seq(T)
  OBVIOUS
<1>5. Count(<<e>> \o r, S) = Count(<<e>>, S) + Count(r, S)
  BY <1>4, CountConcat
<1>6. s = <<e>> \o r
  BY <1>1, <1>2, <1>3
<1>7. Count(<<e>>, S) = IF e \in S THEN 1 ELSE 0
  BY CountOne
<1> QED BY <1>2, <1>3, <1>5, <1>6, <1>7

\* Nothing is counted in an empty sequence.
LEMMA CountEmpty ==
  ASSUME NEW S
  PROVE  Count(<<>>, S) = 0
<1>1. {i \in 1..Len(<<>>) : <<>>[i] \in S} = {}
  OBVIOUS
<1> QED BY <1>1, FS_EmptySet DEF Count

\* SetToSeq lists every element of a finite set once.
LEMMA SetToSeqFacts ==
  ASSUME NEW S, IsFiniteSet(S)
  PROVE  LET f == SetToSeq(S) IN
         /\ f \in Seq(S)
         /\ \A i, j \in 1..Len(f) : f[i] = f[j] => i = j
         /\ \A x \in S : \E i \in 1..Len(f) : f[i] = x
<1> DEFINE n == Cardinality(S)
           f == SetToSeq(S)
<1>1. n \in Nat /\ ExistsBijection(1..n, S)
  BY FS_CardinalityType
<1>2. \E g \in [1..n -> S] : IsInjective(g)
  BY <1>1 DEF ExistsBijection, Bijection, Injection
<1>3. f \in [1..n -> S] /\ IsInjective(f)
  BY <1>2 DEF SetToSeq
<1> HIDE DEF f
<1>4. f \in Seq(S) /\ Len(f) = n /\ DOMAIN f = 1..n
  BY <1>1, <1>3
<1>5. f \in Injection(1..n, S)
  BY <1>3 DEF Injection
<1>6. IsFiniteSet(1..n) /\ Cardinality(1..n) = n
  BY <1>1, FS_Interval
<1>7. f \in Surjection(1..n, S)
  BY <1>5, <1>6, FS_Injection
<1> QED BY <1>3, <1>4, <1>7 DEF IsInjective, Surjection, f

-----------------------------------------------------------------------------
(* Types, and what the backend tells *)

Request == [t : Targets, watch : BOOLEAN, token : Tokens]

Views   == UNION {[D -> SUBSET Keys] : D \in SUBSET Targets}
ServedState == [told : SUBSET Keys, resumed : SUBSET Keys, current : BOOLEAN]
Serveds == UNION {[D -> ServedState] : D \in SUBSET Targets}

Message ==
       [kind : {"added", "removed", "rejected", "reset"}, t : Targets]
  \cup [kind : {"found", "deleted"}, t : Targets, key : Keys]
  \cup [kind : {"current"}, t : Targets, token : SUBSET Keys]
  \cup [kind : {"filter"}, t : Targets, count : Nat, bloom : (SUBSET Keys) \cup {NoBloom}]
  \cup [kind : {"snapshot"}, fresh : BOOLEAN, view : Views, current : SUBSET Targets]

SettingType ==
  [targets : SUBSET Targets, docs : SUBSET Keys,
   falsePositives : BOOLEAN, filtersFirst : BOOLEAN,
   listens : Nat, writes : Nat, changes : Nat, breaks : Nat,
   rejections : Nat, resets : Nat, filters : Nat, stale : Nat]

TypeInv ==
  /\ listening \in SUBSET Targets
  /\ keys \in [Targets -> SUBSET Keys]
  /\ token \in [Targets -> Tokens]
  /\ agg \in Aggregator
  /\ open \in BOOLEAN
  /\ outbox \in Seq(Request)
  /\ inbox \in Seq(Message)
  /\ store \in SUBSET Keys
  /\ served \in Serveds
  /\ listens \in [Targets -> Nat]
  /\ setting \in SettingType

\* The view of a snapshot message, as a set.
LEMMA ViewsDef ==
  \A f : f \in Views <=> f \in [DOMAIN f -> SUBSET Keys] /\ DOMAIN f \subseteq Targets
BY DEF Views

\* The targets of the backend, as a set.
LEMMA ServedsDef ==
  \A f : f \in Serveds <=> f \in [DOMAIN f -> ServedState] /\ DOMAIN f \subseteq Targets
BY DEF Serveds

\* The fields of a message.
LEMMA MessageFacts ==
  ASSUME NEW m \in Message
  PROVE  /\ m.kind # "snapshot" => m.t \in Targets
         /\ m.kind \in {"found", "deleted"} => m.key \in Keys
         /\ m.kind = "current" => m.token \in SUBSET Keys
         /\ m.kind = "snapshot" => /\ m.view \in Views /\ m.fresh \in BOOLEAN
         /\ m.kind \in {"added", "removed", "rejected", "reset", "found", "deleted", "current",
                      "filter", "snapshot"}
BY DEF Message

\* A step that uses up one of the bounds of the setting.
LEMMA SpendFacts ==
  ASSUME setting \in SettingType,
         NEW what \in {"writes", "changes", "breaks", "rejections", "resets", "filters", "stale"},
         Spend(what)
  PROVE  /\ setting' \in SettingType /\ setting'.listens = setting.listens
         /\ setting'.targets = setting.targets
         /\ setting.rejections = 0 => setting'.rejections = 0 /\ what # "rejections"
<1>1. CASE what = "writes"
  BY <1>1 DEF Spend, SettingType
<1>2. CASE what = "changes"
  BY <1>2 DEF Spend, SettingType
<1>3. CASE what = "breaks"
  BY <1>3 DEF Spend, SettingType
<1>4. CASE what = "rejections"
  BY <1>4 DEF Spend, SettingType
<1>5. CASE what = "resets"
  BY <1>5 DEF Spend, SettingType
<1>6. CASE what = "filters"
  BY <1>6 DEF Spend, SettingType
<1>7. CASE what = "stale"
  BY <1>7 DEF Spend, SettingType
<1> QED BY <1>1, <1>2, <1>3, <1>4, <1>5, <1>6, <1>7

Told(t) == IF t \in DOMAIN served THEN served[t].told ELSE NoToken
Base(tok) == IF tok = NoToken THEN {} ELSE tok

\* What a message to the client says about t: the backend told about the documents
\* before when it sent the message, and about those of after once it had sent it.
Follows(m, t, before, after) ==
  /\ m.kind = "snapshot" =>
       /\ after = before /\ (t \in DOMAIN m.view <=> before # NoToken)
       /\ t \in DOMAIN m.view => m.view[t] = before
  /\ m.kind # "snapshot" /\ m.t # t => after = before
  /\ m.kind # "snapshot" /\ m.t = t =>
       /\ m.kind = "added"   => after # NoToken
       /\ m.kind = "removed" => after = NoToken
       /\ m.kind = "found"   => before # NoToken /\ after = before \cup {m.key}
       /\ m.kind = "deleted" => before # NoToken /\ after = before \ {m.key}
       /\ m.kind = "reset"   => before # NoToken /\ after = {}
       /\ m.kind = "current" => before # NoToken /\ after = before
       /\ m.kind = "filter"  => /\ before # NoToken /\ after # NoToken
                                /\ after \subseteq before /\ m.count = Cardinality(after)

SettingStep ==
  /\ setting' \in SettingType /\ setting'.listens = setting.listens
  /\ setting'.targets = setting.targets
  /\ setting.rejections = 0 => setting'.rejections = 0

\* A step in which the backend sends the message m about a target it serves.
Telling(m) ==
  /\ m \in Message /\ m.kind \in {"rejected", "found", "deleted", "filter", "current", "reset"}
  /\ m.kind = "rejected" => setting.rejections # 0
  /\ m.t \in DOMAIN served /\ inbox' = Append(inbox, m)
  /\ served' \in Serveds /\ DOMAIN served' \subseteq DOMAIN served
  /\ Follows(m, m.t, Told(m.t), Told(m.t)')
  /\ \A u \in Targets \ {m.t} : Told(u)' = Told(u)
  /\ Base(Told(m.t)) \subseteq Match[m.t] => Base(Told(m.t)') \subseteq Match[m.t]
  /\ listening' = listening /\ keys' = keys /\ token' = token /\ agg' = agg
  /\ open' = open /\ outbox' = outbox /\ store' = store /\ listens' = listens
  /\ SettingStep

\* What the backend told about a target.
LEMMA ToldFacts ==
  ASSUME TypeInv, NEW t \in Targets
  PROVE  Told(t) \in Tokens /\ (t \in DOMAIN served <=> Told(t) # NoToken)
<1>1. CASE t \in DOMAIN served
  <2>1. served[t] \in ServedState
    BY <1>1, ServedsDef DEF TypeInv
  <2>2. served[t].told \in SUBSET Keys
    BY <2>1 DEF ServedState
  <2> QED BY <1>1, <2>2, NoTokenAssumption DEF Told, Tokens
<1>2. CASE t \notin DOMAIN served
  BY <1>2 DEF Told, Tokens
<1> QED BY <1>1, <1>2

\* What the action Tell does, for a message that stands for its change.
LEMMA TellTells ==
  ASSUME TypeInv, NEW t \in DOMAIN served, NEW told \in SUBSET Keys, NEW about \in SUBSET Keys,
         NEW m \in Message, m.kind \in {"found", "deleted", "filter"}, m.t = t,
         Tell(t, told, about, m), SettingStep,
         Follows(m, t, served[t].told, told),
         told \subseteq served[t].told \/ told \subseteq served[t].told \cup Match[t]
  PROVE  Telling(m)
<1> DEFINE s == [served[t] EXCEPT !.told = told, !.resumed = @ \ about]
<1>1. served \in [DOMAIN served -> ServedState] /\ DOMAIN served \subseteq Targets
  BY ServedsDef DEF TypeInv
<1>2. s \in ServedState /\ s.told = told
  BY <1>1 DEF ServedState
<1>3. served' = [served EXCEPT ![t] = s]
  BY <1>1 DEF Tell, ServedState
<1> HIDE DEF s
<1>4. served' \in Serveds /\ DOMAIN served' = DOMAIN served
  BY <1>1, <1>2, <1>3, ServedsDef
<1>5. Told(t) = served[t].told /\ Told(t)' = told
  BY <1>2, <1>3, <1>4 DEF Told
<1>6. \A u \in Targets \ {t} : Told(u)' = Told(u)
  BY <1>3, <1>4 DEF Told
<1>7. inbox' = Append(inbox, m) /\ outbox' = outbox /\ store' = store
  BY DEF Tell, Send
<1>8. /\ listening' = listening /\ keys' = keys /\ token' = token /\ agg' = agg
      /\ open' = open /\ listens' = listens
  BY DEF Tell, ClientUnchanged, client
<1>9. Base(Told(t)) \subseteq Match[t] => Base(Told(t)') \subseteq Match[t]
  <2>1. served[t] \in ServedState
    BY <1>1
  <2>2. served[t].told # NoToken /\ told # NoToken
    BY <2>1, NoTokenAssumption DEF ServedState
  <2> QED BY <1>5, <2>2 DEF Base
<1>10. t \in Targets
  BY <1>1
<1>11. Follows(m, t, Told(t), Told(t)')
  BY <1>5
<1> QED BY <1>4, <1>6, <1>7, <1>8, <1>9, <1>10, <1>11 DEF Telling

\* The backend told about every target it serves.
LEMMA ServedFacts ==
  ASSUME TypeInv, NEW t \in DOMAIN served
  PROVE  /\ t \in Targets /\ served[t] \in ServedState
         /\ served[t].told \in SUBSET Keys
         /\ Told(t) = served[t].told /\ served[t].told # NoToken
<1>1. served[t] \in ServedState /\ t \in Targets
  BY ServedsDef DEF TypeInv
<1> QED BY <1>1, NoTokenAssumption DEF ServedState, Told

\* The documents that match.
LEMMA MatchingType ==
  ASSUME TypeInv, NEW t \in Targets
  PROVE  Matching(t) \in SUBSET Keys /\ Matching(t) \subseteq Match[t] /\ Matching(t) # NoToken
BY MatchAssumption, NoTokenAssumption DEF Matching, TypeInv

\* The backend tells that a document is found.
LEMMA FoundTells ==
  ASSUME TypeInv, NEW t \in Targets, NEW k \in Keys, TellFound(t, k) \/ TellModified(t, k)
  PROVE  \E m : Telling(m)
<1> DEFINE m == [kind |-> "found", t |-> t, key |-> k]
<1>1. t \in DOMAIN served /\ k \in Matching(t)
  BY DEF TellFound, TellModified
<1>2. m \in Message /\ m.kind = "found" /\ m.t = t /\ m.key = k
  BY DEF Message
<1>3. /\ served[t].told \in SUBSET Keys /\ served[t].told # NoToken
      /\ Matching(t) \in SUBSET Keys /\ Matching(t) \subseteq Match[t]
  BY <1>1, ServedFacts, MatchingType
<1>4. Follows(m, t, served[t].told, served[t].told \cup {k})
  BY <1>2, <1>3 DEF Follows
<1>5. {k} \in SUBSET Keys /\ served[t].told \cup {k} \in SUBSET Keys
      /\ served[t].told \cup {k} \subseteq served[t].told \cup Match[t]
  BY <1>1, <1>3
<1> HIDE DEF m
<1>6. CASE TellFound(t, k)
  <2>1. Tell(t, served[t].told \cup {k}, {k}, m)
    BY <1>6 DEF TellFound, m
  <2>2. SettingStep
    BY <1>6 DEF TellFound, SettingStep, TypeInv
  <2> QED BY <1>1, <1>2, <1>4, <1>5, <2>1, <2>2, TellTells
<1>7. CASE TellModified(t, k)
  <2>1. Tell(t, served[t].told, {k}, m) /\ k \in served[t].told /\ Spend("changes")
    BY <1>7 DEF TellModified, m
  <2>2. SettingStep
    BY <2>1, SpendFacts DEF TypeInv, SettingStep
  <2>3. served[t].told = served[t].told \cup {k}
    BY <2>1
  <2>4. Tell(t, served[t].told \cup {k}, {k}, m)
    BY <2>1, <2>3
  <2> QED BY <1>1, <1>2, <1>4, <1>5, <2>2, <2>4, TellTells
<1> QED BY <1>6, <1>7

\* The backend tells that a document is deleted.
LEMMA DeletedTells ==
  ASSUME TypeInv, NEW t \in Targets, NEW k \in Keys, TellDeleted(t, k)
  PROVE  \E m : Telling(m)
<1> DEFINE m == [kind |-> "deleted", t |-> t, key |-> k]
<1>1. t \in DOMAIN served /\ Tell(t, served[t].told \ {k}, {k}, m)
  BY DEF TellDeleted
<1>2. m \in Message /\ m.kind = "deleted" /\ m.t = t /\ m.key = k
  BY DEF Message
<1>3. served[t].told \in SUBSET Keys /\ served[t].told # NoToken
  BY <1>1, ServedFacts
<1>4. Follows(m, t, served[t].told, served[t].told \ {k})
  BY <1>2, <1>3 DEF Follows
<1>5. SettingStep
  BY DEF TellDeleted, SettingStep, TypeInv
<1> HIDE DEF m
<1> QED BY <1>1, <1>2, <1>3, <1>4, <1>5, TellTells

\* The backend sends an existence filter.
LEMMA FilterTells ==
  ASSUME TypeInv, NEW t \in Targets, TellFilter(t)
  PROVE  \E m : Telling(m)
<1>1. PICK bloom \in BloomsFor(t) :
        Tell(t, Matching(t), Keys, [kind |-> "filter", t |-> t,
                                    count |-> Cardinality(Matching(t)), bloom |-> bloom])
  BY DEF TellFilter
<1> DEFINE m == [kind |-> "filter", t |-> t, count |-> Cardinality(Matching(t)), bloom |-> bloom]
<1>2. t \in DOMAIN served /\ Matching(t) \subseteq served[t].told /\ Spend("filters")
  BY DEF TellFilter
<1>3. /\ served[t].told \in SUBSET Keys /\ served[t].told # NoToken
      /\ Matching(t) \in SUBSET Keys /\ Matching(t) # NoToken
  BY <1>2, ServedFacts, MatchingType
<1>4. bloom \in (SUBSET Keys) \cup {NoBloom}
  <2>1. served[t] \in ServedState
    BY <1>2, ServedFacts
  <2>2. served[t].resumed \in SUBSET Keys /\ Match[t] \in SUBSET Keys
    BY <2>1, MatchAssumption DEF ServedState
  <2> QED BY <2>2 DEF BloomsFor
<1>5. Cardinality(Matching(t)) \in Nat
  BY <1>3, FiniteAssumption, FS_Subset, FS_CardinalityType
<1>6. /\ m \in Message /\ m.kind = "filter" /\ m.t = t /\ m.count = Cardinality(Matching(t))
  BY <1>4, <1>5 DEF Message
<1> HIDE DEF m
<1>7. Follows(m, t, served[t].told, Matching(t))
  BY <1>2, <1>3, <1>6 DEF Follows
<1>8. SettingStep
  BY <1>2, SpendFacts DEF TypeInv, SettingStep
<1>9. Tell(t, Matching(t), Keys, m)
  BY <1>1 DEF m
<1> QED BY <1>2, <1>3, <1>6, <1>7, <1>8, <1>9, TellTells

\* The backend rejects a target it serves.
LEMMA DropTells ==
  ASSUME TypeInv, NEW t \in Targets, Drop(t)
  PROVE  \E m : Telling(m)
<1> DEFINE m == [kind |-> "rejected", t |-> t]
<1>1. t \in DOMAIN served /\ served' = Restrict(served, DOMAIN served \ {t})
      /\ Spend("rejections") /\ inbox' = Append(inbox, m) /\ outbox' = outbox /\ store' = store
  BY DEF Drop, Send
<1>2. m \in Message /\ m.kind = "rejected" /\ m.t = t
  BY DEF Message
<1>3. served \in [DOMAIN served -> ServedState] /\ DOMAIN served \subseteq Targets
  BY ServedsDef DEF TypeInv
<1>4. /\ served' \in Serveds /\ DOMAIN served' \subseteq DOMAIN served /\ t \notin DOMAIN served'
      /\ \A u \in Targets \ {t} : Told(u)' = Told(u)
  <2>1. DOMAIN served' = DOMAIN served \ {t}
        /\ \A u \in DOMAIN served \ {t} : served'[u] = served[u]
    BY <1>1 DEF Restrict
  <2>2. served' \in [DOMAIN served' -> ServedState]
    BY <1>1, <1>3 DEF Restrict
  <2> QED BY <1>3, <2>1, <2>2, ServedsDef DEF Told
<1>5. Told(t)' = NoToken
  BY <1>4 DEF Told
<1>6. SettingStep /\ setting.rejections # 0
  <2>1. /\ setting' \in SettingType /\ setting'.listens = setting.listens
        /\ setting'.targets = setting.targets
        /\ setting.rejections = 0 => setting'.rejections = 0 /\ "rejections" # "rejections"
    BY <1>1, SpendFacts DEF TypeInv
  <2> QED BY <2>1 DEF SettingStep
<1>7. /\ listening' = listening /\ keys' = keys /\ token' = token /\ agg' = agg
      /\ open' = open /\ listens' = listens
  BY DEF Drop, ClientUnchanged, client
<1>8. Follows(m, t, Told(t), Told(t)')
  BY <1>2 DEF Follows
<1>9. Base(Told(t)') \subseteq Match[t]
  BY <1>5 DEF Base
<1> HIDE DEF m
<1> QED BY <1>1, <1>2, <1>4, <1>6, <1>7, <1>8, <1>9 DEF Telling

\* The backend calls a target current.
LEMMA CurrentTells ==
  ASSUME TypeInv, NEW t \in Targets, TellCurrent(t)
  PROVE  \E m : Telling(m)
<1> DEFINE m == [kind |-> "current", t |-> t, token |-> served[t].told]
           s == [served[t] EXCEPT !.current = TRUE]
<1>1. t \in DOMAIN served /\ inbox' = Append(inbox, m) /\ outbox' = outbox /\ store' = store
      /\ served' = [served EXCEPT ![t].current = TRUE] /\ setting' = setting
  BY DEF TellCurrent, Send
<1>2. served[t].told \in SUBSET Keys /\ served[t].told # NoToken /\ served[t] \in ServedState
      /\ Told(t) = served[t].told
  BY <1>1, ServedFacts
<1>3. m \in Message /\ m.kind = "current" /\ m.t = t
  BY <1>2 DEF Message
<1>4. served \in [DOMAIN served -> ServedState] /\ DOMAIN served \subseteq Targets
  BY ServedsDef DEF TypeInv
<1>5. s \in ServedState /\ s.told = served[t].told /\ served' = [served EXCEPT ![t] = s]
  BY <1>1, <1>2 DEF ServedState
<1> HIDE DEF s, m
<1>6. served' \in Serveds /\ DOMAIN served' = DOMAIN served
  BY <1>1, <1>4, <1>5, ServedsDef
<1>7. Told(t)' = Told(t) /\ \A u \in Targets \ {t} : Told(u)' = Told(u)
  BY <1>1, <1>2, <1>5, <1>6 DEF Told
<1>8. Follows(m, t, Told(t), Told(t)')
  BY <1>2, <1>3, <1>7 DEF Follows
<1>9. SettingStep
  BY <1>1 DEF SettingStep, TypeInv
<1>10. /\ listening' = listening /\ keys' = keys /\ token' = token /\ agg' = agg
       /\ open' = open /\ listens' = listens
  BY DEF TellCurrent, ClientUnchanged, client
<1> QED BY <1>1, <1>3, <1>6, <1>7, <1>8, <1>9, <1>10 DEF Telling

\* The backend starts over with a target.
LEMMA ResetTells ==
  ASSUME TypeInv, NEW t \in Targets, TellReset(t)
  PROVE  \E m : Telling(m)
<1> DEFINE m == [kind |-> "reset", t |-> t]
           s == Resumed({})
<1>1. t \in DOMAIN served /\ inbox' = Append(inbox, m) /\ outbox' = outbox /\ store' = store
      /\ served' = [served EXCEPT ![t] = s] /\ Spend("resets")
  BY DEF TellReset, Send
<1>2. Told(t) # NoToken
  BY <1>1, ServedFacts
<1>3. m \in Message /\ m.kind = "reset" /\ m.t = t
  BY DEF Message
<1>4. served \in [DOMAIN served -> ServedState] /\ DOMAIN served \subseteq Targets
  BY ServedsDef DEF TypeInv
<1>5. s \in ServedState /\ s.told = {}
  BY DEF ServedState, Resumed
<1> HIDE DEF s, m
<1>6. served' \in Serveds /\ DOMAIN served' = DOMAIN served
  BY <1>1, <1>4, <1>5, ServedsDef
<1>7. Told(t)' = {} /\ \A u \in Targets \ {t} : Told(u)' = Told(u)
  BY <1>1, <1>5, <1>6 DEF Told
<1>8. Follows(m, t, Told(t), Told(t)')
  BY <1>2, <1>3, <1>7 DEF Follows
<1>9. SettingStep
  BY <1>1, SpendFacts DEF SettingStep, TypeInv
<1>10. /\ listening' = listening /\ keys' = keys /\ token' = token /\ agg' = agg
       /\ open' = open /\ listens' = listens
  BY DEF TellReset, ClientUnchanged, client
<1>11. Base(Told(t)') \subseteq Match[t]
  BY <1>7 DEF Base
<1> QED BY <1>1, <1>3, <1>6, <1>7, <1>8, <1>9, <1>10, <1>11 DEF Telling

-----------------------------------------------------------------------------
(* The messages of the backend *)

SameClient ==
  /\ listening' = listening /\ keys' = keys /\ token' = token /\ agg' = agg
  /\ open' = open /\ listens' = listens

\* A step in which the backend sends the message m.
Sends(m) ==
  /\ m \in Message /\ inbox' = Append(inbox, m) /\ served' \in Serveds
  /\ m.kind = "rejected" => setting.rejections # 0
  /\ \A u \in Targets : Follows(m, u, Told(u), Told(u)')
  /\ SameClient /\ store' = store /\ SettingStep

\* Telling about a target is a step of the backend.
LEMMA TellingSends ==
  ASSUME TypeInv, NEW m, Telling(m)
  PROVE  Sends(m)
<1>1. m \in Message /\ m.kind # "snapshot"
  BY DEF Telling
<1>2. \A u \in Targets : Follows(m, u, Told(u), Told(u)')
  <2> TAKE u \in Targets
  <2>1. CASE u = m.t
    BY <2>1 DEF Telling
  <2>2. CASE u # m.t
    <3>1. Told(u)' = Told(u)
      BY <2>2 DEF Telling
    <3> QED BY <1>1, <2>2, <3>1 DEF Follows
  <2> QED BY <2>1, <2>2
<1> QED BY <1>2 DEF Telling, Sends, SameClient

\* The backend answers the request r with the message m.
Answering(r, m) ==
  /\ outbox # <<>> /\ r = Head(outbox) /\ outbox' = Tail(outbox)
  /\ m.kind = (IF r.watch THEN "added" ELSE "removed") /\ m.t = r.t
  /\ Sends(m)
  /\ DOMAIN served' \subseteq DOMAIN served \cup {r.t}
  /\ r.watch => Told(r.t)' = Base(r.token)

\* Answer, as a step.
LEMMA AnswerAnswers ==
  ASSUME TypeInv, Answer
  PROVE  \E r \in Request : \E m : Answering(r, m)
<1>0. Head(outbox) \in Request
  BY HeadTailProperties DEF Answer, TypeInv
<1>3. PICK r \in Request : r = Head(outbox)
  BY <1>0
<1> DEFINE m == [kind |-> IF r.watch THEN "added" ELSE "removed", t |-> r.t]
           s == Resumed(Base(r.token))
<1>1. /\ outbox # <<>> /\ outbox' = Tail(outbox) /\ inbox' = Append(inbox, m)
      /\ setting' = setting /\ store' = store
  BY <1>3 DEF Answer, Send
<1>2. served' = IF r.watch
                THEN [t \in DOMAIN served \cup {r.t} |-> IF t = r.t THEN s ELSE served[t]]
                ELSE Restrict(served, DOMAIN served \ {r.t})
  BY <1>3 DEF Answer, Base
<1>4. /\ r.t \in Targets /\ r.watch \in BOOLEAN /\ r.token \in Tokens
      /\ Base(r.token) \in SUBSET Keys
  BY <1>3 DEF Request, Tokens, Base
<1>5. /\ m \in Message /\ m.t = r.t /\ m.kind = IF r.watch THEN "added" ELSE "removed"
  BY <1>4 DEF Message
<1> HIDE DEF m
<1>6. s \in ServedState /\ s.told = Base(r.token)
  BY <1>4 DEF ServedState, Resumed
<1> HIDE DEF s
<1>7. served \in [DOMAIN served -> ServedState] /\ DOMAIN served \subseteq Targets
  BY ServedsDef DEF TypeInv
<1>8. /\ served' \in Serveds /\ DOMAIN served' \subseteq DOMAIN served \cup {r.t}
      /\ \A u \in Targets \ {r.t} : Told(u)' = Told(u)
      /\ r.watch => Told(r.t)' = Base(r.token)
      /\ ~r.watch => Told(r.t)' = NoToken
  <2>1. CASE r.watch
    <3>1. /\ DOMAIN served' = DOMAIN served \cup {r.t} /\ served'[r.t] = s
          /\ \A u \in DOMAIN served \ {r.t} : served'[u] = served[u]
          /\ served' \in [DOMAIN served \cup {r.t} -> ServedState]
      BY <1>2, <1>6, <1>7, <2>1
    <3>2. served' \in Serveds
      <4>1. served' \in [DOMAIN served' -> ServedState] /\ DOMAIN served' \subseteq Targets
        BY <1>4, <1>7, <3>1
      <4> QED BY <4>1, ServedsDef
    <3>3. \A u \in Targets \ {r.t} : Told(u)' = Told(u)
      BY <3>1 DEF Told
    <3>4. Told(r.t)' = Base(r.token)
      BY <1>6, <3>1 DEF Told
    <3> QED BY <2>1, <3>1, <3>2, <3>3, <3>4
  <2>2. CASE ~r.watch
    <3>1. /\ DOMAIN served' = DOMAIN served \ {r.t}
          /\ \A u \in DOMAIN served \ {r.t} : served'[u] = served[u]
          /\ served' \in [DOMAIN served \ {r.t} -> ServedState]
      BY <1>2, <1>7, <2>2 DEF Restrict
    <3>2. served' \in Serveds
      <4>1. served' \in [DOMAIN served' -> ServedState] /\ DOMAIN served' \subseteq Targets
        BY <1>7, <3>1
      <4> QED BY <4>1, ServedsDef
    <3>3. \A u \in Targets \ {r.t} : Told(u)' = Told(u)
      BY <3>1 DEF Told
    <3>4. Told(r.t)' = NoToken
      BY <3>1 DEF Told
    <3> QED BY <2>2, <3>1, <3>2, <3>3, <3>4
  <2> QED BY <2>1, <2>2
<1>9. \A u \in Targets : Follows(m, u, Told(u), Told(u)')
  <2> TAKE u \in Targets
  <2>1. Base(r.token) # NoToken
    BY <1>4, NoTokenAssumption
  <2>2. CASE u # r.t
    <3>1. Told(u)' = Told(u)
      BY <1>8, <2>2
    <3> QED BY <1>5, <2>2, <3>1 DEF Follows
  <2>3. CASE u = r.t /\ r.watch
    <3>1. Told(u)' # NoToken /\ m.kind = "added" /\ m.t = u
      BY <1>5, <1>8, <2>1, <2>3
    <3> QED BY <3>1 DEF Follows
  <2>4. CASE u = r.t /\ ~r.watch
    <3>1. Told(u)' = NoToken /\ m.kind = "removed" /\ m.t = u
      BY <1>5, <1>8, <2>4
    <3> QED BY <3>1 DEF Follows
  <2> QED BY <1>4, <2>2, <2>3, <2>4
<1>10. SameClient
  BY DEF Answer, ClientUnchanged, client, SameClient
<1>11. SettingStep
  BY <1>1 DEF SettingStep, TypeInv
<1>12. m.kind # "rejected"
  BY <1>5
<1>13. Sends(m)
  BY <1>1, <1>5, <1>8, <1>9, <1>10, <1>11, <1>12 DEF Sends
<1>14. Answering(r, m)
  BY <1>1, <1>3, <1>5, <1>8, <1>13 DEF Answering
<1> QED BY <1>14

\* The backend refuses the watch request r with the message m.
Refusing(r, m) ==
  /\ outbox # <<>> /\ r = Head(outbox) /\ outbox' = Tail(outbox) /\ r.watch
  /\ m.kind = "rejected" /\ m.t = r.t
  /\ Sends(m) /\ served' = served

\* Refuse, as a step.
LEMMA RefuseRefuses ==
  ASSUME TypeInv, Refuse
  PROVE  \E r \in Request : \E m : Refusing(r, m)
<1>0. Head(outbox) \in Request
  BY HeadTailProperties DEF Refuse, TypeInv
<1>2. PICK r \in Request : r = Head(outbox)
  BY <1>0
<1> DEFINE m == [kind |-> "rejected", t |-> r.t]
<1>1. /\ outbox # <<>> /\ outbox' = Tail(outbox) /\ inbox' = Append(inbox, m)
      /\ r.watch /\ store' = store /\ served' = served /\ Spend("rejections")
  BY <1>2 DEF Refuse, Send
<1>3. m \in Message /\ m.kind = "rejected" /\ m.t = r.t
  BY <1>2 DEF Message, Request
<1> HIDE DEF m
<1>4. /\ setting' \in SettingType /\ setting'.listens = setting.listens
      /\ setting'.targets = setting.targets
      /\ setting.rejections = 0 => setting'.rejections = 0 /\ "rejections" # "rejections"
  BY <1>1, SpendFacts DEF TypeInv
<1>5. SettingStep /\ setting.rejections # 0
  BY <1>4 DEF SettingStep
<1>6. \A u \in Targets : Told(u)' = Told(u)
  BY <1>1 DEF Told
<1>7. \A u \in Targets : Follows(m, u, Told(u), Told(u)')
  BY <1>3, <1>6 DEF Follows
<1>8. SameClient
  BY DEF Refuse, ClientUnchanged, client, SameClient
<1>9. served' \in Serveds
  BY <1>1 DEF TypeInv
<1>10. Refusing(r, m)
  BY <1>1, <1>2, <1>3, <1>5, <1>7, <1>8, <1>9 DEF Refusing, Sends
<1> QED BY <1>10

\* The backend sends a global snapshot.
Snapshotting(m) ==
  m.kind = "snapshot" /\ news /\ Sends(m) /\ outbox' = outbox /\ served' = served

\* A global snapshot, as a step.
LEMMA SnapshotSends ==
  ASSUME TypeInv, FreshSnapshot \/ StaleSnapshot
  PROVE  \E m : Snapshotting(m)
<1>1. PICK fresh \in BOOLEAN : Snapshot(fresh)
  BY DEF FreshSnapshot, StaleSnapshot
<1> DEFINE v == [t \in DOMAIN served |-> served[t].told]
           m == [kind |-> "snapshot", fresh |-> fresh, view |-> v,
                 current |-> {t \in DOMAIN served : served[t].current}]
<1>2. inbox' = Append(inbox, m) /\ outbox' = outbox /\ store' = store /\ served' = served
  BY <1>1 DEF Snapshot
<1>3. served \in [DOMAIN served -> ServedState] /\ DOMAIN served \subseteq Targets
  BY ServedsDef DEF TypeInv
<1>4. \A t \in DOMAIN served : /\ served[t].told \in SUBSET Keys /\ Told(t) = served[t].told
                             /\ served[t].told # NoToken
  BY ServedFacts
<1>5. v \in Views /\ DOMAIN v = DOMAIN served
  <2>1. v \in [DOMAIN v -> SUBSET Keys] /\ DOMAIN v \subseteq Targets
    BY <1>3, <1>4
  <2> QED BY <2>1, ViewsDef
<1>6. \A t \in DOMAIN served : v[t] = Told(t)
  BY <1>4
<1> HIDE DEF v
<1>7. m \in Message /\ m.kind = "snapshot" /\ m.view = v
  BY <1>3, <1>5 DEF Message
<1> HIDE DEF m
<1>8. \A u \in Targets : Told(u)' = Told(u) /\ (u \in DOMAIN served <=> Told(u) # NoToken)
  BY <1>2, ToldFacts DEF Told
<1>9. \A u \in Targets : Follows(m, u, Told(u), Told(u)')
  BY <1>5, <1>6, <1>7, <1>8 DEF Follows
<1>10. SettingStep
  BY SpendFacts DEF FreshSnapshot, StaleSnapshot, SettingStep, TypeInv
<1>11. SameClient
  BY <1>1 DEF Snapshot, ClientUnchanged, client, SameClient
<1>12. served' \in Serveds
  BY <1>2 DEF TypeInv
<1>13. m.kind # "rejected" /\ news
  BY <1>1, <1>7 DEF Snapshot
<1> QED BY <1>2, <1>7, <1>9, <1>10, <1>11, <1>12, <1>13 DEF Snapshotting, Sends

\* Every action of the backend is one of these steps.
LEMMA BackendSends ==
  ASSUME TypeInv, Backend
  PROVE  \/ \E m : Telling(m) /\ Sends(m)
         \/ \E r \in Request : \E m : Answering(r, m)
         \/ \E r \in Request : \E m : Refusing(r, m)
         \/ \E m : Snapshotting(m)
<1>1. CASE Answer
  BY <1>1, AnswerAnswers
<1>2. CASE Refuse
  BY <1>2, RefuseRefuses
<1>3. CASE FreshSnapshot \/ StaleSnapshot
  BY <1>3, SnapshotSends
<1>4. ASSUME NEW t \in Targets, Drop(t) \/ TellFilter(t) \/ TellCurrent(t) \/ TellReset(t)
      PROVE  \E m : Telling(m) /\ Sends(m)
  BY <1>4, DropTells, FilterTells, CurrentTells, ResetTells, TellingSends
<1>5. ASSUME NEW t \in Targets, NEW k \in Keys,
             TellFound(t, k) \/ TellModified(t, k) \/ TellDeleted(t, k)
      PROVE  \E m : Telling(m) /\ Sends(m)
  BY <1>5, FoundTells, DeletedTells, TellingSends
<1> QED BY <1>1, <1>2, <1>3, <1>4, <1>5 DEF Backend

-----------------------------------------------------------------------------
(* The messages that the client takes *)

RequestsFor(t) == {r \in Request : r.t = t}
AnswersFor(t)  == {m \in Message : m.kind \in {"added", "removed"} /\ m.t = t}

SameBackend ==
  /\ open' = open /\ store' = store /\ served' = served /\ listens' = listens
  /\ setting' = setting

Takes(m) == inbox # <<>> /\ m = Head(inbox) /\ inbox' = Tail(inbox) /\ m \in Message

\* What the aggregator does with the message m.
Handles(m) ==
  \/ m.kind = "found"   /\ agg' = AddDocumentToTarget(agg, Metadata, m.t, m.key)
  \/ m.kind = "deleted" /\ agg' = RemoveDocumentFromTarget(agg, Metadata, m.t, m.key, "deleted")
  \/ m.kind = "added"   /\ agg' = TargetAdded(agg, m.t)
  \/ m.kind = "removed" /\ agg' = TargetRemoved(agg, m.t)
  \/ m.kind = "current" /\ agg' = TargetCurrent(agg, Metadata, m.t, m.token)
  \/ m.kind = "reset"   /\ agg' = TargetReset(agg, Metadata, m.t)
  \/ m.kind = "filter"  /\ agg' = HandleExistenceFilter(agg, Metadata, m.t, m.count, m.bloom)

\* The client hands the message m to its aggregator.
Handling(m) ==
  /\ Takes(m) /\ Handles(m)
  /\ m.kind \in {"found", "deleted", "added", "removed", "current", "reset", "filter"}
  /\ OneEntry(agg, agg', m.t)
  /\ Pending(agg', m.t) = Pending(agg, m.t) - (IF m.kind \in {"added", "removed"} THEN 1 ELSE 0)
  /\ listening' = listening /\ keys' = keys /\ token' = token /\ outbox' = outbox
  /\ SameBackend

\* What the aggregator sees of the client.
LEMMA MetadataType ==
  ASSUME TypeInv
  PROVE  Metadata \in Metadatas
BY DEF Metadata, Metadatas, TypeInv

\* The next message is a message.
LEMMA HeadType ==
  ASSUME TypeInv, inbox # <<>>
  PROVE  Head(inbox) \in Message
BY HeadTailProperties DEF TypeInv

\* OnDocument, as a step.
LEMMA DocumentHandled ==
  ASSUME TypeInv, OnDocument
  PROVE  \E m \in Message : Handling(m)
<1>1. inbox # <<>>
  BY DEF OnDocument, Arrives
<1>2. PICK m \in Message : m = Head(inbox)
  BY <1>1, HeadType
<1>3. Metadata \in Metadatas /\ agg \in Aggregator
  BY MetadataType DEF TypeInv
<1>4. Takes(m) /\ listening' = listening /\ keys' = keys /\ token' = token /\ outbox' = outbox
      /\ SameBackend
  BY <1>1, <1>2 DEF Takes, OnDocument, Arrives, OnlyAggregates, SameBackend, backend
<1>5. CASE m.kind = "found"
  <2>1. agg' = AddDocumentToTarget(agg, Metadata, m.t, m.key)
    BY <1>2, <1>5 DEF OnDocument, Arrives
  <2>2. m.t \in Targets /\ m.key \in Keys
    BY <1>5, MessageFacts
  <2>3. OneEntry(agg, agg', m.t) /\ Pending(agg', m.t) = Pending(agg, m.t)
    BY <1>3, <2>1, <2>2, AddDocumentEffect
  <2>4. Pending(agg, m.t) \in Int
    BY <1>3, <2>2, StateOfType DEF Pending, TargetState
  <2> QED BY <1>4, <1>5, <2>1, <2>3, <2>4 DEF Handling, Handles
<1>6. CASE m.kind = "deleted"
  <2>1. agg' = RemoveDocumentFromTarget(agg, Metadata, m.t, m.key, "deleted")
    BY <1>2, <1>6 DEF OnDocument, Arrives
  <2>2. m.t \in Targets /\ m.key \in Keys
    BY <1>6, MessageFacts
  <2>3. OneEntry(agg, agg', m.t) /\ Pending(agg', m.t) = Pending(agg, m.t)
    BY <1>3, <2>1, <2>2, RemoveDocumentEffect
  <2>4. Pending(agg, m.t) \in Int
    BY <1>3, <2>2, StateOfType DEF Pending, TargetState
  <2> QED BY <1>4, <1>6, <2>1, <2>3, <2>4 DEF Handling, Handles
<1> QED BY <1>2, <1>5, <1>6 DEF OnDocument, Arrives

\* OnTargetChange, as a step.
LEMMA TargetChangeHandled ==
  ASSUME TypeInv, OnTargetChange
  PROVE  \E m \in Message : Handling(m)
<1>1. inbox # <<>>
  BY DEF OnTargetChange, Arrives
<1>2. PICK m \in Message : m = Head(inbox)
  BY <1>1, HeadType
<1>3. Metadata \in Metadatas /\ agg \in Aggregator
  BY MetadataType DEF TypeInv
<1>4. Takes(m) /\ listening' = listening /\ keys' = keys /\ token' = token /\ outbox' = outbox
      /\ SameBackend
  BY <1>1, <1>2 DEF Takes, OnTargetChange, Arrives, OnlyAggregates, SameBackend, backend
<1>5. m.kind \in {"added", "removed", "current", "reset"}
  BY <1>2 DEF OnTargetChange, Arrives
<1>6. m.t \in Targets
  BY <1>5, MessageFacts
<1>7. Pending(agg, m.t) \in Int
  BY <1>3, <1>6, StateOfType DEF Pending, TargetState
<1>8. /\ OneEntry(agg, agg', m.t)
      /\ Pending(agg', m.t) = Pending(agg, m.t) - (IF m.kind \in {"added", "removed"} THEN 1 ELSE 0)
  <2>1. CASE m.kind = "added"
    <3>1. agg' = TargetAdded(agg, m.t)
      BY <1>2, <2>1 DEF OnTargetChange, Arrives
    <3> QED BY <1>3, <1>6, <2>1, <3>1, TargetAddedEffect
  <2>2. CASE m.kind = "removed"
    <3>1. agg' = TargetRemoved(agg, m.t)
      BY <1>2, <2>2 DEF OnTargetChange, Arrives
    <3> QED BY <1>3, <1>6, <2>2, <3>1, TargetRemovedEffect
  <2>3. CASE m.kind = "current"
    <3>1. agg' = TargetCurrent(agg, Metadata, m.t, m.token)
      BY <1>2, <2>3 DEF OnTargetChange, Arrives
    <3>2. m.token \in Tokens
      BY <2>3, MessageFacts DEF Tokens
    <3>3. OneEntry(agg, agg', m.t) /\ Pending(agg', m.t) = Pending(agg, m.t)
      BY <1>3, <1>6, <3>1, <3>2, TargetCurrentEffect
    <3> QED BY <1>7, <2>3, <3>3
  <2>4. CASE m.kind = "reset"
    <3>1. agg' = TargetReset(agg, Metadata, m.t)
      BY <1>2, <2>4 DEF OnTargetChange, Arrives
    <3>3. OneEntry(agg, agg', m.t) /\ Pending(agg', m.t) = Pending(agg, m.t)
      BY <1>3, <1>6, <3>1, TargetResetEffect
    <3> QED BY <1>7, <2>4, <3>3
  <2> QED BY <1>5, <2>1, <2>2, <2>3, <2>4
<1>9. Handles(m)
  BY <1>2, <1>5 DEF Handles, OnTargetChange, Arrives
<1> QED BY <1>4, <1>5, <1>8, <1>9 DEF Handling

\* OnFilter, as a step.
LEMMA FilterHandled ==
  ASSUME TypeInv, OnFilter
  PROVE  \E m \in Message : Handling(m)
<1>1. inbox # <<>>
  BY DEF OnFilter, Arrives
<1>2. PICK m \in Message : m = Head(inbox)
  BY <1>1, HeadType
<1>3. Metadata \in Metadatas /\ agg \in Aggregator
  BY MetadataType DEF TypeInv
<1>4. /\ Takes(m) /\ listening' = listening /\ keys' = keys /\ token' = token /\ outbox' = outbox
      /\ SameBackend /\ m.kind = "filter"
  BY <1>1, <1>2 DEF Takes, OnFilter, Arrives, OnlyAggregates, SameBackend, backend
<1>5. agg' = HandleExistenceFilter(agg, Metadata, m.t, m.count, m.bloom)
  BY <1>2 DEF OnFilter
<1>6. m.t \in Targets
  BY <1>4, MessageFacts
<1>7. OneEntry(agg, agg', m.t) /\ Pending(agg', m.t) = Pending(agg, m.t)
  BY <1>3, <1>5, <1>6, FilterEffect
<1>8. Pending(agg, m.t) \in Int
  BY <1>3, <1>6, StateOfType DEF Pending, TargetState
<1>9. Handles(m)
  BY <1>4, <1>5 DEF Handles
<1> QED BY <1>4, <1>7, <1>8, <1>9 DEF Handling

\* The client takes the rejection m.
Rejected(m) ==
  /\ Takes(m) /\ m.kind = "rejected"
  /\ listening' = listening \ {m.t}
  /\ OneEntry(agg, agg', m.t) /\ agg'.resets = agg.resets
  /\ keys' = keys /\ token' = token /\ outbox' = outbox
  /\ SameBackend

\* OnRejection, as a step.
LEMMA RejectionTaken ==
  ASSUME TypeInv, OnRejection
  PROVE  \E m \in Message : Rejected(m)
<1>1. inbox # <<>>
  BY DEF OnRejection, Arrives
<1>2. PICK m \in Message : m = Head(inbox)
  BY <1>1, HeadType
<1>3. /\ Takes(m) /\ m.kind = "rejected" /\ listening' = listening \ {m.t}
      /\ agg' = (IF m.t \in listening THEN RemoveTarget(agg, m.t) ELSE agg)
      /\ keys' = keys /\ token' = token /\ outbox' = outbox /\ SameBackend
  BY <1>1, <1>2 DEF Takes, OnRejection, Arrives, SameBackend, backend
<1>4. m.t \in Targets /\ agg \in Aggregator
  BY <1>3, MessageFacts DEF TypeInv
<1>5. OneEntry(agg, agg', m.t) /\ agg'.resets = agg.resets
  BY <1>3, <1>4, RemoveTargetOne, OneEntryRefl
<1> QED BY <1>3, <1>5 DEF Rejected

\* The client takes a stale snapshot.
Passing(m) ==
  /\ Takes(m) /\ m.kind = "snapshot" /\ ~m.fresh
  /\ SameEntries(agg, agg') /\ agg'.updates = agg.updates /\ agg'.resets = agg.resets
  /\ \A u \in Targets : StateOf(agg', u).docs = StateOf(agg, u).docs
  /\ listening' = listening /\ keys' = keys /\ token' = token /\ outbox' = outbox
  /\ SameBackend

ViewTokens(m) == [t \in Targets |-> IF t \in DOMAIN m.view THEN m.view[t] ELSE NoToken]

\* The tokens of a snapshot message.
LEMMA ViewTokensType ==
  ASSUME NEW m \in Message, m.kind = "snapshot"
  PROVE  ViewTokens(m) \in [Targets -> Tokens]
<1>1. m.view \in [DOMAIN m.view -> SUBSET Keys]
  BY MessageFacts, ViewsDef
<1> QED BY <1>1 DEF ViewTokens, Tokens

\* A stale snapshot, as a step.
LEMMA StalePasses ==
  ASSUME TypeInv, OnSnapshot, ~Head(inbox).fresh
  PROVE  \E m \in Message : Passing(m)
<1>1. inbox # <<>>
  BY DEF OnSnapshot, Arrives
<1>2. PICK m \in Message : m = Head(inbox)
  BY <1>1, HeadType
<1>3. Metadata \in Metadatas /\ agg \in Aggregator
  BY MetadataType DEF TypeInv
<1>4. /\ Takes(m) /\ m.kind = "snapshot" /\ ~m.fresh /\ agg' = WithTokens(m)
      /\ listening' = listening /\ keys' = keys /\ token' = token /\ outbox' = outbox
      /\ SameBackend
  BY <1>1, <1>2 DEF Takes, OnSnapshot, Arrives, SameBackend, backend
<1>5. agg' = TargetsUnchanged(agg, Metadata, ViewTokens(m))
  BY <1>4 DEF WithTokens, ViewTokens
<1>6. ViewTokens(m) \in [Targets -> Tokens]
  BY <1>4, ViewTokensType
<1>7. /\ SameEntries(agg, agg') /\ agg'.updates = agg.updates /\ agg'.resets = agg.resets
      /\ \A u \in Targets : StateOf(agg', u).docs = StateOf(agg, u).docs
  BY <1>3, <1>5, <1>6, TokensEffect
<1> QED BY <1>4, <1>7 DEF Passing

-----------------------------------------------------------------------------
(* The targets that are watched again *)

\* Two requests for each target: where they are in the sequence.
LEMMA TwoTimes ==
  ASSUME NEW n \in Nat
  PROVE  /\ \A i \in 1..(2 * n) : i % 2 = 1 => /\ (i + 1) \div 2 \in 1..n
                                             /\ i = 2 * ((i + 1) \div 2) - 1
         /\ \A i \in 1..(2 * n) : i % 2 # 1 => i \div 2 \in 1..n /\ i = 2 * (i \div 2)
         /\ \A j \in 1..n : /\ (2 * j - 1) % 2 = 1 /\ (2 * j - 1 + 1) \div 2 = j
                            /\ (2 * j) % 2 # 1 /\ (2 * j) \div 2 = j
OBVIOUS

\* The requests of a mismatch: two for each of the targets.
LEMMA RewatchedFacts ==
  ASSUME TypeInv, NEW e, NEW ts \in SUBSET Targets, Mismatched(e) = ts
  PROVE  /\ Rewatched(e) \in Seq(Request)
         /\ \A u \in Targets : Count(Rewatched(e), RequestsFor(u)) = IF u \in ts THEN 2 ELSE 0
<1>1. IsFiniteSet(ts)
  BY FiniteAssumption, FS_Subset
<1>2. PICK s \in Seq(ts) : s = SetToSeq(ts) /\ (\A i, j \in 1..Len(s) : s[i] = s[j] => i = j)
                           /\ (\A x \in ts : \E i \in 1..Len(s) : s[i] = x)
  BY <1>1, SetToSeqFacts
<1> DEFINE n == Len(s)
           g(i) == IF i % 2 = 1 THEN UnwatchRequest(s[(i + 1) \div 2]) ELSE RewatchRequest(s[i \div 2])
           r == [i \in 1..(2 * n) |-> g(i)]
<1>3. n \in Nat /\ s \in [1..n -> ts]
  BY LenProperties
<1>4. Rewatched(e) = r
  BY <1>2 DEF Rewatched
<1> HIDE DEF n
<1>5. \A i \in 1..(2 * n) : g(i) \in Request
  <2>1. \A u \in Targets : UnwatchRequest(u) \in Request /\ RewatchRequest(u) \in Request
    BY DEF UnwatchRequest, RewatchRequest, Request, Tokens
  <2>2. \A i \in 1..(2 * n) : i % 2 = 1 => s[(i + 1) \div 2] \in Targets
    BY <1>3, TwoTimes
  <2>3. \A i \in 1..(2 * n) : i % 2 # 1 => s[i \div 2] \in Targets
    BY <1>3, TwoTimes
  <2> QED BY <2>1, <2>2, <2>3
<1>6. r \in Seq(Request) /\ Len(r) = 2 * n
  <2> HIDE DEF g
  <2>1. r \in [1..(2 * n) -> Request] /\ 2 * n \in Nat
    BY <1>3, <1>5
  <2> QED BY <2>1
<1>7. \A i \in 1..(2 * n) : g(i).t = IF i % 2 = 1 THEN s[(i + 1) \div 2] ELSE s[i \div 2]
  BY DEF UnwatchRequest, RewatchRequest
<1> HIDE DEF g
<1>8. \A i \in 1..(2 * n) : r[i] = g(i)
  OBVIOUS
<1> HIDE DEF r
<1>9. ASSUME NEW u \in Targets
      PROVE  Count(r, RequestsFor(u)) = IF u \in ts THEN 2 ELSE 0
  <2> DEFINE I == {i \in 1..Len(r) : r[i] \in RequestsFor(u)}
  <2>1. I = {i \in 1..(2 * n) : g(i).t = u}
    BY <1>5, <1>6, <1>8 DEF RequestsFor
  <2> HIDE DEF I
  <2>2. CASE u \in ts
    <3>1. PICK j \in 1..n : s[j] = u
      BY <1>2, <2>2 DEF n
    <3>2. \A k \in 1..n : s[k] = u => k = j
      BY <1>2, <3>1 DEF n
    <3>3. I = {2 * j - 1} \cup {2 * j}
      <4>1. 2 * j - 1 \in 1..(2 * n) /\ 2 * j \in 1..(2 * n)
        BY <1>3
      <4>2. 2 * j - 1 \in I /\ 2 * j \in I
        BY <1>3, <1>7, <2>1, <3>1, <4>1, TwoTimes
      <4>3. ASSUME NEW i \in I
            PROVE  i = 2 * j - 1 \/ i = 2 * j
        <5>1. i \in 1..(2 * n) /\ g(i).t = u
          BY <2>1
        <5>2. CASE i % 2 = 1
          <6>1. (i + 1) \div 2 \in 1..n /\ s[(i + 1) \div 2] = u /\ i = 2 * ((i + 1) \div 2) - 1
            BY <1>3, <1>7, <5>1, <5>2, TwoTimes
          <6>2. (i + 1) \div 2 = j
            BY <3>2, <6>1
          <6> QED BY <6>1, <6>2
        <5>3. CASE i % 2 # 1
          <6>1. i \div 2 \in 1..n /\ s[i \div 2] = u /\ i = 2 * (i \div 2)
            BY <1>3, <1>7, <5>1, <5>3, TwoTimes
          <6>2. i \div 2 = j
            BY <3>2, <6>1
          <6> QED BY <6>1, <6>2
        <5> QED BY <5>2, <5>3
      <4> QED BY <4>2, <4>3
    <3>4. ASSUME NEW a \in Nat, NEW b \in Nat, a # b
          PROVE  Cardinality({a} \cup {b}) = 2
      <4>1. Cardinality({a}) = 1 /\ IsFiniteSet({a})
        BY FS_Singleton
      <4>2. Cardinality({a} \cup {b}) = IF b \in {a} THEN Cardinality({a}) ELSE Cardinality({a}) + 1
        BY <4>1, FS_AddElement
      <4>3. b \notin {a}
        BY <3>4
      <4> QED BY <4>1, <4>2, <4>3
    <3>5. Cardinality({2 * j - 1} \cup {2 * j}) = 2
      <4>1. 2 * j - 1 \in Nat /\ 2 * j \in Nat /\ 2 * j - 1 # 2 * j
        BY <1>3
      <4> QED BY <3>4, <4>1
    <3> QED BY <2>2, <3>3, <3>5 DEF Count, I
  <2>3. CASE u \notin ts
    <3>1. I = {}
      <4> SUFFICES ASSUME NEW i \in I
                   PROVE  FALSE
        OBVIOUS
      <4>1. i \in 1..(2 * n) /\ g(i).t = u
        BY <2>1
      <4>2. g(i).t \in ts
        BY <1>3, <1>7, <4>1, TwoTimes
      <4> QED BY <2>3, <4>1, <4>2
    <3> QED BY <2>3, <3>1, FS_EmptySet DEF Count, I
  <2> QED BY <2>2, <2>3
<1> QED BY <1>4, <1>6, <1>9

-----------------------------------------------------------------------------
(* Raising a snapshot and opening the stream *)

\* The client raises the fresh snapshot m; ts are the targets that mismatch.
Raising(m) ==
  /\ Takes(m) /\ m.kind = "snapshot" /\ m.fresh
  /\ listening' = listening /\ SameBackend
  /\ keys' \in [Targets -> SUBSET Keys] /\ token' \in [Targets -> Tokens]
  /\ agg' \in Aggregator /\ agg'.resets = {}
  /\ \E ts \in SUBSET listening, r \in Seq(Request) :
       /\ ts \subseteq agg.resets /\ outbox' = outbox \o r
       /\ \A u \in Targets : Count(r, RequestsFor(u)) = IF u \in ts THEN 2 ELSE 0
       /\ DOMAIN agg'.states = DOMAIN agg.states \cup ts
       /\ \A u \in Targets : Pending(agg', u) = Pending(agg, u) + (IF u \in ts THEN 2 ELSE 0)

\* The documents and tokens after an event have their types.
LEMMA KeysAfterType ==
  ASSUME TypeInv, NEW a \in Aggregator, NEW m \in Metadatas, NEW e, e = CreateRemoteEvent(a, m),
         NEW t \in Targets
  PROVE  KeysAfter(e, t) \in SUBSET Keys /\ TokenAfter(e, t) \in Tokens
<1>1. \A u \in DOMAIN e.changes :
        /\ e.changes[u].token \in Tokens
        /\ e.changes[u].added \in SUBSET Keys /\ e.changes[u].removed \in SUBSET Keys
  BY EventFacts
<1>2. keys[t] \in SUBSET Keys /\ token[t] \in Tokens /\ NoToken \in Tokens
  BY DEF TypeInv, Tokens
<1>3. KeysAfter(e, t) \in SUBSET Keys
  BY <1>1, <1>2 DEF KeysAfter
<1>4. TokenAfter(e, t) \in Tokens
  BY <1>1, <1>2 DEF TokenAfter
<1> QED BY <1>3, <1>4

\* A fresh snapshot, as a step.
LEMMA FreshRaises ==
  ASSUME TypeInv, OnSnapshot, Head(inbox).fresh
  PROVE  \E m \in Message : Raising(m) /\ RaiseWatchSnapshot(m)
<1>1. inbox # <<>>
  BY DEF OnSnapshot, Arrives
<1>2. PICK m \in Message : m = Head(inbox)
  BY <1>1, HeadType
<1>3. PICK M \in Metadatas : M = Metadata
  BY MetadataType
<1>4. /\ Takes(m) /\ m.kind = "snapshot" /\ m.fresh /\ RaiseWatchSnapshot(m)
      /\ listening' = listening /\ SameBackend
  BY <1>1, <1>2 DEF Takes, OnSnapshot, Arrives, SameBackend, backend
<1>5. PICK a \in Aggregator : a = WithTokens(m) /\ SameEntries(agg, a) /\ a.resets = agg.resets
  <2>1. WithTokens(m) = TargetsUnchanged(agg, M, ViewTokens(m))
    BY <1>3 DEF WithTokens, ViewTokens
  <2>2. SameEntries(agg, WithTokens(m)) /\ WithTokens(m).resets = agg.resets
    BY <1>4, <2>1, ViewTokensType, TokensEffect DEF TypeInv
  <2> QED BY <2>2 DEF SameEntries
<1>6. PICK e : e = Event(m)
  OBVIOUS
<1>7. e = CreateRemoteEvent(a, M) /\ e.mismatches = agg.resets
  <2>1. e = CreateRemoteEvent(a, M)
    BY <1>3, <1>5, <1>6 DEF Event
  <2> QED BY <1>5, <2>1, EventFacts
<1>8. PICK ts \in SUBSET listening : ts = Mismatched(e) /\ ts \subseteq agg.resets
  <2>1. Mismatched(e) \in SUBSET listening /\ Mismatched(e) \subseteq agg.resets
    BY <1>7 DEF Mismatched
  <2> QED BY <2>1
<1>9. PICK b \in Aggregator : b = AfterRemoteEvent(a, M) /\ SameEntries(a, b) /\ b.resets = {}
  <2>1. SameEntries(a, AfterRemoteEvent(a, M)) /\ AfterRemoteEvent(a, M).resets = {}
    BY AfterEventEffect
  <2> QED BY <2>1 DEF SameEntries
<1>10. /\ agg' = RecordPendingTargetRequests(b, ts, 2)
       /\ outbox' = outbox \o Rewatched(e)
       /\ keys' = [t \in Targets |-> KeysAfter(e, t)]
       /\ token' = [t \in Targets |-> TokenAfter(e, t)]
  <2>1. Event(m) = e /\ AfterRemoteEvent(WithTokens(m), Metadata) = b
    BY <1>3, <1>5, <1>6, <1>9
  <2>2. Mismatched(Event(m)) = ts
    BY <1>6, <1>8
  <2> QED BY <1>4, <1>6, <2>1, <2>2 DEF RaiseWatchSnapshot
<1>11. ts \in SUBSET Targets
  BY DEF TypeInv
<1>12. /\ agg' \in Aggregator /\ agg'.resets = {}
       /\ DOMAIN agg'.states = DOMAIN agg.states \cup ts
       /\ \A u \in Targets : Pending(agg', u) = Pending(agg, u) + (IF u \in ts THEN 2 ELSE 0)
  <2>1. /\ agg' \in Aggregator
        /\ DOMAIN agg'.states = DOMAIN b.states \cup ts
        /\ agg'.resets = b.resets
        /\ \A u \in ts : Pending(agg', u) = Pending(b, u) + 2
        /\ \A u \in Targets \ ts : StateOf(agg', u) = StateOf(b, u)
    <3> DEFINE c == RecordPendingTargetRequests(b, ts, 2)
    <3>1. 2 \in Nat
      OBVIOUS
    <3>2. /\ c \in Aggregator
          /\ DOMAIN c.states = DOMAIN b.states \cup ts
          /\ c.resets = b.resets
          /\ \A u \in ts : Pending(c, u) = Pending(b, u) + 2
          /\ \A u \in Targets \ ts : StateOf(c, u) = StateOf(b, u)
      BY <1>11, <3>1, RecordFacts
    <3>3. agg' = c
      BY <1>10
    <3> HIDE DEF c
    <3> QED BY <3>2, <3>3
  <2>2. \A u \in Targets : Pending(agg, u) \in Int /\ Pending(b, u) = Pending(agg, u)
    BY <1>5, <1>9, StateOfType DEF TypeInv, SameEntries, Pending, TargetState
  <2>3. DOMAIN b.states = DOMAIN agg.states
    BY <1>5, <1>9 DEF SameEntries
  <2>4. \A u \in Targets \ ts : Pending(agg', u) = Pending(b, u)
    BY <2>1 DEF Pending
  <2> QED BY <1>9, <2>1, <2>2, <2>3, <2>4
<1>13. /\ Rewatched(e) \in Seq(Request)
       /\ \A u \in Targets : Count(Rewatched(e), RequestsFor(u)) = IF u \in ts THEN 2 ELSE 0
  BY <1>8, <1>11, RewatchedFacts
<1>14. keys' \in [Targets -> SUBSET Keys] /\ token' \in [Targets -> Tokens]
  BY <1>7, <1>10, KeysAfterType
<1>15. PICK r \in Seq(Request) : r = Rewatched(e)
  BY <1>13
<1>16. /\ outbox' = outbox \o r
       /\ \A u \in Targets : Count(r, RequestsFor(u)) = IF u \in ts THEN 2 ELSE 0
  BY <1>10, <1>13, <1>15
<1> QED BY <1>4, <1>8, <1>12, <1>14, <1>16 DEF Raising

\* The client opens the stream.
Opening ==
  /\ ~open /\ open' = TRUE
  /\ agg' \in Aggregator /\ DOMAIN agg'.states = listening /\ agg'.resets = {}
  /\ \A u \in Targets : Pending(agg', u) = IF u \in listening THEN 1 ELSE 0
  /\ outbox' \in Seq(Request)
  /\ \A i \in 1..Len(outbox') :
       outbox'[i].t \in listening /\ outbox'[i].watch /\ outbox'[i].token = token[outbox'[i].t]
  /\ \A i, j \in 1..Len(outbox') : outbox'[i].t = outbox'[j].t => i = j
  /\ \A u \in listening : \E i \in 1..Len(outbox') : outbox'[i].t = u
  /\ listening' = listening /\ keys' = keys /\ token' = token /\ inbox' = inbox
  /\ store' = store /\ served' = served /\ listens' = listens /\ setting' = setting

\* The empty sequence is the empty function.
LEMMA EmptyMap ==
  ASSUME NEW S
  PROVE  <<>> \in [DOMAIN <<>> -> S] /\ DOMAIN <<>> = {}
<1>1. <<>> \in Seq(S) /\ Len(<<>>) = 0
  BY EmptySeq
<1>2. <<>> \in [1..0 -> S] /\ DOMAIN <<>> = 1..0
  BY <1>1, LenProperties
<1>3. 1..0 = {}
  OBVIOUS
<1> QED BY <1>2, <1>3

\* A new aggregator has no entries.
LEMMA NewAggregatorType ==
  NewAggregator \in Aggregator /\ DOMAIN NewAggregator.states = {} /\ NewAggregator.resets = {}
<1>1. <<>> \in States /\ DOMAIN <<>> = {}
  BY EmptyMap, StatesDef
<1> QED BY <1>1 DEF NewAggregator, Aggregator, Updates

\* OpenStream, as a step.
LEMMA OpenOpens ==
  ASSUME TypeInv, OpenStream
  PROVE  Opening
<1> DEFINE S == {WatchRequest(t) : t \in listening}
           f == [t \in listening |-> WatchRequest(t)]
<1>1. listening \in SUBSET Targets /\ token \in [Targets -> Tokens]
  BY DEF TypeInv
<1>2. IsFiniteSet(S)
  <2>1. IsFiniteSet(listening)
    BY <1>1, FiniteAssumption, FS_Subset
  <2>2. f \in Surjection(listening, S)
    BY DEF Surjection
  <2> HIDE DEF f, S
  <2> QED BY <2>1, <2>2, FS_Surjection
<1>3. \A x \in S : x \in Request /\ x.t \in listening /\ x.watch /\ x.token = token[x.t] /\ x = WatchRequest(x.t)
  <2> SUFFICES ASSUME NEW t \in listening, NEW x, x = WatchRequest(t)
               PROVE  /\ x \in Request /\ x.t \in listening /\ x.watch
                      /\ x.token = token[x.t] /\ x = WatchRequest(x.t)
    OBVIOUS
  <2>1. t \in Targets /\ token[t] \in Tokens
    BY <1>1
  <2>2. x = [t |-> t, watch |-> TRUE, token |-> token[t]]
    BY DEF WatchRequest
  <2>3. x \in Request /\ x.t = t /\ x.watch /\ x.token = token[t]
    BY <2>1, <2>2 DEF Request
  <2> QED BY <2>3
<1>4. \A u \in listening : WatchRequest(u) \in S /\ WatchRequest(u).t = u
  BY DEF WatchRequest
<1> HIDE DEF S
<1>5. PICK s \in Seq(S) : s = SetToSeq(S) /\ (\A i, j \in 1..Len(s) : s[i] = s[j] => i = j)
                          /\ (\A x \in S : \E i \in 1..Len(s) : s[i] = x)
  BY <1>2, SetToSeqFacts
<1>6. \A i \in 1..Len(s) : s[i] \in S
  BY ElementOfSeq
<1>7. outbox' = s
  BY <1>5 DEF OpenStream, S
<1>8. s \in Seq(Request)
  BY <1>3, SeqMonotonic
<1>9. \A i, j \in 1..Len(s) : s[i].t = s[j].t => i = j
  BY <1>3, <1>5, <1>6
<1>10. \A u \in listening : \E i \in 1..Len(s) : s[i].t = u
  BY <1>4, <1>5
<1>11. \A i \in 1..Len(s) : s[i].t \in listening /\ s[i].watch /\ s[i].token = token[s[i].t]
  BY <1>3, <1>6
<1>12. /\ agg' \in Aggregator /\ DOMAIN agg'.states = listening /\ agg'.resets = {}
       /\ \A u \in Targets : Pending(agg', u) = IF u \in listening THEN 1 ELSE 0
  <2>1. agg' = RecordPendingTargetRequests(NewAggregator, listening, 1)
    BY DEF OpenStream
  <2> DEFINE a == NewAggregator
  <2>0. a \in Aggregator
    BY NewAggregatorType
  <2>2. /\ agg' \in Aggregator /\ DOMAIN agg'.states = DOMAIN a.states \cup listening
        /\ agg'.resets = a.resets
        /\ \A u \in listening : Pending(agg', u) = Pending(a, u) + 1
        /\ \A u \in Targets \ listening : StateOf(agg', u) = StateOf(a, u)
    <3>1. agg' = RecordPendingTargetRequests(a, listening, 1)
      BY <2>1
    <3>2. 1 \in Nat
      OBVIOUS
    <3> HIDE DEF a
    <3> QED BY <1>1, <2>0, <3>1, <3>2, RecordFacts
  <2>3. \A u : Pending(NewAggregator, u) = 0
    BY NewAggregatorType DEF Pending, StateOf, NewTargetState
  <2>4. \A u \in Targets \ listening : Pending(agg', u) = 0
    BY <2>2, <2>3 DEF Pending
  <2> QED BY <1>1, <2>2, <2>3, <2>4, NewAggregatorType
<1> QED BY <1>7, <1>8, <1>9, <1>10, <1>11, <1>12 DEF OpenStream, Opening, backend

-----------------------------------------------------------------------------
(* Calls, and all steps *)

\* A call of the sync engine that makes the client send the request r, if the stream
\* is open.
Asking(r) ==
  /\ r \in Request
  /\ IF open
     THEN /\ agg' \in Aggregator /\ DOMAIN agg'.states = DOMAIN agg.states \cup {r.t}
          /\ agg'.resets = agg.resets /\ agg'.updates = agg.updates
          /\ Pending(agg', r.t) = Pending(agg, r.t) + 1
          /\ \A u \in Targets \ {r.t} : StateOf(agg', u) = StateOf(agg, u)
          /\ outbox' = Append(outbox, r)
     ELSE agg' = agg /\ outbox' = outbox
  /\ keys' = keys /\ token' = token /\ open' = open /\ inbox' = inbox
  /\ store' = store /\ served' = served /\ news' = news /\ setting' = setting

Listening(r) ==
  /\ Asking(r) /\ r.watch /\ r.token = token[r.t]
  /\ r.t \notin listening /\ listening' = listening \cup {r.t}
  /\ listens[r.t] < setting.listens /\ listens' = [listens EXCEPT ![r.t] = @ + 1]

Stopping(r) ==
  /\ Asking(r) /\ ~r.watch /\ r.token = NoToken
  /\ r.t \in listening /\ listening' = listening \ {r.t} /\ listens' = listens

\* One more request for one target.
LEMMA RecordOne ==
  ASSUME NEW a \in Aggregator, NEW t \in Targets
  PROVE  LET b == RecordPendingTargetRequests(a, {t}, 1) IN
         /\ b \in Aggregator /\ DOMAIN b.states = DOMAIN a.states \cup {t}
         /\ b.resets = a.resets /\ b.updates = a.updates
         /\ Pending(b, t) = Pending(a, t) + 1
         /\ \A u \in Targets \ {t} : StateOf(b, u) = StateOf(a, u)
<1>1. PICK ts \in SUBSET Targets : ts = {t}
  OBVIOUS
<1> DEFINE b == RecordPendingTargetRequests(a, ts, 1)
<1>2. /\ b \in Aggregator /\ DOMAIN b.states = DOMAIN a.states \cup ts
      /\ b.resets = a.resets /\ b.updates = a.updates
      /\ \A u \in ts : Pending(b, u) = Pending(a, u) + 1
      /\ \A u \in Targets \ ts : StateOf(b, u) = StateOf(a, u)
  <2>1. 1 \in Nat
    OBVIOUS
  <2> QED BY <2>1, RecordFacts
<1> QED BY <1>1, <1>2

\* A call that sends a request, as a step.
LEMMA RequestAsks ==
  ASSUME TypeInv, NEW t \in Targets, NEW r \in Request, r.t = t,
         agg' = IF open THEN RecordPendingTargetRequests(agg, {t}, 1) ELSE agg,
         outbox' = IF open THEN Append(outbox, r) ELSE outbox,
         UNCHANGED <<keys, token, open, inbox, backend, setting>>
  PROVE  Asking(r)
<1>1. CASE open
  <2>1. agg' = RecordPendingTargetRequests(agg, {t}, 1) /\ outbox' = Append(outbox, r)
    BY <1>1
  <2>2. /\ agg' \in Aggregator /\ DOMAIN agg'.states = DOMAIN agg.states \cup {t}
        /\ agg'.resets = agg.resets /\ agg'.updates = agg.updates
        /\ Pending(agg', t) = Pending(agg, t) + 1
        /\ \A u \in Targets \ {t} : StateOf(agg', u) = StateOf(agg, u)
    <3>1. agg \in Aggregator
      BY DEF TypeInv
    <3> DEFINE b == RecordPendingTargetRequests(agg, {t}, 1)
    <3>2. /\ b \in Aggregator /\ DOMAIN b.states = DOMAIN agg.states \cup {t}
          /\ b.resets = agg.resets /\ b.updates = agg.updates
          /\ Pending(b, t) = Pending(agg, t) + 1
          /\ \A u \in Targets \ {t} : StateOf(b, u) = StateOf(agg, u)
      BY <3>1, RecordOne
    <3>3. agg' = b
      BY <2>1
    <3> HIDE DEF b
    <3> QED BY <3>2, <3>3
  <2>3. /\ keys' = keys /\ token' = token /\ open' = open /\ inbox' = inbox
        /\ store' = store /\ served' = served /\ news' = news /\ setting' = setting
    BY DEF backend
  <2> QED BY <1>1, <2>1, <2>2, <2>3 DEF Asking
<1>2. CASE ~open
  BY <1>2 DEF Asking, backend
<1> QED BY <1>1, <1>2 DEF TypeInv

\* Listen, as a step.
LEMMA ListenAsks ==
  ASSUME TypeInv, NEW t \in Targets, Listen(t)
  PROVE  \E r \in Request : Listening(r)
<1>1. PICK r \in Request : r = WatchRequest(t)
  BY DEF WatchRequest, Request, TypeInv
<1>2. r.t = t /\ r.watch /\ r.token = token[t]
  BY <1>1 DEF WatchRequest
<1>3. Asking(r)
  <2>1. /\ agg' = IF open THEN RecordPendingTargetRequests(agg, {t}, 1) ELSE agg
        /\ outbox' = IF open THEN Append(outbox, r) ELSE outbox
        /\ UNCHANGED <<keys, token, open, inbox, backend, setting>>
    BY <1>1 DEF Listen
  <2> QED BY <1>2, <2>1, RequestAsks
<1>4. /\ t \notin listening /\ listening' = listening \cup {t}
      /\ listens[t] < setting.listens /\ listens' = [listens EXCEPT ![t] = @ + 1]
  BY DEF Listen
<1> QED BY <1>2, <1>3, <1>4 DEF Listening

\* StopListening, as a step.
LEMMA StopAsks ==
  ASSUME TypeInv, NEW t \in Targets, StopListening(t)
  PROVE  \E r \in Request : Stopping(r)
<1>1. PICK r \in Request : r = UnwatchRequest(t)
  BY DEF UnwatchRequest, Request, Tokens
<1>2. r.t = t /\ ~r.watch /\ r.token = NoToken
  BY <1>1 DEF UnwatchRequest
<1>3. Asking(r)
  <2>1. /\ agg' = IF open THEN RecordPendingTargetRequests(agg, {t}, 1) ELSE agg
        /\ outbox' = IF open THEN Append(outbox, r) ELSE outbox
        /\ UNCHANGED <<keys, token, open, inbox, backend, setting>>
    BY <1>1 DEF StopListening
  <2> QED BY <1>2, <2>1, RequestAsks
<1>4. t \in listening /\ listening' = listening \ {t} /\ listens' = listens
  BY DEF StopListening
<1> QED BY <1>2, <1>3, <1>4 DEF Stopping

\* The stream breaks.
Breaking ==
  /\ open /\ open' = FALSE /\ agg' \in Aggregator /\ agg'.resets = {}
  /\ DOMAIN agg'.states = {}
  /\ outbox' = <<>> /\ inbox' = <<>> /\ served' = <<>> /\ news' = FALSE
  /\ listening' = listening /\ keys' = keys /\ token' = token
  /\ store' = store /\ listens' = listens /\ SettingStep

\* BreakStream, as a step.
LEMMA BreakBreaks ==
  ASSUME TypeInv, BreakStream
  PROVE  Breaking
<1>1. agg' = NewAggregator /\ Spend("breaks") /\ open /\ open' = FALSE
      /\ outbox' = <<>> /\ inbox' = <<>> /\ served' = <<>> /\ news' = FALSE
      /\ listening' = listening /\ keys' = keys /\ token' = token
      /\ store' = store /\ listens' = listens
  BY DEF BreakStream
<1>2. SettingStep
  BY <1>1, SpendFacts DEF SettingStep, TypeInv
<1> QED BY <1>1, <1>2, NewAggregatorType DEF Breaking

\* Another client writes a document.
Writing ==
  /\ store' \in SUBSET Keys
  /\ listening' = listening /\ keys' = keys /\ token' = token /\ agg' = agg
  /\ open' = open /\ outbox' = outbox /\ inbox' = inbox /\ served' = served
  /\ news' = news /\ listens' = listens /\ SettingStep

\* WriteDocument, as a step.
LEMMA WriteWrites ==
  ASSUME TypeInv, NEW k \in Keys, WriteDocument(k)
  PROVE  Writing
<1>1. SettingStep
  BY SpendFacts DEF SettingStep, TypeInv, WriteDocument
<1>2. store' \in SUBSET Keys
  BY DEF TypeInv, WriteDocument
<1> QED BY <1>1, <1>2 DEF Writing, WriteDocument, client

Stutters ==
  /\ listening' = listening /\ keys' = keys /\ token' = token /\ agg' = agg
  /\ open' = open /\ outbox' = outbox /\ inbox' = inbox /\ store' = store
  /\ served' = served /\ news' = news /\ listens' = listens /\ setting' = setting

\* Every step is one of these.
Steps ==
  \/ \E r \in Request : Listening(r)
  \/ \E r \in Request : Stopping(r)
  \/ Opening
  \/ Breaking
  \/ \E m \in Message : Handling(m)
  \/ \E m \in Message : Rejected(m)
  \/ \E m \in Message : Passing(m)
  \/ \E m \in Message : Raising(m) /\ RaiseWatchSnapshot(m)
  \/ \E m \in Message : Telling(m) /\ Sends(m)
  \/ \E r \in Request, m \in Message : Answering(r, m)
  \/ \E r \in Request, m \in Message : Refusing(r, m)
  \/ \E m \in Message : Snapshotting(m)
  \/ Writing
  \/ Stutters

\* Every action is one of the steps.
LEMMA NextSteps ==
  ASSUME TypeInv, [Next]_vars
  PROVE  Steps
<1>1. ASSUME NEW t \in Targets, Listen(t) \/ StopListening(t)
      PROVE  Steps
  BY <1>1, ListenAsks, StopAsks DEF Steps
<1>2. CASE OpenStream
  BY <1>2, OpenOpens DEF Steps
<1>3. CASE BreakStream
  BY <1>3, BreakBreaks DEF Steps
<1>4. CASE OnDocument
  BY <1>4, DocumentHandled DEF Steps
<1>5. CASE OnTargetChange
  BY <1>5, TargetChangeHandled DEF Steps
<1>6. CASE OnFilter
  BY <1>6, FilterHandled DEF Steps
<1>7. CASE OnRejection
  BY <1>7, RejectionTaken DEF Steps
<1>8. CASE OnSnapshot
  BY <1>8, StalePasses, FreshRaises DEF Steps
<1>9. CASE Backend
  <2>1. \A m : Sends(m) => m \in Message
    BY DEF Sends
  <2>2. CASE \E m : Telling(m) /\ Sends(m)
    BY <2>1, <2>2 DEF Steps
  <2>3. CASE \E r \in Request : \E m : Answering(r, m)
    BY <2>1, <2>3 DEF Steps, Answering
  <2>4. CASE \E r \in Request : \E m : Refusing(r, m)
    BY <2>1, <2>4 DEF Steps, Refusing
  <2>5. CASE \E m : Snapshotting(m)
    BY <2>1, <2>5 DEF Steps, Snapshotting
  <2> QED BY <1>9, <2>2, <2>3, <2>4, <2>5, BackendSends
<1>10. ASSUME NEW k \in Keys, WriteDocument(k)
       PROVE  Steps
  BY <1>10, WriteWrites DEF Steps
<1>11. CASE UNCHANGED vars
  BY <1>11 DEF vars, Steps, Stutters
<1> QED BY <1>1, <1>2, <1>3, <1>4, <1>5, <1>6, <1>7, <1>8, <1>9, <1>10, <1>11 DEF Next, Receive

-----------------------------------------------------------------------------
(* Types *)

\* Sequences keep their element type.
LEMMA SeqFacts ==
  ASSUME NEW T, NEW s \in Seq(T)
  PROVE  /\ \A e \in T : Append(s, e) \in Seq(T)
         /\ \A r \in Seq(T) : s \o r \in Seq(T)
         /\ s # <<>> => Tail(s) \in Seq(T)
BY AppendProperties, ConcatProperties, HeadTailProperties

\* The types hold at first.
LEMMA InitType == Init => TypeInv
<1> SUFFICES ASSUME Init
             PROVE  TypeInv
  OBVIOUS
<1>1. setting \in SettingType
  BY BoundAssumption DEF Init, SettingType
<1>2. keys \in [Targets -> SUBSET Keys] /\ listens \in [Targets -> Nat]
      /\ listening \in SUBSET Targets /\ open \in BOOLEAN
  BY DEF Init
<1>3. token \in [Targets -> Tokens]
  BY DEF Init, Tokens
<1>4. agg \in Aggregator
  BY NewAggregatorType DEF Init
<1>5. outbox \in Seq(Request) /\ inbox \in Seq(Message)
  BY EmptySeq DEF Init
<1>6. store \in SUBSET Keys
  BY <1>1 DEF Init, SettingType
<1>7. served \in Serveds
  <2>1. <<>> \in [DOMAIN <<>> -> ServedState] /\ DOMAIN <<>> = {}
    BY EmptyMap
  <2> QED BY <2>1, ServedsDef DEF Init
<1> QED BY <1>1, <1>2, <1>3, <1>4, <1>5, <1>6, <1>7 DEF TypeInv

\* Every step keeps the types.
LEMMA TypeStep ==
  ASSUME TypeInv, Steps
  PROVE  TypeInv'
<1>0. /\ listening \in SUBSET Targets /\ keys \in [Targets -> SUBSET Keys]
      /\ token \in [Targets -> Tokens] /\ agg \in Aggregator /\ open \in BOOLEAN
      /\ outbox \in Seq(Request) /\ inbox \in Seq(Message) /\ store \in SUBSET Keys
      /\ served \in Serveds /\ listens \in [Targets -> Nat] /\ setting \in SettingType
  BY DEF TypeInv
<1> DEFINE Goal ==
      /\ listening' \in SUBSET Targets /\ keys' \in [Targets -> SUBSET Keys]
      /\ token' \in [Targets -> Tokens] /\ agg' \in Aggregator /\ open' \in BOOLEAN
      /\ outbox' \in Seq(Request) /\ inbox' \in Seq(Message) /\ store' \in SUBSET Keys
      /\ served' \in Serveds /\ listens' \in [Targets -> Nat] /\ setting' \in SettingType
<1> SUFFICES Goal
  BY DEF TypeInv
<1>1. ASSUME NEW r \in Request, Asking(r)
      PROVE  /\ keys' \in [Targets -> SUBSET Keys]
             /\ token' \in [Targets -> Tokens] /\ agg' \in Aggregator /\ open' \in BOOLEAN
             /\ outbox' \in Seq(Request) /\ inbox' \in Seq(Message) /\ store' \in SUBSET Keys
             /\ served' \in Serveds /\ setting' \in SettingType
  BY <1>0, <1>1, SeqFacts DEF Asking
<1>2. ASSUME NEW r \in Request, Listening(r)
      PROVE  Goal
  <2>1. listening' \in SUBSET Targets
    BY <1>0, <1>2 DEF Listening, Request
  <2>2. listens' \in [Targets -> Nat]
    <3>1. r.t \in Targets
      BY DEF Request
    <3> QED BY <1>0, <1>2, <3>1 DEF Listening
  <2> QED BY <1>1, <1>2, <2>1, <2>2 DEF Listening
<1>3. ASSUME NEW r \in Request, Stopping(r)
      PROVE  Goal
  BY <1>0, <1>1, <1>3 DEF Stopping
<1>4. CASE Opening
  BY <1>0, <1>4 DEF Opening
<1>5. CASE Breaking
  <2>1. <<>> \in [DOMAIN <<>> -> ServedState] /\ DOMAIN <<>> = {}
    BY EmptyMap
  <2>2. served' \in Serveds
    BY <1>5, <2>1, ServedsDef DEF Breaking
  <2>3. outbox' \in Seq(Request) /\ inbox' \in Seq(Message)
    BY <1>5, EmptySeq DEF Breaking
  <2> QED BY <1>0, <1>5, <2>2, <2>3 DEF Breaking, SettingStep
<1>6. ASSUME NEW m \in Message, Takes(m)
      PROVE  inbox' \in Seq(Message)
  BY <1>0, <1>6, SeqFacts DEF Takes
<1>7. ASSUME NEW m \in Message, Handling(m)
      PROVE  Goal
  BY <1>0, <1>6, <1>7 DEF Handling, OneEntry, SameBackend
<1>8. ASSUME NEW m \in Message, Rejected(m)
      PROVE  Goal
  BY <1>0, <1>6, <1>8 DEF Rejected, OneEntry, SameBackend
<1>9. ASSUME NEW m \in Message, Passing(m)
      PROVE  Goal
  BY <1>0, <1>6, <1>9 DEF Passing, SameEntries, SameBackend
<1>10. ASSUME NEW m \in Message, Raising(m)
       PROVE  Goal
  <2>1. outbox' \in Seq(Request)
    BY <1>0, <1>10, SeqFacts DEF Raising
  <2> QED BY <1>0, <1>6, <1>10, <2>1 DEF Raising, SameBackend
<1>11. ASSUME NEW m \in Message, Sends(m), outbox' = outbox \/ (outbox # <<>> /\ outbox' = Tail(outbox))
       PROVE  Goal
  <2>1. outbox' \in Seq(Request) /\ inbox' \in Seq(Message)
    BY <1>0, <1>11, SeqFacts DEF Sends
  <2> QED BY <1>0, <1>11, <2>1 DEF Sends, SameClient, SettingStep
<1>12. CASE Writing
  BY <1>0, <1>12 DEF Writing, SettingStep
<1>13. CASE Stutters
  BY <1>0, <1>13 DEF Stutters
<1> QED
  BY <1>2, <1>3, <1>4, <1>5, <1>7, <1>8, <1>9, <1>10, <1>11, <1>12, <1>13
     DEF Steps, Telling, Answering, Refusing, Snapshotting

\* The aggregator, the listens and the tokens keep their types, whatever the backend
\* sends.
THEOREM WatchProtocolTypes == Spec => []TypeOK
<1>1. TypeInv /\ [Next]_vars => TypeInv'
  BY NextSteps, TypeStep
<1>2. TypeInv => TypeOK
  <2> SUFFICES ASSUME TypeInv
               PROVE  TypeOK
    OBVIOUS
  <2>1. agg.states \in [DOMAIN agg.states -> TargetState] /\ DOMAIN agg.states \subseteq Targets
    BY StatesDef DEF TypeInv, Aggregator
  <2> QED BY <2>1 DEF TypeInv, Aggregator, TypeOK
<1> QED BY <1>1, <1>2, InitType, PTL DEF Spec

-----------------------------------------------------------------------------
(* What is under way about a target *)

RejectionsFor(t) == {m \in Message : m.kind = "rejected" /\ m.t = t}
MessagesFor(t)   == {m \in Message : m.kind # "snapshot" /\ m.t = t}

Requests(t)   == Count(outbox, RequestsFor(t))
Answers(t)    == Count(inbox, AnswersFor(t))
Rejections(t) == Count(inbox, RejectionsFor(t))
Messages(t)   == Count(inbox, MessagesFor(t))

One(b) == IF b THEN 1 ELSE 0
AnswersTo(m, t)  == m.kind \in {"added", "removed"} /\ m.t = t
Rejects(m, t)    == m.kind = "rejected" /\ m.t = t
IsAbout(m, t)    == m.kind # "snapshot" /\ m.t = t

\* What is counted about a target, and what a count of 0 says.
LEMMA CountsType ==
  ASSUME TypeInv, NEW t \in Targets
  PROVE  /\ Requests(t) \in Nat /\ Answers(t) \in Nat /\ Rejections(t) \in Nat /\ Messages(t) \in Nat
         /\ Messages(t) = 0 => Answers(t) = 0 /\ Rejections(t) = 0
         /\ Messages(t) = 0 <=> \A i \in 1..Len(inbox) : ~IsAbout(inbox[i], t)
         /\ Requests(t) = 0 <=> \A i \in 1..Len(outbox) : outbox[i].t # t
         /\ Rejections(t) = 0 <=> \A i \in 1..Len(inbox) : ~Rejects(inbox[i], t)
<1>1. outbox \in Seq(Request) /\ inbox \in Seq(Message)
  BY DEF TypeInv
<1>2. /\ Requests(t) \in Nat /\ Answers(t) \in Nat /\ Rejections(t) \in Nat /\ Messages(t) \in Nat
      /\ Requests(t) = 0 <=> \A i \in 1..Len(outbox) : outbox[i] \notin RequestsFor(t)
      /\ Answers(t) = 0 <=> \A i \in 1..Len(inbox) : inbox[i] \notin AnswersFor(t)
      /\ Rejections(t) = 0 <=> \A i \in 1..Len(inbox) : inbox[i] \notin RejectionsFor(t)
      /\ Messages(t) = 0 <=> \A i \in 1..Len(inbox) : inbox[i] \notin MessagesFor(t)
  BY <1>1, CountType DEF Requests, Answers, Rejections, Messages
<1>3. /\ \A i \in 1..Len(outbox) : outbox[i] \in Request
      /\ \A i \in 1..Len(inbox) : inbox[i] \in Message
  BY <1>1, ElementOfSeq
<1>4. AnswersFor(t) \subseteq MessagesFor(t) /\ RejectionsFor(t) \subseteq MessagesFor(t)
  BY DEF AnswersFor, RejectionsFor, MessagesFor
<1>5. Messages(t) = 0 => Answers(t) = 0 /\ Rejections(t) = 0
  BY <1>2, <1>4
<1>6. Messages(t) = 0 <=> \A i \in 1..Len(inbox) : ~IsAbout(inbox[i], t)
  BY <1>2, <1>3 DEF MessagesFor, IsAbout
<1>7. Requests(t) = 0 <=> \A i \in 1..Len(outbox) : outbox[i].t # t
  BY <1>2, <1>3 DEF RequestsFor
<1>8. Rejections(t) = 0 <=> \A i \in 1..Len(inbox) : ~Rejects(inbox[i], t)
  BY <1>2, <1>3 DEF RejectionsFor, Rejects
<1> QED BY <1>2, <1>5, <1>6, <1>7, <1>8

\* AnswersDue and IsRejected, as counts.
LEMMA DueIsCounted ==
  ASSUME TypeInv, NEW t \in Targets
  PROVE  /\ AnswersDue(t) = Requests(t) + Answers(t)
         /\ IsRejected(t) <=> Rejections(t) # 0
<1>1. /\ \A i \in 1..Len(outbox) : outbox[i] \in Request
      /\ \A i \in 1..Len(inbox) : inbox[i] \in Message
  BY ElementOfSeq DEF TypeInv
<1>2. {i \in 1..Len(outbox) : outbox[i].t = t} = {i \in 1..Len(outbox) : outbox[i] \in RequestsFor(t)}
  BY <1>1 DEF RequestsFor
<1>3. {i \in 1..Len(inbox) : inbox[i].kind \in {"added", "removed"} /\ inbox[i].t = t}
        = {i \in 1..Len(inbox) : inbox[i] \in AnswersFor(t)}
  BY <1>1 DEF AnswersFor
<1>4. AnswersDue(t) = Requests(t) + Answers(t)
  BY <1>2, <1>3 DEF AnswersDue, Requests, Answers, Count
<1>5. IsRejected(t) <=> Rejections(t) # 0
  BY CountsType DEF IsRejected, Rejects
<1> QED BY <1>4, <1>5

\* The counts once the client has taken a message.
LEMMA TakesCounts ==
  ASSUME TypeInv, NEW m \in Message, Takes(m), NEW t \in Targets
  PROVE  /\ Answers(t) = One(AnswersTo(m, t)) + Answers(t)'
         /\ Rejections(t) = One(Rejects(m, t)) + Rejections(t)'
         /\ Messages(t) = One(IsAbout(m, t)) + Messages(t)'
<1>1. inbox \in Seq(Message) /\ inbox # <<>> /\ m = Head(inbox) /\ inbox' = Tail(inbox)
  BY DEF TypeInv, Takes
<1>2. /\ m \in AnswersFor(t) <=> AnswersTo(m, t)
      /\ m \in RejectionsFor(t) <=> Rejects(m, t)
      /\ m \in MessagesFor(t) <=> IsAbout(m, t)
  BY DEF AnswersFor, AnswersTo, RejectionsFor, Rejects, MessagesFor, IsAbout
<1>3. \A S : Count(inbox, S) = (IF m \in S THEN 1 ELSE 0) + Count(inbox', S)
  BY <1>1, CountTail
<1> QED BY <1>2, <1>3 DEF Answers, Rejections, Messages, One

\* The counts once the backend has sent a message.
LEMMA SendsCounts ==
  ASSUME TypeInv, NEW m, Sends(m), NEW t \in Targets
  PROVE  /\ Answers(t)' = Answers(t) + One(AnswersTo(m, t))
         /\ Rejections(t)' = Rejections(t) + One(Rejects(m, t))
         /\ Messages(t)' = Messages(t) + One(IsAbout(m, t))
<1>1. inbox \in Seq(Message) /\ inbox' = Append(inbox, m) /\ m \in Message
  BY DEF TypeInv, Sends
<1>2. /\ m \in AnswersFor(t) <=> AnswersTo(m, t)
      /\ m \in RejectionsFor(t) <=> Rejects(m, t)
      /\ m \in MessagesFor(t) <=> IsAbout(m, t)
  BY <1>1 DEF AnswersFor, AnswersTo, RejectionsFor, Rejects, MessagesFor, IsAbout
<1>3. \A S : Count(inbox', S) = Count(inbox, S) + (IF m \in S THEN 1 ELSE 0)
  BY <1>1, CountAppend
<1> QED BY <1>2, <1>3 DEF Answers, Rejections, Messages, One

\* The count of requests after a request is sent or answered.
LEMMA RequestCounts ==
  ASSUME TypeInv, NEW r \in Request, NEW t \in Targets
  PROVE  /\ outbox' = Append(outbox, r) => Requests(t)' = Requests(t) + One(r.t = t)
         /\ outbox # <<>> /\ r = Head(outbox) /\ outbox' = Tail(outbox)
              => Requests(t) = One(r.t = t) + Requests(t)'
<1>1. outbox \in Seq(Request)
  BY DEF TypeInv
<1>2. r \in RequestsFor(t) <=> r.t = t
  BY DEF RequestsFor
<1>3. ASSUME outbox' = Append(outbox, r)
      PROVE  Requests(t)' = Requests(t) + One(r.t = t)
  BY <1>1, <1>2, <1>3, CountAppend DEF Requests, One
<1>4. ASSUME outbox # <<>>, r = Head(outbox), outbox' = Tail(outbox)
      PROVE  Requests(t) = One(r.t = t) + Requests(t)'
  BY <1>1, <1>2, <1>4, CountTail DEF Requests, One
<1> QED BY <1>3, <1>4

-----------------------------------------------------------------------------
(* The invariant behind the count of the requests *)

\* Nothing is under way on a closed stream.
Closed == ~open => outbox = <<>> /\ inbox = <<>> /\ DOMAIN served = {} /\ ~news

\* A target that was never listened to left no trace.
Untouched(t) ==
  /\ t \notin listening /\ t \notin DOMAIN agg.states /\ t \notin DOMAIN served
  /\ Requests(t) = 0 /\ Messages(t) = 0

Traces ==
  \A t \in Targets : listens[t] <= setting.listens /\ (listens[t] = 0 => Untouched(t))

\* Targets are listened to once, or none is ever rejected.
Rejecting ==
  \/ setting.listens <= 1
  \/ setting.rejections = 0 /\ \A t \in Targets : Rejections(t) = 0

\* The client listens to t, or may do so again.
Sure(t) == t \in listening \/ listens[t] < setting.listens

Counted ==
  open => \A t \in Targets : Sure(t) =>
    /\ Pending(agg, t) >= Requests(t) + Answers(t)
    /\ Rejections(t) = 0 => Pending(agg, t) = Requests(t) + Answers(t)

CountInv == TypeInv /\ Closed /\ Traces /\ Rejecting /\ Counted

\* Every step keeps Closed.
LEMMA ClosedStep ==
  ASSUME TypeInv, Closed, Steps
  PROVE  Closed'
<1> SUFFICES ASSUME ~open'
             PROVE  outbox' = <<>> /\ inbox' = <<>> /\ DOMAIN served' = {} /\ ~news'
  BY DEF Closed
<1>1. CASE Breaking
  BY <1>1, EmptyMap DEF Breaking
<1>2. CASE ~Breaking
  <2>1. open' = open \/ open'
    BY <1>2 DEF Steps, Listening, Stopping, Asking, Opening, Handling, Rejected, Passing, Raising,
                SameBackend, Telling, Answering, Refusing, Snapshotting, Sends, SameClient,
                Writing, Stutters
  <2>2. ~open /\ outbox = <<>> /\ inbox = <<>> /\ DOMAIN served = {} /\ ~news
    BY <2>1 DEF Closed
  <2>3. outbox' = outbox /\ inbox' = inbox /\ served' = served /\ news' = news
    BY <1>2, <2>2
       DEF Steps, Listening, Stopping, Asking, Opening, Handling, Rejected, Passing, Raising,
           Takes, Telling, Answering, Refusing, Snapshotting, Writing, Stutters
  <2> QED BY <2>2, <2>3
<1> QED BY <1>1, <1>2

\* A mismatch sends two requests, and counts two.
LEMMA RaisingCounts ==
  ASSUME TypeInv, NEW m \in Message, Raising(m)
  PROVE  \E ts \in SUBSET listening :
           /\ DOMAIN agg'.states = DOMAIN agg.states \cup ts
           /\ \A t \in Targets :
                /\ Requests(t)' = Requests(t) + (IF t \in ts THEN 2 ELSE 0)
                /\ Pending(agg', t) = Pending(agg, t) + (IF t \in ts THEN 2 ELSE 0)
<1>1. PICK ts \in SUBSET listening, r \in Seq(Request) :
        /\ outbox' = outbox \o r
        /\ \A u \in Targets : Count(r, RequestsFor(u)) = IF u \in ts THEN 2 ELSE 0
        /\ DOMAIN agg'.states = DOMAIN agg.states \cup ts
        /\ \A u \in Targets : Pending(agg', u) = Pending(agg, u) + (IF u \in ts THEN 2 ELSE 0)
  BY DEF Raising
<1>2. outbox \in Seq(Request)
  BY DEF TypeInv
<1>3. \A u \in Targets : Count(outbox', RequestsFor(u)) = Count(outbox, RequestsFor(u)) + Count(r, RequestsFor(u))
  BY <1>1, <1>2, CountConcat
<1> QED BY <1>1, <1>3 DEF Requests

\* An opened stream has one request for each target listened to.
LEMMA OpeningCounts ==
  ASSUME TypeInv, Opening, NEW t \in Targets
  PROVE  Requests(t)' = IF t \in listening THEN 1 ELSE 0
<1> DEFINE I == {i \in 1..Len(outbox') : outbox'[i] \in RequestsFor(t)}
<1>1. /\ outbox' \in Seq(Request)
      /\ \A i \in 1..Len(outbox') : outbox'[i].t \in listening
      /\ \A i, j \in 1..Len(outbox') : outbox'[i].t = outbox'[j].t => i = j
      /\ \A u \in listening : \E i \in 1..Len(outbox') : outbox'[i].t = u
  BY DEF Opening
<1>2. \A i \in 1..Len(outbox') : outbox'[i] \in Request
  BY <1>1, ElementOfSeq
<1>3. I = {i \in 1..Len(outbox') : outbox'[i].t = t}
  BY <1>2 DEF RequestsFor
<1>4. Requests(t)' = Cardinality(I)
  BY DEF Requests, Count
<1> HIDE DEF I
<1>5. CASE t \in listening
  <2>1. PICK i \in 1..Len(outbox') : outbox'[i].t = t
    BY <1>1, <1>5
  <2>2. I = {i}
    BY <1>1, <1>3, <2>1
  <2> QED BY <1>4, <1>5, <2>2, FS_Singleton
<1>6. CASE t \notin listening
  <2>1. I = {}
    BY <1>1, <1>3, <1>6
  <2> QED BY <1>4, <1>6, <2>1, FS_EmptySet
<1> QED BY <1>5, <1>6

\* Calls and answers move requests and messages of one target.
LEMMA SameOutbox ==
  ASSUME NEW t, outbox' = outbox
  PROVE  Requests(t)' = Requests(t)
BY DEF Requests

\* The counts of the messages depend on the inbox alone.
LEMMA SameInbox ==
  ASSUME NEW t, inbox' = inbox
  PROVE  Answers(t)' = Answers(t) /\ Rejections(t)' = Rejections(t) /\ Messages(t)' = Messages(t)
BY DEF Answers, Rejections, Messages

\* No step changes the bound on the listens.
LEMMA SettingSteps ==
  ASSUME TypeInv, Steps
  PROVE  SettingStep
BY DEF TypeInv, Steps, Listening, Stopping, Asking, Opening, Breaking, Handling, Rejected, Passing,
       Raising, SameBackend, Telling, Answering, Refusing, Snapshotting, Sends, Writing, Stutters,
       SettingStep

\* The counts after a step are numbers.
LEMMA NextCounts ==
  ASSUME TypeInv, Steps, NEW t \in Targets
  PROVE  /\ Requests(t)' \in Nat /\ Answers(t)' \in Nat
         /\ Rejections(t)' \in Nat /\ Messages(t)' \in Nat
<1>1. outbox' \in Seq(Request) /\ inbox' \in Seq(Message)
  BY TypeStep DEF TypeInv
<1> QED BY <1>1, CountType DEF Requests, Answers, Rejections, Messages

\* Every step keeps Rejecting.
LEMMA RejectingStep ==
  ASSUME TypeInv, Rejecting, Steps
  PROVE  Rejecting'
<1>1. setting'.listens = setting.listens /\ (setting.rejections = 0 => setting'.rejections = 0)
  BY SettingSteps DEF SettingStep
<1>2. CASE setting.listens <= 1
  BY <1>1, <1>2 DEF Rejecting
<1>3. CASE ~(setting.listens <= 1)
  <2>1. setting.rejections = 0 /\ \A t \in Targets : Rejections(t) = 0
    BY <1>3 DEF Rejecting
  <2> SUFFICES ASSUME NEW t \in Targets
               PROVE  Rejections(t)' = 0
    BY <1>1, <2>1 DEF Rejecting
  <2>2. CASE inbox' = inbox
    BY <2>1, <2>2, SameInbox
  <2>3. ASSUME NEW m \in Message, Takes(m)
        PROVE  Rejections(t)' = 0
    <3>1. Rejections(t) = One(Rejects(m, t)) + Rejections(t)'
      BY <2>3, TakesCounts
    <3>2. Rejections(t)' \in Nat
      BY NextCounts
    <3> QED BY <2>1, <3>1, <3>2 DEF One
  <2>4. ASSUME NEW m \in Message, Sends(m)
        PROVE  Rejections(t)' = 0
    <3>1. Rejections(t)' = Rejections(t) + One(Rejects(m, t))
      BY <2>4, SendsCounts
    <3>2. ~Rejects(m, t)
      BY <2>1, <2>4 DEF Sends, Rejects
    <3> QED BY <2>1, <3>1, <3>2 DEF One
  <2>5. CASE inbox' = <<>>
    BY <2>5, CountEmpty DEF Rejections
  <2> QED BY <2>2, <2>3, <2>4, <2>5
     DEF Steps, Listening, Stopping, Asking, Opening, Breaking, Handling, Rejected, Passing,
         Raising, Telling, Answering, Refusing, Snapshotting, Writing, Stutters
<1> QED BY <1>2, <1>3

\* Every step keeps Traces.
LEMMA TracesStep ==
  ASSUME TypeInv, Closed, Traces, Steps
  PROVE  Traces'
<1> SUFFICES ASSUME NEW t \in Targets
             PROVE  /\ listens'[t] <= setting'.listens
                    /\ listens'[t] = 0 => Untouched(t)'
  BY DEF Traces
<1>1. listens[t] \in Nat /\ listens[t] <= setting.listens /\ setting.listens \in Nat
      /\ (listens[t] = 0 => Untouched(t)) /\ setting'.listens = setting.listens
  BY SettingSteps DEF Traces, TypeInv, SettingStep, SettingType
<1>2. ASSUME NEW r \in Request, Listening(r)
      PROVE  \/ listens'[t] = listens[t] /\ r.t # t
             \/ listens'[t] <= setting.listens /\ listens'[t] # 0
  BY <1>1, <1>2 DEF Listening, TypeInv
<1>3. \/ listens'[t] = listens[t]
      \/ \E r \in Request : Listening(r) /\ listens'[t] <= setting.listens /\ listens'[t] # 0
  BY <1>2 DEF Steps, Stopping, Opening, Breaking, Handling, Rejected, Passing, SameBackend,
              Raising, Telling, Answering, Refusing, Snapshotting, Sends, SameClient, Writing, Stutters
<1>4. CASE listens'[t] # 0
  BY <1>1, <1>3, <1>4
<1>5. CASE listens'[t] = 0
  <2> SUFFICES Untouched(t)'
    BY <1>1, <1>5
  <2>1. listens[t] = 0 /\ Untouched(t)
    BY <1>1, <1>3, <1>5
  <2>2. /\ t \notin listening /\ t \notin DOMAIN agg.states /\ t \notin DOMAIN served
        /\ Requests(t) = 0 /\ Messages(t) = 0
    BY <2>1 DEF Untouched
  <2> DEFINE Goal ==
        /\ t \notin listening' /\ t \notin DOMAIN agg'.states /\ t \notin DOMAIN served'
        /\ Requests(t)' = 0 /\ Messages(t)' = 0
  <2> SUFFICES Goal
    BY DEF Untouched
  <2>3. Requests(t)' \in Nat /\ Messages(t)' \in Nat
    BY NextCounts
  <2>4. ASSUME NEW r \in Request, r.t # t, Asking(r)
        PROVE  /\ t \notin DOMAIN agg'.states /\ t \notin DOMAIN served'
               /\ Requests(t)' = 0 /\ Messages(t)' = 0
    BY <2>2, <2>4, SameOutbox, SameInbox, RequestCounts DEF Asking, One
  <2>5. ASSUME NEW r \in Request, Listening(r)
        PROVE  Goal
    <3>1. r.t # t /\ Asking(r) /\ listening' = listening \cup {r.t}
      BY <1>2, <1>5, <2>5 DEF Listening
    <3> QED BY <2>2, <2>4, <3>1
  <2>6. ASSUME NEW r \in Request, Stopping(r)
        PROVE  Goal
    <3>1. r.t # t /\ Asking(r) /\ listening' = listening \ {r.t}
      BY <2>2, <2>6 DEF Stopping
    <3> QED BY <2>2, <2>4, <3>1
  <2>7. CASE Opening
    BY <2>2, <2>7, OpeningCounts, SameInbox DEF Opening
  <2>8. CASE Breaking
    BY <2>2, <2>8, CountEmpty, EmptyMap DEF Breaking, Requests, Messages
  <2>9. ASSUME NEW m \in Message, Takes(m)
        PROVE  ~IsAbout(m, t) /\ Messages(t)' = 0
    BY <2>2, <2>3, <2>9, TakesCounts DEF One
  <2>10. ASSUME NEW m \in Message, Handling(m)
         PROVE  Goal
    <3>1. m.t # t
      BY <2>9, <2>10 DEF Handling, IsAbout
    <3> QED BY <2>2, <2>9, <2>10, <3>1, SameOutbox DEF Handling, OneEntry, SameBackend
  <2>11. ASSUME NEW m \in Message, Rejected(m)
         PROVE  Goal
    <3>1. m.t # t
      BY <2>9, <2>11 DEF Rejected, IsAbout
    <3> QED BY <2>2, <2>9, <2>11, <3>1, SameOutbox DEF Rejected, OneEntry, SameBackend
  <2>12. ASSUME NEW m \in Message, Passing(m)
         PROVE  Goal
    BY <2>2, <2>9, <2>12, SameOutbox DEF Passing, SameEntries, SameBackend
  <2>13. ASSUME NEW m \in Message, Raising(m)
         PROVE  Goal
    <3>1. Requests(t)' = Requests(t) /\ t \notin DOMAIN agg'.states
      BY <2>2, <2>13, RaisingCounts
    <3> QED BY <2>2, <2>9, <2>13, <3>1 DEF Raising, SameBackend
  <2>14. ASSUME NEW m, Sends(m), ~IsAbout(m, t)
         PROVE  /\ t \notin listening' /\ t \notin DOMAIN agg'.states /\ Messages(t)' = 0
    BY <2>2, <2>14, SendsCounts DEF Sends, SameClient, One
  <2>15. ASSUME NEW m, Telling(m), Sends(m)
         PROVE  Goal
    <3>1. ~IsAbout(m, t)
      BY <2>2, <2>15 DEF Telling, IsAbout
    <3> QED BY <2>2, <2>14, <2>15, <3>1, SameOutbox DEF Telling
  <2>16. ASSUME NEW r \in Request, outbox # <<>>, r = Head(outbox), outbox' = Tail(outbox)
         PROVE  r.t # t /\ Requests(t)' = 0
    BY <2>2, <2>3, <2>16, RequestCounts DEF One
  <2>17. ASSUME NEW r \in Request, NEW m, Answering(r, m)
         PROVE  Goal
    <3>1. r.t # t /\ Requests(t)' = 0
      BY <2>16, <2>17 DEF Answering
    <3>2. ~IsAbout(m, t) /\ t \notin DOMAIN served'
      BY <2>2, <2>17, <3>1 DEF Answering, IsAbout
    <3> QED BY <2>14, <2>17, <3>1, <3>2 DEF Answering
  <2>18. ASSUME NEW r \in Request, NEW m, Refusing(r, m)
         PROVE  Goal
    <3>1. r.t # t /\ Requests(t)' = 0
      BY <2>16, <2>18 DEF Refusing
    <3>2. ~IsAbout(m, t) /\ t \notin DOMAIN served'
      BY <2>2, <2>18, <3>1 DEF Refusing, IsAbout
    <3> QED BY <2>14, <2>18, <3>1, <3>2 DEF Refusing
  <2>19. ASSUME NEW m, Snapshotting(m)
         PROVE  Goal
    <3>1. ~IsAbout(m, t)
      BY <2>19 DEF Snapshotting, IsAbout
    <3> QED BY <2>2, <2>14, <2>19, <3>1, SameOutbox DEF Snapshotting
  <2>20. CASE Writing \/ Stutters
    BY <2>2, <2>20, SameOutbox, SameInbox DEF Writing, Stutters
  <2> QED BY <2>5, <2>6, <2>7, <2>8, <2>10, <2>11, <2>12, <2>13, <2>15, <2>17, <2>18, <2>19, <2>20
     DEF Steps
<1> QED BY <1>4, <1>5

\* Where targets may still be listened to again, nothing rejects them.
LEMMA SureFacts ==
  ASSUME TypeInv, Traces, Rejecting, NEW t \in Targets, listens[t] < setting.listens
  PROVE  /\ Rejections(t) = 0
         /\ setting.rejections # 0 => Requests(t) = 0 /\ t \notin DOMAIN served
<1>1. CASE setting.listens <= 1
  <2>1. listens[t] = 0
    BY <1>1 DEF TypeInv, SettingType
  <2>2. Requests(t) = 0 /\ Messages(t) = 0 /\ t \notin DOMAIN served
    BY <2>1 DEF Traces, Untouched
  <2> QED BY <2>2, CountsType
<1>2. CASE ~(setting.listens <= 1)
  BY <1>2 DEF Rejecting
<1> QED BY <1>1, <1>2

\* Every step keeps Counted.
LEMMA CountedStep ==
  ASSUME CountInv, Steps
  PROVE  Counted'
<1>0. TypeInv /\ Closed /\ Traces /\ Rejecting /\ Counted
  BY DEF CountInv
<1> DEFINE Right(u, p, r, a, j) == p >= r + a /\ (j = 0 => p = r + a)
<1> SUFFICES ASSUME open', NEW t \in Targets, Sure(t)'
             PROVE  Right(t, Pending(agg', t), Requests(t)', Answers(t)', Rejections(t)')
  BY DEF Counted
<1> DEFINE Goal == Right(t, Pending(agg', t), Requests(t)', Answers(t)', Rejections(t)')
<1>1. /\ Requests(t) \in Nat /\ Answers(t) \in Nat /\ Rejections(t) \in Nat
      /\ Requests(t)' \in Nat /\ Answers(t)' \in Nat /\ Rejections(t)' \in Nat
  BY <1>0, CountsType, NextCounts
<1>2. Pending(agg, t) \in Int
  BY <1>0, StateOfType DEF TypeInv, Pending, TargetState
<1>3. ASSUME open, Sure(t)
      PROVE  Right(t, Pending(agg, t), Requests(t), Answers(t), Rejections(t))
  BY <1>0, <1>3 DEF Counted
<1>4. setting'.listens = setting.listens
  BY <1>0, SettingSteps DEF SettingStep
<1>5. listening' = listening /\ listens' = listens => Sure(t)
  BY <1>4 DEF Sure
<1>6. ASSUME NEW r \in Request, Asking(r), Sure(t)
      PROVE  Goal
  <2>1. open /\ outbox' = Append(outbox, r) /\ inbox' = inbox
    BY <1>6 DEF Asking
  <2>2. Requests(t)' = Requests(t) + One(r.t = t) /\ Answers(t)' = Answers(t)
        /\ Rejections(t)' = Rejections(t)
    BY <1>0, <2>1, RequestCounts, SameInbox
  <2>3. Pending(agg', t) = Pending(agg, t) + One(r.t = t)
    <3>1. CASE r.t = t
      BY <1>6, <2>1, <3>1 DEF Asking, One
    <3>2. CASE r.t # t
      BY <1>2, <1>6, <2>1, <3>2 DEF Asking, One, Pending
    <3> QED BY <3>1, <3>2
  <2>4. Right(t, Pending(agg, t), Requests(t), Answers(t), Rejections(t))
    BY <1>3, <1>6, <2>1
  <2>5. One(r.t = t) \in Nat
    BY DEF One
  <2> QED BY <1>1, <1>2, <2>2, <2>3, <2>4, <2>5
<1>7. ASSUME NEW r \in Request, Listening(r)
      PROVE  Goal
  <2>1. Sure(t)
    BY <1>0, <1>4, <1>7 DEF Listening, Sure, TypeInv
  <2> QED BY <1>6, <1>7, <2>1 DEF Listening
<1>8. ASSUME NEW r \in Request, Stopping(r)
      PROVE  Goal
  <2>1. Sure(t)
    BY <1>4, <1>8 DEF Stopping, Sure
  <2> QED BY <1>6, <1>8, <2>1 DEF Stopping
<1>9. CASE Opening
  <2>1. Requests(t)' = IF t \in listening THEN 1 ELSE 0
    BY <1>0, <1>9, OpeningCounts
  <2>2. Answers(t)' = 0
    <3>1. inbox' = <<>>
      BY <1>0, <1>9 DEF Opening, Closed
    <3> QED BY <3>1, CountEmpty DEF Answers
  <2>3. Pending(agg', t) = IF t \in listening THEN 1 ELSE 0
    BY <1>9 DEF Opening
  <2> QED BY <2>1, <2>2, <2>3
<1>10. CASE Breaking
  BY <1>10 DEF Breaking
<1>11. ASSUME NEW m \in Message, Takes(m)
       PROVE  /\ Answers(t) = One(AnswersTo(m, t)) + Answers(t)'
              /\ Rejections(t) = One(Rejects(m, t)) + Rejections(t)'
  BY <1>0, <1>11, TakesCounts
<1>12. ASSUME NEW m \in Message, Handling(m)
       PROVE  Goal
  <2>1. /\ Takes(m) /\ OneEntry(agg, agg', m.t) /\ outbox' = outbox
        /\ m.kind \in {"found", "deleted", "added", "removed", "current", "reset", "filter"}
        /\ Pending(agg', m.t) = Pending(agg, m.t) - (IF m.kind \in {"added", "removed"} THEN 1 ELSE 0)
        /\ open /\ Sure(t)
    BY <1>5, <1>12 DEF Handling, SameBackend
  <2>2. Pending(agg', t) = Pending(agg, t) - One(AnswersTo(m, t))
    <3>1. CASE m.t = t
      BY <2>1, <3>1 DEF AnswersTo, One
    <3>2. CASE m.t # t
      BY <1>2, <2>1, <3>2 DEF AnswersTo, One, OneEntry, Pending
    <3> QED BY <3>1, <3>2
  <2>3. ~Rejects(m, t) /\ Requests(t)' = Requests(t)
    BY <2>1, SameOutbox DEF Rejects
  <2> QED BY <1>1, <1>2, <1>3, <1>11, <2>1, <2>2, <2>3 DEF One
<1>13. ASSUME NEW m \in Message, Rejected(m)
       PROVE  Goal
  <2>1. /\ Takes(m) /\ OneEntry(agg, agg', m.t) /\ outbox' = outbox /\ m.kind = "rejected"
        /\ open /\ listening' = listening \ {m.t} /\ listens' = listens
    BY <1>13 DEF Rejected, SameBackend
  <2>2. Sure(t)
    BY <1>4, <2>1 DEF Sure
  <2>3. m.t # t
    <3> SUFFICES ASSUME m.t = t
                 PROVE  FALSE
      OBVIOUS
    <3>1. listens[t] < setting.listens
      BY <1>4, <2>1 DEF Sure
    <3>2. Rejections(t) = 0
      BY <1>0, <3>1, SureFacts
    <3>3. Rejects(m, t)
      BY <2>1 DEF Rejects
    <3> QED BY <1>1, <1>11, <2>1, <3>2, <3>3 DEF One
  <2>4. Pending(agg', t) = Pending(agg, t)
    BY <2>1, <2>3 DEF OneEntry, Pending
  <2>5. ~Rejects(m, t) /\ ~AnswersTo(m, t) /\ Requests(t)' = Requests(t)
    BY <2>1, <2>3, SameOutbox DEF Rejects, AnswersTo
  <2> QED BY <1>1, <1>2, <1>3, <1>11, <2>1, <2>2, <2>4, <2>5 DEF One
<1>14. ASSUME NEW m \in Message, Passing(m)
       PROVE  Goal
  <2>1. /\ Takes(m) /\ outbox' = outbox /\ m.kind = "snapshot" /\ open /\ Sure(t)
        /\ Pending(agg', t) = Pending(agg, t)
    BY <1>5, <1>14 DEF Passing, SameBackend, SameEntries
  <2>2. ~Rejects(m, t) /\ ~AnswersTo(m, t) /\ Requests(t)' = Requests(t)
    BY <2>1, SameOutbox DEF Rejects, AnswersTo
  <2> QED BY <1>1, <1>2, <1>3, <1>11, <2>1, <2>2 DEF One
<1>15. ASSUME NEW m \in Message, Raising(m)
       PROVE  Goal
  <2>1. Takes(m) /\ m.kind = "snapshot" /\ open /\ Sure(t)
    BY <1>5, <1>15 DEF Raising, SameBackend
  <2>2. PICK n \in {0, 2} : /\ Requests(t)' = Requests(t) + n
                            /\ Pending(agg', t) = Pending(agg, t) + n
    BY <1>0, <1>15, RaisingCounts
  <2>3. ~Rejects(m, t) /\ ~AnswersTo(m, t)
    BY <2>1 DEF Rejects, AnswersTo
  <2> QED BY <1>1, <1>2, <1>3, <1>11, <2>1, <2>2, <2>3 DEF One
<1>16. ASSUME NEW m, Sends(m)
       PROVE  /\ Answers(t)' = Answers(t) + One(AnswersTo(m, t))
              /\ Rejections(t)' = Rejections(t) + One(Rejects(m, t))
              /\ Pending(agg', t) = Pending(agg, t) /\ open /\ Sure(t)
  <2>1. /\ Answers(t)' = Answers(t) + One(AnswersTo(m, t))
        /\ Rejections(t)' = Rejections(t) + One(Rejects(m, t))
    BY <1>0, <1>16, SendsCounts
  <2> QED BY <1>5, <1>16, <2>1 DEF Sends, SameClient
<1>17. ASSUME NEW m, Telling(m), Sends(m)
       PROVE  Goal
  <2>1. ~AnswersTo(m, t) /\ Requests(t)' = Requests(t)
    BY <1>17, SameOutbox DEF Telling, AnswersTo
  <2> QED BY <1>1, <1>2, <1>3, <1>16, <1>17, <2>1 DEF One
<1>18. ASSUME NEW r \in Request, NEW m, Answering(r, m)
       PROVE  Goal
  <2>1. Requests(t) = One(r.t = t) + Requests(t)'
    BY <1>0, <1>18, RequestCounts DEF Answering
  <2>2. Sends(m) /\ ~Rejects(m, t) /\ One(AnswersTo(m, t)) = One(r.t = t)
    BY <1>18 DEF Answering, Rejects, AnswersTo, One, Request
  <2> QED BY <1>1, <1>2, <1>3, <1>16, <2>1, <2>2 DEF One
<1>19. ASSUME NEW r \in Request, NEW m, Refusing(r, m)
       PROVE  Goal
  <2>1. Requests(t) = One(r.t = t) + Requests(t)'
    BY <1>0, <1>19, RequestCounts DEF Refusing
  <2>2. Sends(m) /\ ~AnswersTo(m, t) /\ One(Rejects(m, t)) = One(r.t = t)
    BY <1>19 DEF Refusing, Rejects, AnswersTo, One
  <2> QED BY <1>1, <1>2, <1>3, <1>16, <2>1, <2>2 DEF One
<1>20. ASSUME NEW m, Snapshotting(m)
       PROVE  Goal
  <2>1. Sends(m) /\ ~AnswersTo(m, t) /\ ~Rejects(m, t) /\ Requests(t)' = Requests(t)
    BY <1>20, SameOutbox DEF Snapshotting, AnswersTo, Rejects
  <2> QED BY <1>1, <1>2, <1>3, <1>16, <2>1 DEF One
<1>21. CASE Writing \/ Stutters
  <2>1. outbox' = outbox /\ inbox' = inbox /\ agg' = agg /\ open /\ Sure(t)
    BY <1>5, <1>21 DEF Writing, Stutters
  <2> QED BY <1>3, <2>1, SameOutbox, SameInbox
<1> QED BY <1>7, <1>8, <1>9, <1>10, <1>12, <1>13, <1>14, <1>15, <1>17, <1>18, <1>19, <1>20, <1>21
     DEF Steps

\* No target is both listened to again and rejected: a rejection under way then
\* always belongs to the listen it ends.
OnceOrNeverRejected == \A s \in Settings : s.listens <= 1 \/ s.rejections = 0

\* CountInv holds at first.
LEMMA InitCounts ==
  ASSUME OnceOrNeverRejected, Init
  PROVE  CountInv
<1>1. TypeInv
  BY InitType
<1>2. outbox = <<>> /\ inbox = <<>> /\ served = <<>> /\ agg = NewAggregator /\ ~open /\ ~news
      /\ listening = {} /\ listens = [t \in Targets |-> 0] /\ setting \in Settings
  BY DEF Init
<1>3. \A t \in Targets : Requests(t) = 0 /\ Messages(t) = 0 /\ Rejections(t) = 0
  BY <1>2, CountEmpty DEF Requests, Messages, Rejections
<1>4. Closed
  BY <1>2, EmptyMap DEF Closed
<1>5. Traces
  <2>1. setting.listens \in Nat
    BY <1>1 DEF TypeInv, SettingType
  <2> QED BY <1>2, <1>3, <2>1, EmptyMap, NewAggregatorType DEF Traces, Untouched
<1>6. Rejecting
  BY <1>2, <1>3 DEF Rejecting, OnceOrNeverRejected
<1>7. Counted
  BY <1>2 DEF Counted
<1> QED BY <1>1, <1>4, <1>5, <1>6, <1>7 DEF CountInv

\* CountInv is an invariant.
LEMMA CountInvariant == OnceOrNeverRejected /\ Spec => []CountInv
<1>1. OnceOrNeverRejected /\ Init => CountInv
  BY InitCounts
<1>2. CountInv /\ [Next]_vars => CountInv'
  <2> SUFFICES ASSUME CountInv, [Next]_vars
               PROVE  CountInv'
    OBVIOUS
  <2>1. Steps
    BY NextSteps DEF CountInv
  <2> QED BY <2>1, TypeStep, ClosedStep, TracesStep, RejectingStep, CountedStep DEF CountInv
<1> QED BY <1>1, <1>2, PTL DEF Spec

\* outstanding_responses_ of every target the client listens to is the number of
\* answers that are still to come, in any interleaving of listens, answers and
\* breaks of the stream. A target that is listened to again must not have been
\* rejected: the error of an earlier listen ends the present one, against what
\* RejectionsAreForThisListen says.
THEOREM PendingIsCounted == OnceOrNeverRejected /\ Spec => []PendingCountsAnswers
<1>1. CountInv => PendingCountsAnswers
  <2> SUFFICES ASSUME CountInv, open, NEW t \in listening, ~IsRejected(t)
               PROVE  StateOf(agg, t).pending = AnswersDue(t)
    BY DEF PendingCountsAnswers
  <2>1. TypeInv /\ Counted /\ t \in Targets
    BY DEF CountInv, TypeInv
  <2>2. Rejections(t) = 0 /\ AnswersDue(t) = Requests(t) + Answers(t)
    BY <2>1, DueIsCounted
  <2> QED BY <2>1, <2>2 DEF Counted, Sure, Pending
<1> QED BY <1>1, CountInvariant, PTL

-----------------------------------------------------------------------------
(* The documents the backend told about, from message to message *)

\* w[i] are the documents of t that the backend told about up to the i-th message of
\* q, and told those it told about by now.
Stream(t, w, q, told) ==
  /\ w \in [0..Len(q) -> Tokens] /\ w[Len(q)] = told
  /\ \A i \in 0..Len(q) : Base(w[i]) \subseteq Match[t]
  /\ \A i \in 1..Len(q) : Follows(q[i], t, w[i - 1], w[i])

\* The last request about t asks for it, with the token tok.
LastRequest(p, t, tok) ==
  \A j \in 1..Len(p) :
    p[j].t = t /\ (\A l \in (j + 1)..Len(p) : p[l].t # t) => p[j].watch /\ p[j].token = tok

NoRequest(p, t) == \A j \in 1..Len(p) : p[j].t # t

\* The last answer about t, if no request is left, added it with the token tok.
LastAnswer(q, w, t, tok) ==
  \A i \in 1..Len(q) :
    AnswersTo(q[i], t) /\ (\A l \in (i + 1)..Len(q) : ~AnswersTo(q[l], t))
      => q[i].kind = "added" /\ w[i] = Base(tok)

Shift(w, q)        == [i \in 0..(Len(q) - 1) |-> w[i + 1]]
Extend(w, q, told) == [i \in 0..(Len(q) + 1) |-> IF i <= Len(q) THEN w[i] ELSE told]

\* The head and the tail of a sequence.
LEMMA TailFacts ==
  ASSUME NEW T, NEW q \in Seq(T), q # <<>>
  PROVE  /\ Len(q) \in Nat /\ Len(q) >= 1 /\ Head(q) = q[1] /\ Head(q) \in T
         /\ Tail(q) \in Seq(T) /\ Len(Tail(q)) = Len(q) - 1
         /\ \A i \in 1..(Len(q) - 1) : Tail(q)[i] = q[i + 1]
BY HeadTailProperties, EmptySeq, LenProperties

\* A sequence with one more element.
LEMMA AppendFacts ==
  ASSUME NEW T, NEW q \in Seq(T), NEW m \in T
  PROVE  /\ Len(q) \in Nat /\ Append(q, m) \in Seq(T) /\ Len(Append(q, m)) = Len(q) + 1
         /\ \A i \in 1..Len(q) : Append(q, m)[i] = q[i]
         /\ Append(q, m)[Len(q) + 1] = m
BY AppendProperties, LenProperties

\* The documents told about, once a message is taken.
LEMMA ShiftStream ==
  ASSUME NEW t \in Targets, NEW q \in Seq(Message), q # <<>>, NEW told, NEW w,
         Stream(t, w, q, told)
  PROVE  /\ Stream(t, Shift(w, q), Tail(q), told)
         /\ Shift(w, q)[0] = w[1] /\ w[1] \in Tokens /\ Base(w[1]) \subseteq Match[t]
         /\ Follows(Head(q), t, w[0], w[1])
<1> DEFINE n == Len(q)
           r == Tail(q)
           v == Shift(w, q)
<1>1. /\ n \in Nat /\ n >= 1 /\ Head(q) = q[1] /\ Len(r) = n - 1
      /\ \A i \in 1..(n - 1) : r[i] = q[i + 1]
  BY TailFacts
<1>2. /\ w \in [0..n -> Tokens] /\ w[n] = told
      /\ \A i \in 0..n : Base(w[i]) \subseteq Match[t]
      /\ \A i \in 1..n : Follows(q[i], t, w[i - 1], w[i])
  BY DEF Stream
<1>3. v = [i \in 0..(n - 1) |-> w[i + 1]]
  BY DEF Shift
<1> HIDE DEF n, r, v
<1>4. v \in [0..(n - 1) -> Tokens] /\ \A i \in 0..(n - 1) : v[i] = w[i + 1]
  BY <1>1, <1>2, <1>3
<1>5. v[n - 1] = told /\ v[0] = w[1]
  BY <1>1, <1>2, <1>4
<1>6. \A i \in 0..(n - 1) : Base(v[i]) \subseteq Match[t]
  BY <1>1, <1>2, <1>4
<1>7. ASSUME NEW i \in 1..(n - 1)
      PROVE  Follows(r[i], t, v[i - 1], v[i])
  <2>1. i + 1 \in 1..n /\ i - 1 \in 0..(n - 1) /\ i \in 0..(n - 1) /\ (i + 1) - 1 = i /\ (i - 1) + 1 = i
    BY <1>1
  <2>2. Follows(q[i + 1], t, w[(i + 1) - 1], w[i + 1])
    BY <1>2, <2>1
  <2>3. r[i] = q[i + 1] /\ v[i - 1] = w[i] /\ v[i] = w[i + 1]
    BY <1>1, <1>4, <2>1
  <2> QED BY <2>1, <2>2, <2>3
<1>8. Stream(t, v, r, told)
  BY <1>1, <1>4, <1>5, <1>6, <1>7 DEF Stream
<1>9. w[1] \in Tokens /\ Base(w[1]) \subseteq Match[t] /\ Follows(q[1], t, w[0], w[1])
  <2>1. 1 \in 1..n /\ 1 \in 0..n /\ 1 - 1 = 0
    BY <1>1
  <2>2. Follows(q[1], t, w[1 - 1], w[1])
    BY <1>2, <2>1
  <2> QED BY <1>2, <2>1, <2>2
<1> QED BY <1>1, <1>5, <1>8, <1>9 DEF r, v

\* The documents told about, once a message is sent.
LEMMA ExtendStream ==
  ASSUME NEW t \in Targets, NEW q \in Seq(Message), NEW told, NEW w, Stream(t, w, q, told),
         NEW m \in Message, NEW after \in Tokens, Follows(m, t, told, after),
         Base(after) \subseteq Match[t]
  PROVE  /\ Stream(t, Extend(w, q, after), Append(q, m), after)
         /\ Extend(w, q, after)[0] = w[0]
<1> DEFINE n == Len(q)
           r == Append(q, m)
           v == Extend(w, q, after)
<1>1. /\ n \in Nat /\ Len(r) = n + 1 /\ r[n + 1] = m
      /\ \A i \in 1..n : r[i] = q[i]
  BY AppendFacts
<1>2. /\ w \in [0..n -> Tokens] /\ w[n] = told
      /\ \A i \in 0..n : Base(w[i]) \subseteq Match[t]
      /\ \A i \in 1..n : Follows(q[i], t, w[i - 1], w[i])
  BY DEF Stream
<1>3. v = [i \in 0..(n + 1) |-> IF i <= n THEN w[i] ELSE after]
  BY DEF Extend
<1> HIDE DEF n, r, v
<1>4. /\ v \in [0..(n + 1) -> Tokens] /\ v[n + 1] = after
      /\ \A i \in 0..n : v[i] = w[i]
  BY <1>1, <1>2, <1>3
<1>5. \A i \in 0..(n + 1) : Base(v[i]) \subseteq Match[t]
  <2> TAKE i \in 0..(n + 1)
  <2>1. i \in 0..n \/ i = n + 1
    BY <1>1
  <2> QED BY <1>2, <1>4, <2>1
<1>6. ASSUME NEW i \in 1..(n + 1)
      PROVE  Follows(r[i], t, v[i - 1], v[i])
  <2>1. CASE i = n + 1
    <3>1. r[i] = m /\ v[i] = after /\ i - 1 = n /\ n \in 0..n
      BY <1>1, <1>4, <2>1
    <3>2. v[i - 1] = told
      BY <1>2, <1>4, <3>1
    <3> QED BY <3>1, <3>2
  <2>2. CASE i # n + 1
    <3>1. i \in 1..n /\ i - 1 \in 0..n /\ i \in 0..n
      BY <1>1, <2>2
    <3>2. r[i] = q[i] /\ v[i] = w[i] /\ v[i - 1] = w[i - 1]
      BY <1>1, <1>4, <3>1
    <3> QED BY <1>2, <3>1, <3>2
  <2> QED BY <2>1, <2>2
<1>7. Stream(t, v, r, after)
  BY <1>1, <1>4, <1>5, <1>6 DEF Stream
<1> QED BY <1>1, <1>4, <1>7 DEF r, v

\* The last answer, once a message is taken.
LEMMA ShiftAnswer ==
  ASSUME NEW t \in Targets, NEW q \in Seq(Message), q # <<>>, NEW told, NEW w,
         Stream(t, w, q, told), NEW tok, LastAnswer(q, w, t, tok)
  PROVE  LastAnswer(Tail(q), Shift(w, q), t, tok)
<1> DEFINE n == Len(q)
           r == Tail(q)
           v == Shift(w, q)
<1>1. /\ n \in Nat /\ n >= 1 /\ Len(r) = n - 1
      /\ \A i \in 1..(n - 1) : r[i] = q[i + 1]
  BY TailFacts
<1>2. \A i \in 0..(n - 1) : v[i] = w[i + 1]
  BY DEF Shift
<1> HIDE DEF n, r, v
<1> SUFFICES ASSUME NEW i \in 1..(n - 1), AnswersTo(r[i], t),
                    \A l \in (i + 1)..(n - 1) : ~AnswersTo(r[l], t)
             PROVE  r[i].kind = "added" /\ v[i] = Base(tok)
  BY <1>1 DEF LastAnswer, r, v
<1>3. i + 1 \in 1..n /\ r[i] = q[i + 1] /\ v[i] = w[i + 1]
  BY <1>1, <1>2
<1>4. ASSUME NEW l \in ((i + 1) + 1)..n
      PROVE  ~AnswersTo(q[l], t)
  <2>1. l - 1 \in (i + 1)..(n - 1) /\ l - 1 \in 1..(n - 1) /\ (l - 1) + 1 = l
    BY <1>1
  <2> QED BY <1>1, <2>1
<1> QED BY <1>3, <1>4 DEF LastAnswer, n

\* A message that is no answer about t.
LEMMA ExtendAnswer ==
  ASSUME NEW t \in Targets, NEW q \in Seq(Message), NEW w, NEW tok, LastAnswer(q, w, t, tok),
         NEW m \in Message, ~AnswersTo(m, t), NEW after
  PROVE  LastAnswer(Append(q, m), Extend(w, q, after), t, tok)
<1> DEFINE n == Len(q)
           r == Append(q, m)
           v == Extend(w, q, after)
<1>1. /\ n \in Nat /\ Len(r) = n + 1 /\ r[n + 1] = m
      /\ \A i \in 1..n : r[i] = q[i]
  BY AppendFacts
<1>2. \A i \in 0..n : v[i] = w[i]
  BY <1>1 DEF Extend
<1> HIDE DEF n, r, v
<1> SUFFICES ASSUME NEW i \in 1..(n + 1), AnswersTo(r[i], t),
                    \A l \in (i + 1)..(n + 1) : ~AnswersTo(r[l], t)
             PROVE  r[i].kind = "added" /\ v[i] = Base(tok)
  BY <1>1 DEF LastAnswer, r, v
<1>3. i \in 1..n /\ i \in 0..n
  BY <1>1
<1>4. r[i] = q[i] /\ v[i] = w[i]
  BY <1>1, <1>2, <1>3
<1>5. ASSUME NEW l \in (i + 1)..n
      PROVE  ~AnswersTo(q[l], t)
  <2>1. l \in (i + 1)..(n + 1) /\ l \in 1..n
    BY <1>1
  <2> QED BY <1>1, <2>1
<1> QED BY <1>3, <1>4, <1>5 DEF LastAnswer, n

\* An answer that added t with the token tok.
LEMMA AddedAnswer ==
  ASSUME NEW t \in Targets, NEW q \in Seq(Message), NEW w, NEW tok,
         NEW m \in Message, AnswersTo(m, t), m.kind = "added"
  PROVE  LastAnswer(Append(q, m), Extend(w, q, Base(tok)), t, tok)
<1> DEFINE n == Len(q)
           r == Append(q, m)
           v == Extend(w, q, Base(tok))
<1>1. n \in Nat /\ Len(r) = n + 1 /\ r[n + 1] = m
  BY AppendFacts
<1>2. v[n + 1] = Base(tok)
  BY <1>1 DEF Extend
<1> HIDE DEF n, r, v
<1> SUFFICES ASSUME NEW i \in 1..(n + 1), \A l \in (i + 1)..(n + 1) : ~AnswersTo(r[l], t)
             PROVE  r[i].kind = "added" /\ v[i] = Base(tok)
  BY <1>1 DEF LastAnswer, r, v
<1>3. i = n + 1
  <2> SUFFICES ASSUME i # n + 1
               PROVE  FALSE
    OBVIOUS
  <2>1. n + 1 \in (i + 1)..(n + 1)
    BY <1>1
  <2> QED BY <1>1, <2>1
<1> QED BY <1>1, <1>2, <1>3

\* No answer about t is under way.
LEMMA NoAnswer ==
  ASSUME NEW t, NEW q, NEW w, NEW tok, \A i \in 1..Len(q) : ~AnswersTo(q[i], t)
  PROVE  LastAnswer(q, w, t, tok)
BY DEF LastAnswer

\* The last request, once a request is answered.
LEMMA TailRequest ==
  ASSUME NEW p \in Seq(Request), p # <<>>, NEW t, NEW tok, LastRequest(p, t, tok)
  PROVE  /\ LastRequest(Tail(p), t, tok)
         /\ Head(p).t # t /\ NoRequest(Tail(p), t) => NoRequest(p, t)
         /\ Head(p).t = t /\ NoRequest(Tail(p), t) => Head(p).watch /\ Head(p).token = tok
<1> DEFINE n == Len(p)
           r == Tail(p)
<1>1. /\ n \in Nat /\ n >= 1 /\ Len(r) = n - 1 /\ Head(p) = p[1]
      /\ \A i \in 1..(n - 1) : r[i] = p[i + 1]
  BY TailFacts
<1> HIDE DEF n, r
<1>2. \A l \in 2..n : l - 1 \in 1..(n - 1) /\ r[l - 1] = p[l]
  BY <1>1
<1>3. ASSUME NEW i \in 1..(n - 1), r[i].t = t, \A l \in (i + 1)..(n - 1) : r[l].t # t
      PROVE  r[i].watch /\ r[i].token = tok
  <2>1. i + 1 \in 1..n /\ r[i] = p[i + 1]
    BY <1>1
  <2>2. ASSUME NEW l \in ((i + 1) + 1)..n
        PROVE  p[l].t # t
    <3>1. l - 1 \in (i + 1)..(n - 1) /\ l \in 2..n
      BY <1>1
    <3> QED BY <1>2, <1>3, <3>1
  <2> QED BY <1>3, <2>1, <2>2 DEF LastRequest, n
<1>4. ASSUME NoRequest(r, t)
      PROVE  \A l \in 2..n : p[l].t # t
  BY <1>1, <1>2, <1>4 DEF NoRequest
<1>5. ASSUME p[1].t # t, NoRequest(r, t)
      PROVE  NoRequest(p, t)
  <2>1. \A l \in 1..n : l = 1 \/ l \in 2..n
    BY <1>1
  <2> QED BY <1>4, <1>5, <2>1 DEF NoRequest, n
<1>6. ASSUME p[1].t = t, NoRequest(r, t)
      PROVE  p[1].watch /\ p[1].token = tok
  <2>1. 1 \in 1..n /\ \A l \in (1 + 1)..n : p[l].t # t
    BY <1>1, <1>4, <1>6
  <2> QED BY <1>6, <2>1 DEF LastRequest, n
<1>7. LastRequest(r, t, tok)
  BY <1>1, <1>3 DEF LastRequest
<1> QED BY <1>1, <1>5, <1>6, <1>7 DEF r

\* The last request, once a request is sent.
LEMMA AppendRequest ==
  ASSUME NEW p \in Seq(Request), NEW r \in Request, NEW t, NEW tok,
         IF r.t = t THEN r.watch /\ r.token = tok ELSE LastRequest(p, t, tok)
  PROVE  /\ LastRequest(Append(p, r), t, tok)
         /\ NoRequest(Append(p, r), t) => r.t # t /\ NoRequest(p, t)
<1> DEFINE n == Len(p)
           s == Append(p, r)
<1>1. /\ n \in Nat /\ Len(s) = n + 1 /\ s[n + 1] = r
      /\ \A i \in 1..n : s[i] = p[i]
  BY AppendFacts
<1> HIDE DEF n, s
<1>2. ASSUME NEW i \in 1..(n + 1), s[i].t = t, \A l \in (i + 1)..(n + 1) : s[l].t # t
      PROVE  s[i].watch /\ s[i].token = tok
  <2>1. CASE r.t = t
    <3>1. i = n + 1
      <4> SUFFICES ASSUME i # n + 1
                   PROVE  FALSE
        OBVIOUS
      <4>1. n + 1 \in (i + 1)..(n + 1)
        BY <1>1
      <4> QED BY <1>1, <1>2, <2>1, <4>1
    <3> QED BY <1>1, <2>1, <3>1
  <2>2. CASE r.t # t
    <3>1. i \in 1..n
      BY <1>1, <1>2, <2>2
    <3>2. ASSUME NEW l \in (i + 1)..n
          PROVE  p[l].t # t
      <4>1. l \in (i + 1)..(n + 1) /\ l \in 1..n
        BY <1>1
      <4> QED BY <1>1, <1>2, <4>1
    <3>3. p[i].t = t
      BY <1>1, <1>2, <3>1
    <3>4. p[i].watch /\ p[i].token = tok
      BY <2>2, <3>1, <3>2, <3>3 DEF LastRequest, n
    <3> QED BY <1>1, <3>1, <3>4
  <2> QED BY <2>1, <2>2
<1>3. LastRequest(s, t, tok)
  BY <1>1, <1>2 DEF LastRequest
<1>4. ASSUME NoRequest(s, t)
      PROVE  r.t # t /\ NoRequest(p, t)
  <2>1. n + 1 \in 1..(n + 1) /\ \A j \in 1..n : j \in 1..(n + 1)
    BY <1>1
  <2> QED BY <1>1, <1>4, <2>1 DEF NoRequest, n
<1> QED BY <1>3, <1>4 DEF s

-----------------------------------------------------------------------------
(* What the aggregator shows of an active target *)

\* Every existence filter for a query agrees with the client's count, that is, no
\* filter asks for a reset.
FiltersAgree ==
  inbox # <<>> /\ Head(inbox).kind = "filter" =>
    LET m == Head(inbox) IN
    IsActiveTarget(agg, Metadata, m.t) /\ m.t \notin DocTargets
      => GetCurrentDocumentCount(agg, Metadata, m.t) = m.count

\* The view of t, with the changes that the aggregator holds, is before.
Viewed(a, docs, t, before) ==
  /\ t \in DOMAIN a.states /\ before # NoToken
  /\ Shown(StateOf(a, t), docs) = before /\ Sound(StateOf(a, t), docs, a.updates)

\* Without changes held, the view is the documents of the target.
LEMMA NothingHeld ==
  ASSUME NEW s, NEW docs \in SUBSET Keys, NEW updates, s.docs = [k \in Keys |-> "none"]
  PROVE  Shown(s, docs) = docs /\ Sound(s, docs, updates)
<1>1. \A k \in Keys : s.docs[k] = "none"
  OBVIOUS
<1> QED BY <1>1 DEF Shown, Sound, With

\* No message asks for a reset while filters agree.
LEMMA HandlingResets ==
  ASSUME TypeInv, NEW m \in Message, Handling(m), FiltersAgree
  PROVE  agg'.resets = agg.resets
<1>1. Handles(m) /\ m = Head(inbox) /\ inbox # <<>> /\ m.kind # "snapshot"
  BY DEF Handling, Takes
<1>2. PICK M \in Metadatas : M = Metadata
  BY MetadataType
<1>3. agg \in Aggregator /\ m.t \in Targets
  BY <1>1, MessageFacts DEF TypeInv
<1>4. CASE m.kind = "found"
  <2>1. m.key \in Keys /\ agg' = AddDocumentToTarget(agg, M, m.t, m.key)
    BY <1>1, <1>2, <1>4, MessageFacts DEF Handles
  <2> QED BY <1>3, <2>1, AddDocumentEffect
<1>5. CASE m.kind = "deleted"
  <2>1. m.key \in Keys /\ agg' = RemoveDocumentFromTarget(agg, M, m.t, m.key, "deleted")
    BY <1>1, <1>2, <1>5, MessageFacts DEF Handles
  <2> QED BY <1>3, <2>1, RemoveDocumentEffect
<1>6. CASE m.kind = "added"
  <2>1. agg' = TargetAdded(agg, m.t)
    BY <1>1, <1>6 DEF Handles
  <2> QED BY <1>3, <2>1, TargetAddedEffect
<1>7. CASE m.kind = "removed"
  <2>1. agg' = TargetRemoved(agg, m.t)
    BY <1>1, <1>7 DEF Handles
  <2> QED BY <1>3, <2>1, TargetRemovedEffect
<1>8. CASE m.kind = "current"
  <2>1. m.token \in Tokens /\ agg' = TargetCurrent(agg, M, m.t, m.token)
    BY <1>1, <1>2, <1>8, MessageFacts DEF Handles, Tokens
  <2> QED BY <1>3, <2>1, TargetCurrentEffect
<1>9. CASE m.kind = "reset"
  <2>1. agg' = TargetReset(agg, M, m.t)
    BY <1>1, <1>2, <1>9 DEF Handles
  <2> QED BY <1>3, <2>1, TargetResetEffect
<1>10. CASE m.kind = "filter"
  <2>1. agg' = HandleExistenceFilter(agg, M, m.t, m.count, m.bloom)
    BY <1>1, <1>2, <1>10 DEF Handles
  <2>2. IsActiveTarget(agg, M, m.t) /\ m.t \notin DocTargets => GetCurrentDocumentCount(agg, M, m.t) = m.count
    BY <1>1, <1>2, <1>10 DEF FiltersAgree
  <2>3. CASE ~IsActiveTarget(agg, M, m.t)
    BY <2>1, <2>3 DEF HandleExistenceFilter
  <2>4. CASE IsActiveTarget(agg, M, m.t) /\ m.t \in DocTargets
    <3>1. \/ agg' = agg
          \/ agg' = RemoveDocumentFromTarget(agg, M, m.t, DocOf[m.t], "deleted")
      BY <2>1, <2>4 DEF HandleExistenceFilter
    <3>2. DocOf[m.t] \in Keys
      BY <2>4, DocOfAssumption DEF Injection
    <3> QED BY <1>3, <3>1, <3>2, RemoveDocumentEffect
  <2>5. CASE IsActiveTarget(agg, M, m.t) /\ m.t \notin DocTargets
    <3>1. agg' = SetState(agg, m.t, StateOf(agg, m.t))
      BY <2>1, <2>2, <2>5 DEF HandleExistenceFilter
    <3> QED BY <1>3, <3>1, SetStateOne, StateOfType
  <2> QED BY <2>3, <2>4, <2>5
<1> QED BY <1>1, <1>4, <1>5, <1>6, <1>7, <1>8, <1>9, <1>10 DEF Handles

\* The view of an active target follows the messages about it.
LEMMA HandlingViews ==
  ASSUME TypeInv, NEW m \in Message, Handling(m), FiltersAgree,
         m.t \in listening, Pending(agg, m.t) = 0, m.kind \notin {"added", "removed"},
         NEW before \in SUBSET Keys, Viewed(agg, keys[m.t], m.t, before), before \subseteq Match[m.t],
         NEW after \in Tokens, Follows(m, m.t, before, after)
  PROVE  Viewed(agg', keys[m.t], m.t, after)
<1>1. /\ Handles(m) /\ m = Head(inbox) /\ inbox # <<>>
      /\ m.kind \in {"found", "deleted", "current", "reset", "filter"}
  BY DEF Handling, Takes
<1>2. PICK M \in Metadatas : M = Metadata /\ M.keys = keys
  BY MetadataType DEF Metadata
<1>3. agg \in Aggregator /\ m.t \in Targets /\ IsActiveTarget(agg, M, m.t)
  BY <1>1, <1>2, MessageFacts DEF TypeInv, IsActiveTarget, Pending, Metadata
<1>4. PICK t \in Targets : t = m.t
  BY <1>3
<1>5. /\ t \in DOMAIN agg.states /\ before # NoToken
      /\ Shown(StateOf(agg, t), M.keys[t]) = before
      /\ Sound(StateOf(agg, t), M.keys[t], agg.updates)
  BY <1>2, <1>4 DEF Viewed
<1>6. ASSUME t \in DOMAIN agg'.states, after # NoToken,
             Shown(StateOf(agg', t), M.keys[t]) = after, Sound(StateOf(agg', t), M.keys[t], agg'.updates)
      PROVE  Viewed(agg', keys[m.t], m.t, after)
  BY <1>2, <1>4, <1>6 DEF Viewed
<1>7. CASE m.kind = "found"
  <2>1. m.key \in Keys /\ agg' = AddDocumentToTarget(agg, M, t, m.key)
    BY <1>1, <1>2, <1>4, <1>7, MessageFacts DEF Handles
  <2>2. after = before \cup {m.key} /\ after # NoToken
    BY <1>4, <1>7, <2>1, NoTokenAssumption DEF Follows
  <2> QED BY <1>3, <1>4, <1>5, <1>6, <2>1, <2>2, AddDocumentEffect
<1>8. CASE m.kind = "deleted"
  <2>1. m.key \in Keys /\ agg' = RemoveDocumentFromTarget(agg, M, t, m.key, "deleted")
    BY <1>1, <1>2, <1>4, <1>8, MessageFacts DEF Handles
  <2>2. after = before \ {m.key} /\ after # NoToken
    BY <1>4, <1>8, <2>1, NoTokenAssumption DEF Follows
  <2> QED BY <1>3, <1>4, <1>5, <1>6, <2>1, <2>2, RemoveDocumentEffect
<1>9. CASE m.kind = "current"
  <2>1. m.token \in Tokens /\ agg' = TargetCurrent(agg, M, t, m.token)
    BY <1>1, <1>2, <1>4, <1>9, MessageFacts DEF Handles, Tokens
  <2>2. after = before
    BY <1>4, <1>9 DEF Follows
  <2>3. /\ t \in DOMAIN agg'.states /\ agg'.updates = agg.updates
        /\ StateOf(agg', t).docs = StateOf(agg, t).docs
    BY <1>3, <2>1, TargetCurrentEffect
  <2>4. Shown(StateOf(agg', t), M.keys[t]) = after /\ Sound(StateOf(agg', t), M.keys[t], agg'.updates)
    BY <1>5, <2>2, <2>3 DEF Shown, Sound, With
  <2> QED BY <1>5, <1>6, <2>2, <2>3, <2>4
<1>10. CASE m.kind = "reset"
  <2>1. agg' = TargetReset(agg, M, t)
    BY <1>1, <1>2, <1>4, <1>10 DEF Handles
  <2>2. after = {} /\ after # NoToken
    BY <1>4, <1>10, NoTokenAssumption DEF Follows
  <2> QED BY <1>3, <1>4, <1>6, <2>1, <2>2, TargetResetEffect
<1>11. CASE m.kind = "filter"
  <2>1. agg' = HandleExistenceFilter(agg, M, t, m.count, m.bloom)
    BY <1>1, <1>2, <1>4, <1>11 DEF Handles
  <2>2. after # NoToken /\ after \subseteq before /\ m.count = Cardinality(after)
    BY <1>4, <1>11 DEF Follows
  <2>3. after \in SUBSET Keys
    BY <2>2 DEF Tokens
  <2>4. t \notin DocTargets => GetCurrentDocumentCount(agg, M, t) = Cardinality(after)
    BY <1>1, <1>2, <1>3, <1>4, <1>11, <2>2 DEF FiltersAgree
  <2>5. t \in DocTargets => Shown(StateOf(agg, t), M.keys[t]) \subseteq {DocOf[t]}
    BY <1>4, <1>5, MatchAssumption
  <2>6. /\ t \in DOMAIN agg'.states /\ Sound(StateOf(agg', t), M.keys[t], agg'.updates)
        /\ Shown(StateOf(agg', t), M.keys[t]) = after
    <3>1. agg' = HandleExistenceFilter(agg, M, t, Cardinality(after), m.bloom)
      BY <2>1, <2>2
    <3>2. IsActiveTarget(agg, M, t) /\ after \subseteq Shown(StateOf(agg, t), M.keys[t])
      BY <1>3, <1>4, <1>5, <2>2
    <3> QED BY <1>3, <1>5, <2>3, <2>4, <2>5, <3>1, <3>2, AgreedFilterEffect
  <2> QED BY <1>6, <2>2, <2>6
<1> QED BY <1>1, <1>7, <1>8, <1>9, <1>10, <1>11

\* The answer that leaves t without outstanding requests.
LEMMA AddedViews ==
  ASSUME TypeInv, NEW m \in Message, Handling(m), m.kind = "added", Pending(agg', m.t) = 0
  PROVE  Viewed(agg', keys[m.t], m.t, keys[m.t])
<1>1. m.t \in Targets /\ agg \in Aggregator /\ keys[m.t] \in SUBSET Keys
  BY MessageFacts DEF TypeInv
<1>2. agg' = TargetAdded(agg, m.t)
  BY DEF Handling, Handles
<1>3. m.t \in DOMAIN agg'.states /\ StateOf(agg', m.t).docs = [k \in Keys |-> "none"]
  BY <1>1, <1>2, TargetAddedEffect
<1> QED BY <1>1, <1>3, NothingHeld, NoTokenAssumption DEF Viewed

\* A message about another target.
LEMMA OtherViews ==
  ASSUME TypeInv, NEW t \in Targets, NEW u, u # t, OneEntry(agg, agg', u)
  PROVE  /\ Pending(agg', t) = Pending(agg, t)
         /\ \A before : Viewed(agg, keys[t], t, before) => Viewed(agg', keys[t], t, before)
<1>1. /\ StateOf(agg', t) = StateOf(agg, t) /\ (t \in DOMAIN agg'.states <=> t \in DOMAIN agg.states)
      /\ \A k \in Keys : agg.updates[k] # "none" => agg'.updates[k] # "none"
  BY DEF OneEntry
<1>2. Sound(StateOf(agg, t), keys[t], agg.updates) => Sound(StateOf(agg', t), keys[t], agg'.updates)
  BY <1>1 DEF Sound
<1> QED BY <1>1, <1>2 DEF Viewed, Pending

\* A stale snapshot leaves the view alone.
LEMMA PassingViews ==
  ASSUME TypeInv, NEW m \in Message, Passing(m), NEW t \in Targets
  PROVE  /\ Pending(agg', t) = Pending(agg, t)
         /\ \A before : Viewed(agg, keys[t], t, before) => Viewed(agg', keys[t], t, before)
<1>1. /\ SameEntries(agg, agg') /\ agg'.updates = agg.updates
      /\ StateOf(agg', t).docs = StateOf(agg, t).docs
  BY DEF Passing
<1>2. Sound(StateOf(agg, t), keys[t], agg.updates) => Sound(StateOf(agg', t), keys[t], agg'.updates)
  BY <1>1 DEF Sound
<1>3. Shown(StateOf(agg', t), keys[t]) = Shown(StateOf(agg, t), keys[t])
  BY <1>1 DEF Shown, With
<1> QED BY <1>1, <1>2, <1>3 DEF Viewed, SameEntries

\* A raised snapshot turns the view into the documents of the target.
LEMMA RaisingViews ==
  ASSUME TypeInv, agg.resets = {}, NEW m \in Message, Raising(m), RaiseWatchSnapshot(m)
  PROVE  /\ outbox' = outbox
         /\ \A e : e = Event(m) => Mismatched(e) = {}
         /\ \A t \in Targets :
              /\ Pending(agg', t) = Pending(agg, t)
              /\ ~(t \in listening /\ Pending(agg, t) = 0)
                   => keys'[t] = keys[t] /\ token'[t] = token[t]
              /\ \A before \in SUBSET Keys :
                   /\ t \in listening /\ Pending(agg, t) = 0 /\ t \in DOMAIN m.view
                   /\ m.view[t] = before /\ Viewed(agg, keys[t], t, before)
                   => /\ keys'[t] = before /\ token'[t] = before
                      /\ Viewed(agg', before, t, before)
<1>1. PICK M \in Metadatas : M = Metadata /\ M.keys = keys /\ M.listened = listening
  BY MetadataType DEF Metadata
<1>2. m.kind = "snapshot"
  BY DEF Raising
<1>3. PICK a \in Aggregator :
        /\ a = WithTokens(m) /\ SameEntries(agg, a) /\ a.resets = {} /\ a.updates = agg.updates
        /\ \A u \in Targets : StateOf(a, u).docs = StateOf(agg, u).docs
        /\ \A u \in DOMAIN agg.states :
             IsActiveTarget(agg, M, u) /\ ViewTokens(m)[u] # NoToken
               => StateOf(a, u).token = ViewTokens(m)[u] /\ StateOf(a, u).changed
  <2>1. WithTokens(m) = TargetsUnchanged(agg, M, ViewTokens(m))
    BY <1>1 DEF WithTokens, ViewTokens
  <2>2. ViewTokens(m) \in [Targets -> Tokens] /\ agg \in Aggregator
    BY <1>2, ViewTokensType DEF TypeInv
  <2>3. PICK w \in [Targets -> Tokens] : w = ViewTokens(m)
    BY <2>2
  <2>4. PICK c : c = TargetsUnchanged(agg, M, w)
    OBVIOUS
  <2>5. /\ SameEntries(agg, c) /\ c.resets = {} /\ c.updates = agg.updates
        /\ \A u \in Targets : StateOf(c, u).docs = StateOf(agg, u).docs
        /\ \A u \in DOMAIN agg.states :
             IsActiveTarget(agg, M, u) /\ w[u] # NoToken
               => StateOf(c, u).token = w[u] /\ StateOf(c, u).changed
    BY <2>2, <2>4, TokensEffect
  <2>6. c \in Aggregator
    BY <2>5 DEF SameEntries
  <2> QED BY <2>1, <2>3, <2>4, <2>5, <2>6
<1>4. PICK e : e = Event(m)
  OBVIOUS
<1>5. e = CreateRemoteEvent(a, M) /\ Mismatched(e) = {}
  <2>1. e = CreateRemoteEvent(a, M)
    BY <1>1, <1>3, <1>4 DEF Event
  <2>2. e.mismatches = {}
    BY <1>3, <2>1, EventFacts
  <2> QED BY <2>1, <2>2 DEF Mismatched
<1>6. PICK b \in Aggregator :
        /\ b = AfterRemoteEvent(a, M) /\ SameEntries(a, b)
        /\ \A u \in DOMAIN a.states :
              IsActiveTarget(a, M, u) /\ a.states[u].changed
                => b.states[u].docs = [k \in Keys |-> "none"]
  <2>1. SameEntries(a, AfterRemoteEvent(a, M))
    BY AfterEventEffect
  <2>2. PICK c \in Aggregator : c = AfterRemoteEvent(a, M)
    BY <2>1 DEF SameEntries
  <2> QED BY <2>1, <2>2, AfterEventEffect
<1>7. PICK none \in SUBSET Targets : none = {}
  OBVIOUS
<1>8. /\ agg' = RecordPendingTargetRequests(b, none, 2)
      /\ keys' = [t \in Targets |-> KeysAfter(e, t)]
      /\ token' = [t \in Targets |-> TokenAfter(e, t)]
  <2>1. Event(m) = e /\ AfterRemoteEvent(WithTokens(m), Metadata) = b
    BY <1>1, <1>3, <1>4, <1>6
  <2>2. Mismatched(Event(m)) = none
    BY <1>4, <1>5, <1>7
  <2> QED BY <1>4, <2>1, <2>2 DEF RaiseWatchSnapshot
<1>9. outbox' = outbox
  <2>1. PICK ts \in SUBSET listening, r \in Seq(Request) :
       /\ ts \subseteq agg.resets /\ outbox' = outbox \o r
       /\ \A u \in Targets : Count(r, RequestsFor(u)) = IF u \in ts THEN 2 ELSE 0
    BY DEF Raising
  <2>2. \A u \in Targets : Count(r, RequestsFor(u)) = 0
    BY <2>1
  <2>3. r = <<>>
    <3> SUFFICES ASSUME r # <<>>
                 PROVE  FALSE
      OBVIOUS
    <3>1. Len(r) \in Nat /\ Len(r) >= 1 /\ r[1] \in Request
      BY TailFacts
    <3>2. r[1] \in RequestsFor(r[1].t) /\ r[1].t \in Targets
      BY <3>1 DEF RequestsFor, Request
    <3>3. Count(r, RequestsFor(r[1].t)) # 0
      BY <3>1, <3>2, CountType
    <3> QED BY <2>2, <3>2, <3>3
  <2>4. outbox \in Seq(Request)
    BY DEF TypeInv
  <2> QED BY <2>1, <2>3, <2>4, EmptySeq, ConcatEmptySeq
<1>10. \A u \in Targets : StateOf(agg', u) = StateOf(b, u)
  <2>1. 2 \in Nat
    OBVIOUS
  <2>2. \A u \in Targets \ none : StateOf(agg', u) = StateOf(b, u)
    BY <1>8, <2>1, RecordFacts
  <2> QED BY <1>7, <2>2
<1>11. DOMAIN agg'.states = DOMAIN agg.states
  <2>1. 2 \in Nat
    OBVIOUS
  <2>2. DOMAIN agg'.states = DOMAIN b.states \cup none
    BY <1>8, <2>1, RecordFacts
  <2> QED BY <1>3, <1>6, <1>7, <2>2 DEF SameEntries
<1>12. ASSUME NEW t \in Targets
       PROVE  Pending(agg', t) = Pending(agg, t) /\ Pending(a, t) = Pending(agg, t)
  BY <1>3, <1>6, <1>10 DEF SameEntries, Pending
<1>13. ASSUME NEW t \in Targets, ~(t \in listening /\ Pending(agg, t) = 0)
       PROVE  keys'[t] = keys[t] /\ token'[t] = token[t]
  <2>1. ~(t \in DOMAIN e.changes /\ t \in listening)
    <3> SUFFICES ASSUME t \in DOMAIN e.changes
                 PROVE  t \notin listening
      OBVIOUS
    <3>1. IsActiveTarget(a, M, t)
      BY <1>5, EventFacts
    <3> QED BY <1>12, <1>13, <3>1 DEF IsActiveTarget, Pending
  <2>2. KeysAfter(e, t) = keys[t] /\ TokenAfter(e, t) = token[t]
    BY <1>5, <2>1 DEF KeysAfter, TokenAfter
  <2> QED BY <1>8, <2>2
<1>14. ASSUME NEW t \in Targets, NEW before \in SUBSET Keys,
              t \in listening, Pending(agg, t) = 0, t \in DOMAIN m.view,
              m.view[t] = before, Viewed(agg, keys[t], t, before)
       PROVE  keys'[t] = before /\ token'[t] = before /\ Viewed(agg', before, t, before)
  <2>1. /\ t \in DOMAIN agg.states /\ Shown(StateOf(agg, t), keys[t]) = before
        /\ Sound(StateOf(agg, t), keys[t], agg.updates) /\ before # NoToken
    BY <1>14 DEF Viewed
  <2>2. IsActiveTarget(agg, M, t) /\ IsActiveTarget(a, M, t)
    BY <1>1, <1>12, <1>14 DEF IsActiveTarget, Pending
  <2>3. ViewTokens(m)[t] = before
    BY <1>14 DEF ViewTokens
  <2>4. t \in DOMAIN a.states /\ StateOf(a, t) = a.states[t]
    BY <1>3, <2>1 DEF SameEntries, StateOf
  <2>5. a.states[t].token = before /\ a.states[t].changed /\ a.states[t].docs = StateOf(agg, t).docs
    BY <1>3, <2>1, <2>2, <2>3, <2>4
  <2>6. Sound(a.states[t], M.keys[t], a.updates)
    BY <1>1, <1>3, <2>1, <2>5 DEF Sound
  <2>7. /\ t \in DOMAIN e.changes /\ e.changes[t].token = before
        /\ e.changes[t].added = With(a.states[t], "added")
        /\ e.changes[t].removed = With(a.states[t], "removed")
    BY <1>5, <2>2, <2>4, <2>5, <2>6, EventFacts
  <2>8. KeysAfter(e, t) = Shown(StateOf(agg, t), keys[t])
    BY <1>14, <2>5, <2>7 DEF KeysAfter, Shown, With
  <2>9. TokenAfter(e, t) = before
    BY <1>5, <1>14, <2>1, <2>7 DEF TokenAfter
  <2>10. keys'[t] = before /\ token'[t] = before
    BY <1>8, <2>1, <2>8, <2>9
  <2>11. b.states[t].docs = [k \in Keys |-> "none"]
    BY <1>6, <2>2, <2>4, <2>5
  <2>12. t \in DOMAIN agg'.states /\ StateOf(agg', t).docs = [k \in Keys |-> "none"]
    BY <1>6, <1>10, <1>11, <2>1, <2>4, <2>11 DEF StateOf, SameEntries
  <2> QED BY <2>1, <2>10, <2>12, NothingHeld DEF Viewed
<1>15. \A f : f = Event(m) => Mismatched(f) = {}
  BY <1>4, <1>5
<1> QED BY <1>9, <1>12, <1>13, <1>14, <1>15

-----------------------------------------------------------------------------
(* The invariant behind the resume tokens *)

\* The documents of a target are those of its resume token.
KeysAreTold ==
  \A t \in Targets : keys[t] = Base(token[t]) /\ keys[t] \subseteq Match[t]

RequestsMatch ==
  \A i \in 1..Len(outbox) : Base(outbox[i].token) \subseteq Match[outbox[i].t]

\* Where targets are listened to once, a watch request under way is the first thing
\* about its target on this stream.
OnlyWatch ==
  setting.listens <= 1 =>
  \A i \in 1..Len(outbox) : outbox[i].watch =>
    /\ \A j \in 1..Len(outbox) : outbox[j].t = outbox[i].t => i <= j
    /\ outbox[i].t \notin DOMAIN served /\ Messages(outbox[i].t) = 0

LastRequests == open => \A t \in listening : LastRequest(outbox, t, token[t])

\* The messages under way lead from what the client shows of an active target to
\* what the backend told about it.
StreamOf(t, w) ==
  /\ Stream(t, w, inbox, Told(t))
  /\ open /\ t \in listening =>
       /\ NoRequest(outbox, t) => LastAnswer(inbox, w, t, token[t])
       /\ Pending(agg, t) = 0 => Viewed(agg, keys[t], t, w[0])

Streams == \A t \in Targets : \E w : StreamOf(t, w)

WatchInv ==
  /\ CountInv /\ agg.resets = {} /\ KeysAreTold /\ RequestsMatch
  /\ OnlyWatch /\ LastRequests /\ Streams

\* WatchInv holds at first.
LEMMA InitWatch ==
  ASSUME OnceOrNeverRejected, Init
  PROVE  WatchInv
<1>1. CountInv
  BY InitCounts
<1>2. outbox = <<>> /\ inbox = <<>> /\ served = <<>> /\ agg = NewAggregator /\ ~open
      /\ keys = [t \in Targets |-> {}] /\ token = [t \in Targets |-> NoToken]
  BY DEF Init
<1>3. agg.resets = {}
  BY <1>2, NewAggregatorType
<1>4. KeysAreTold
  BY <1>2 DEF KeysAreTold, Base
<1>5. Len(outbox) = 0 /\ Len(inbox) = 0
  BY <1>2, EmptySeq
<1>6. RequestsMatch /\ OnlyWatch /\ LastRequests
  BY <1>2, <1>5 DEF RequestsMatch, OnlyWatch, LastRequests
<1>7. ASSUME NEW t \in Targets
      PROVE  \E w : StreamOf(t, w)
  <2>1. Told(t) = NoToken
    BY <1>2, EmptyMap DEF Told
  <2> DEFINE w == [i \in 0..0 |-> NoToken]
  <2>2. w \in [0..0 -> Tokens] /\ w[0] = NoToken /\ \A i \in 0..0 : w[i] = NoToken
    BY DEF Tokens
  <2> HIDE DEF w
  <2>3. Stream(t, w, inbox, Told(t))
    BY <1>5, <2>1, <2>2 DEF Stream, Base
  <2> QED BY <1>2, <2>3 DEF StreamOf
<1> QED BY <1>1, <1>3, <1>4, <1>6, <1>7 DEF WatchInv, Streams

\* Every step keeps the resets empty.
LEMMA ResetsStep ==
  ASSUME TypeInv, agg.resets = {}, FiltersAgree, Steps
  PROVE  agg'.resets = {}
<1>1. ASSUME NEW m \in Message, Handling(m)
      PROVE  agg'.resets = {}
  BY <1>1, HandlingResets
<1>2. \A m : Sends(m) => agg' = agg
  BY DEF Sends, SameClient
<1> QED BY <1>1, <1>2
   DEF Steps, Listening, Stopping, Asking, Opening, Breaking, Rejected, Passing, Raising,
       Answering, Refusing, Snapshotting, Writing, Stutters

\* Every step keeps KeysAreTold.
LEMMA KeysStep ==
  ASSUME WatchInv, Steps
  PROVE  KeysAreTold'
<1>1. TypeInv /\ agg.resets = {} /\ KeysAreTold /\ Streams
  BY DEF WatchInv, CountInv
<1>2. CASE keys' = keys /\ token' = token
  BY <1>1, <1>2 DEF KeysAreTold
<1>3. ASSUME NEW m \in Message, Raising(m), RaiseWatchSnapshot(m)
      PROVE  KeysAreTold'
  <2> SUFFICES ASSUME NEW t \in Targets
               PROVE  keys'[t] = Base(token'[t]) /\ keys'[t] \subseteq Match[t]
    BY DEF KeysAreTold
  <2>1. keys[t] = Base(token[t]) /\ keys[t] \subseteq Match[t]
    BY <1>1 DEF KeysAreTold
  <2>2. CASE ~(t \in listening /\ Pending(agg, t) = 0)
    <3>1. keys'[t] = keys[t] /\ token'[t] = token[t]
      BY <1>1, <1>3, <2>2, RaisingViews
    <3> QED BY <2>1, <3>1
  <2>3. CASE t \in listening /\ Pending(agg, t) = 0
    <3>1. PICK w : StreamOf(t, w)
      BY <1>1 DEF Streams
    <3>2. m.kind = "snapshot" /\ open /\ Takes(m)
      <4>1. m.kind = "snapshot" /\ Takes(m) /\ m = Head(inbox)
        BY <1>3 DEF Raising, Takes
      <4>2. open
        BY <1>1, <4>1 DEF WatchInv, CountInv, Closed, Takes
      <4> QED BY <4>1, <4>2
    <3>3. Viewed(agg, keys[t], t, w[0]) /\ Stream(t, w, inbox, Told(t))
      BY <2>3, <3>1, <3>2 DEF StreamOf
    <3>4. inbox \in Seq(Message) /\ inbox # <<>> /\ m = Head(inbox)
      BY <1>1, <3>2 DEF TypeInv, Takes
    <3>5. Follows(m, t, w[0], w[1]) /\ Base(w[1]) \subseteq Match[t] /\ w[1] \in Tokens
      BY <3>3, <3>4, ShiftStream
    <3>6. PICK before \in SUBSET Keys : before = w[0] /\ before \subseteq Match[t] /\ before # NoToken
      <4>1. w[1] = w[0] /\ w[0] # NoToken
        BY <3>2, <3>3, <3>5 DEF Follows, Viewed
      <4> QED BY <3>5, <4>1 DEF Tokens, Base
    <3>7. t \in DOMAIN m.view /\ m.view[t] = before
      BY <3>2, <3>5, <3>6 DEF Follows
    <3>8. keys'[t] = before /\ token'[t] = before
      BY <1>1, <1>3, <2>3, <3>3, <3>6, <3>7, RaisingViews
    <3> QED BY <3>6, <3>8 DEF Base
  <2> QED BY <2>2, <2>3
<1> QED BY <1>2, <1>3
   DEF Steps, Listening, Stopping, Asking, Opening, Breaking, Handling, Rejected, Passing,
       Telling, Answering, Refusing, Snapshotting, Sends, SameClient, Writing, Stutters

\* Every step keeps RequestsMatch.
LEMMA RequestsStep ==
  ASSUME WatchInv, Steps
  PROVE  RequestsMatch'
<1>1. TypeInv /\ agg.resets = {} /\ KeysAreTold /\ RequestsMatch
  BY DEF WatchInv, CountInv
<1>2. CASE outbox' = outbox
  BY <1>1, <1>2 DEF RequestsMatch
<1>3. outbox \in Seq(Request)
  BY <1>1 DEF TypeInv
<1>4. ASSUME NEW r \in Request, outbox' = Append(outbox, r), Base(r.token) \subseteq Match[r.t]
      PROVE  RequestsMatch'
  <2> SUFFICES ASSUME NEW i \in 1..Len(outbox')
               PROVE  Base(outbox'[i].token) \subseteq Match[outbox'[i].t]
    BY DEF RequestsMatch
  <2>1. /\ Len(outbox) \in Nat /\ Len(outbox') = Len(outbox) + 1 /\ outbox'[Len(outbox) + 1] = r
        /\ \A j \in 1..Len(outbox) : outbox'[j] = outbox[j]
    BY <1>3, <1>4, AppendFacts
  <2>2. i = Len(outbox) + 1 \/ i \in 1..Len(outbox)
    BY <2>1
  <2> QED BY <1>1, <1>4, <2>1, <2>2 DEF RequestsMatch
<1>5. ASSUME outbox # <<>>, outbox' = Tail(outbox)
      PROVE  RequestsMatch'
  <2> SUFFICES ASSUME NEW i \in 1..Len(outbox')
               PROVE  Base(outbox'[i].token) \subseteq Match[outbox'[i].t]
    BY DEF RequestsMatch
  <2>1. /\ Len(outbox) \in Nat /\ Len(outbox') = Len(outbox) - 1
        /\ \A j \in 1..(Len(outbox) - 1) : outbox'[j] = outbox[j + 1]
    BY <1>3, <1>5, TailFacts
  <2>2. i + 1 \in 1..Len(outbox) /\ outbox'[i] = outbox[i + 1]
    BY <2>1
  <2> QED BY <1>1, <2>2 DEF RequestsMatch
<1>6. ASSUME NEW r \in Request, Listening(r) \/ Stopping(r)
      PROVE  RequestsMatch'
  <2>1. Base(r.token) \subseteq Match[r.t]
    BY <1>1, <1>6 DEF Listening, Stopping, KeysAreTold, Request, Base
  <2>2. outbox' = outbox \/ outbox' = Append(outbox, r)
    BY <1>6 DEF Listening, Stopping, Asking
  <2> QED BY <1>2, <1>4, <2>1, <2>2
<1>7. CASE Opening
  <2>1. \A i \in 1..Len(outbox') : outbox'[i].t \in Targets /\ outbox'[i].token = token[outbox'[i].t]
    BY <1>1, <1>7 DEF Opening, TypeInv
  <2> QED BY <1>1, <2>1 DEF RequestsMatch, KeysAreTold
<1>8. CASE Breaking
  <2>1. Len(outbox') = 0
    BY <1>8, EmptySeq DEF Breaking
  <2> QED BY <2>1 DEF RequestsMatch
<1>9. ASSUME NEW m \in Message, Raising(m), RaiseWatchSnapshot(m)
      PROVE  outbox' = outbox
  BY <1>1, <1>9, RaisingViews
<1> QED BY <1>2, <1>5, <1>6, <1>7, <1>8, <1>9
   DEF Steps, Handling, Rejected, Passing, Telling, Answering, Refusing, Snapshotting,
       Writing, Stutters

\* Every step keeps LastRequests.
LEMMA LastRequestsStep ==
  ASSUME WatchInv, Steps
  PROVE  LastRequests'
<1>1. TypeInv /\ agg.resets = {} /\ LastRequests /\ CountInv /\ outbox \in Seq(Request)
  BY DEF WatchInv, CountInv, TypeInv
<1> SUFFICES ASSUME open', NEW t \in listening'
             PROVE  LastRequest(outbox', t, token'[t])
  BY DEF LastRequests
<1>2. t \in Targets
  BY <1>1, TypeStep DEF TypeInv
<1>3. ASSUME open, t \in listening
      PROVE  LastRequest(outbox, t, token[t])
  BY <1>1, <1>3 DEF LastRequests
<1>4. CASE outbox' = outbox /\ token'[t] = token[t] /\ open /\ t \in listening
  BY <1>3, <1>4
<1>5. ASSUME NEW r \in Request, Listening(r)
      PROVE  LastRequest(outbox', t, token'[t])
  <2>1. outbox' = Append(outbox, r) /\ token' = token /\ open
    BY <1>5 DEF Listening, Asking
  <2>2. IF r.t = t THEN r.watch /\ r.token = token[t] ELSE LastRequest(outbox, t, token[t])
    BY <1>3, <1>5, <2>1 DEF Listening
  <2> QED BY <1>1, <2>1, <2>2, AppendRequest
<1>6. ASSUME NEW r \in Request, Stopping(r)
      PROVE  LastRequest(outbox', t, token'[t])
  <2>1. outbox' = Append(outbox, r) /\ token' = token /\ open /\ t \in listening /\ r.t # t
    BY <1>6 DEF Stopping, Asking
  <2>2. IF r.t = t THEN r.watch /\ r.token = token[t] ELSE LastRequest(outbox, t, token[t])
    BY <1>3, <2>1
  <2> QED BY <1>1, <2>1, <2>2, AppendRequest
<1>7. CASE Opening
  BY <1>7 DEF Opening, LastRequest
<1>8. CASE outbox # <<>> /\ outbox' = Tail(outbox) /\ token' = token /\ open /\ t \in listening
  BY <1>1, <1>3, <1>8, TailRequest
<1>9. ASSUME NEW m \in Message, Raising(m), RaiseWatchSnapshot(m)
      PROVE  LastRequest(outbox', t, token'[t])
  <2>1. outbox' = outbox /\ open /\ t \in listening
    BY <1>1, <1>9, RaisingViews DEF Raising, SameBackend
  <2>2. CASE Pending(agg, t) # 0
    <3>1. token'[t] = token[t]
      BY <1>1, <1>2, <1>9, <2>2, RaisingViews
    <3> QED BY <1>4, <2>1, <3>1
  <2>3. CASE Pending(agg, t) = 0
    <3>1. Pending(agg, t) >= Requests(t) + Answers(t)
      BY <1>1, <1>2, <2>1 DEF CountInv, Counted, Sure
    <3>2. Requests(t) = 0
      BY <1>1, <1>2, <2>3, <3>1, CountsType
    <3>3. \A j \in 1..Len(outbox) : outbox[j].t # t
      BY <1>1, <1>2, <3>2, CountsType
    <3> QED BY <2>1, <3>3 DEF LastRequest
  <2> QED BY <2>2, <2>3
<1>10. ASSUME NEW m, Sends(m)
       PROVE  open /\ t \in listening /\ token' = token
  BY <1>10 DEF Sends, SameClient
<1> QED BY <1>4, <1>5, <1>6, <1>7, <1>8, <1>9, <1>10
   DEF Steps, Breaking, Handling, Rejected, Passing, SameBackend, Telling, Answering, Refusing,
       Snapshotting, Writing, Stutters

-----------------------------------------------------------------------------
(* A watch request is the first thing about its target *)

\* Every step keeps OnlyWatch.
LEMMA OnlyWatchStep ==
  ASSUME WatchInv, Steps
  PROVE  OnlyWatch'
<1>1. /\ TypeInv /\ agg.resets = {} /\ CountInv /\ outbox \in Seq(Request)
      /\ setting'.listens = setting.listens
  BY SettingSteps DEF WatchInv, CountInv, TypeInv, SettingStep
<1> SUFFICES ASSUME setting.listens <= 1, NEW i \in 1..Len(outbox'), outbox'[i].watch
             PROVE  /\ \A j \in 1..Len(outbox') : outbox'[j].t = outbox'[i].t => i <= j
                    /\ outbox'[i].t \notin DOMAIN served'
                    /\ Count(inbox', MessagesFor(outbox'[i].t)) = 0
  BY <1>1 DEF OnlyWatch, Messages
<1>2. PICK n \in Nat : n = Len(outbox)
  BY <1>1, LenProperties
<1>3. PICK t \in Targets : t = outbox'[i].t
  <2>1. outbox' \in Seq(Request)
    BY <1>1, TypeStep DEF TypeInv
  <2>2. outbox'[i] \in Request
    BY <2>1, ElementOfSeq
  <2> QED BY <2>2 DEF Request
<1> DEFINE Goal == /\ \A j \in 1..Len(outbox') : outbox'[j].t = t => i <= j
                   /\ t \notin DOMAIN served' /\ Messages(t)' = 0
<1> SUFFICES Goal
  BY <1>3 DEF Messages
<1>4. ASSUME NEW k \in 1..n, outbox[k].watch, outbox[k].t = t
      PROVE  /\ \A j \in 1..n : outbox[j].t = t => k <= j
             /\ t \notin DOMAIN served /\ Messages(t) = 0
  BY <1>2, <1>4 DEF WatchInv, OnlyWatch
<1>5. Messages(t)' \in Nat
  BY <1>1, NextCounts
<1>6. CASE outbox' = outbox /\ DOMAIN served' \subseteq DOMAIN served
           /\ (t \notin DOMAIN served /\ Messages(t) = 0 => Messages(t)' = 0)
  BY <1>2, <1>3, <1>4, <1>6
<1>7. ASSUME NEW m \in Message, Takes(m), outbox' = outbox, served' = served
      PROVE  Goal
  <2>1. Messages(t) = One(IsAbout(m, t)) + Messages(t)'
    BY <1>1, <1>7, TakesCounts
  <2> QED BY <1>5, <1>6, <1>7, <2>1 DEF One
<1>8. ASSUME NEW m, Sends(m)
      PROVE  Messages(t)' = Messages(t) + One(IsAbout(m, t))
  BY <1>1, <1>8, SendsCounts
<1>9. ASSUME NEW m, Sends(m), Telling(m)
      PROVE  Goal
  <2>1. t \notin DOMAIN served => ~IsAbout(m, t)
    BY <1>9 DEF Telling, IsAbout
  <2> QED BY <1>6, <1>8, <1>9, <2>1 DEF Telling, One
<1>10. ASSUME NEW m, Snapshotting(m)
      PROVE  Goal
  <2>1. Sends(m) /\ ~IsAbout(m, t) /\ outbox' = outbox /\ served' = served
    BY <1>10 DEF Snapshotting, IsAbout
  <2> QED BY <1>6, <1>8, <2>1 DEF One
<1>11. ASSUME NEW r \in Request, NEW m, outbox # <<>>, r = Head(outbox), outbox' = Tail(outbox),
              Sends(m), m.t = r.t, DOMAIN served' \subseteq DOMAIN served \cup {r.t}
       PROVE  Goal
  <2>1. /\ n >= 1 /\ Len(outbox') = n - 1 /\ r = outbox[1]
        /\ \A j \in 1..(n - 1) : outbox'[j] = outbox[j + 1]
    BY <1>1, <1>2, <1>11, TailFacts
  <2>2. i + 1 \in 1..n /\ outbox'[i] = outbox[i + 1] /\ 1 \in 1..n
    BY <1>2, <2>1
  <2>3. /\ \A j \in 1..n : outbox[j].t = t => i + 1 <= j
        /\ t \notin DOMAIN served /\ Messages(t) = 0
    BY <1>3, <1>4, <2>2
  <2>4. r.t # t
    BY <2>1, <2>2, <2>3
  <2>5. ~IsAbout(m, t)
    BY <1>11, <2>4 DEF IsAbout
  <2>6. \A j \in 1..Len(outbox') : outbox'[j].t = t => i <= j
    <3> TAKE j \in 1..Len(outbox')
    <3>1. j + 1 \in 1..n /\ outbox'[j] = outbox[j + 1]
      BY <1>2, <2>1
    <3> QED BY <2>3, <3>1
  <2> QED BY <1>8, <1>11, <2>3, <2>4, <2>5, <2>6 DEF One
<1>12. ASSUME NEW r \in Request, outbox' = Append(outbox, r), served' = served, inbox' = inbox,
              r.watch => Requests(r.t) = 0 /\ Messages(r.t) = 0 /\ r.t \notin DOMAIN served
       PROVE  Goal
  <2>1. /\ Len(outbox') = n + 1 /\ outbox'[n + 1] = r
        /\ \A j \in 1..n : outbox'[j] = outbox[j]
    BY <1>1, <1>2, <1>12, AppendFacts
  <2>2. Messages(t)' = Messages(t)
    BY <1>12, SameInbox
  <2>3. CASE i = n + 1
    <3>1. r.t = t /\ Requests(t) = 0 /\ Messages(t) = 0 /\ t \notin DOMAIN served
      BY <1>3, <1>12, <2>1, <2>3
    <3>2. \A j \in 1..n : outbox[j].t # t
      BY <1>1, <1>2, <3>1, CountsType
    <3>3. \A j \in 1..(n + 1) : j = n + 1 \/ j \in 1..n
      OBVIOUS
    <3> QED BY <1>12, <2>1, <2>2, <2>3, <3>1, <3>2, <3>3
  <2>4. CASE i \in 1..n
    <3>1. /\ \A j \in 1..n : outbox[j].t = t => i <= j
          /\ t \notin DOMAIN served /\ Messages(t) = 0
      BY <1>3, <1>4, <2>1, <2>4
    <3>2. \A j \in 1..(n + 1) : j = n + 1 \/ j \in 1..n
      OBVIOUS
    <3> QED BY <1>12, <2>1, <2>2, <2>4, <3>1, <3>2
  <2> QED BY <1>2, <2>1, <2>3, <2>4
<1>13. ASSUME NEW r \in Request, Listening(r)
       PROVE  Goal
  <2>1. served' = served /\ inbox' = inbox /\ r.t \in Targets
    BY <1>13 DEF Listening, Asking, Request
  <2>2. Requests(r.t) = 0 /\ Messages(r.t) = 0 /\ r.t \notin DOMAIN served
    <3>1. listens[r.t] = 0
      BY <1>1, <1>13, <2>1 DEF Listening, TypeInv, SettingType
    <3> QED BY <1>1, <2>1, <3>1 DEF CountInv, Traces, Untouched
  <2>3. CASE outbox' = outbox
    BY <1>6, <2>1, <2>3, SameInbox
  <2>4. CASE outbox' = Append(outbox, r)
    BY <1>12, <2>1, <2>2, <2>4
  <2> QED BY <1>13, <2>3, <2>4 DEF Listening, Asking
<1>14. ASSUME NEW r \in Request, Stopping(r)
       PROVE  Goal
  <2>1. served' = served /\ inbox' = inbox /\ ~r.watch
    BY <1>14 DEF Stopping, Asking
  <2>3. CASE outbox' = outbox
    BY <1>6, <2>1, <2>3, SameInbox
  <2>4. CASE outbox' = Append(outbox, r)
    BY <1>12, <2>1, <2>4
  <2> QED BY <1>14, <2>3, <2>4 DEF Stopping, Asking
<1>15. CASE Opening
  <2>1. /\ \A j, k \in 1..Len(outbox') : outbox'[j].t = outbox'[k].t => j = k
        /\ inbox' = inbox /\ served' = served /\ inbox = <<>> /\ DOMAIN served = {}
    BY <1>1, <1>15 DEF Opening, CountInv, Closed
  <2>2. Messages(t)' = 0
    BY <2>1, CountEmpty DEF Messages
  <2>3. Len(outbox') \in Nat
    <3>1. outbox' \in Seq(Request)
      BY <1>15 DEF Opening
    <3> QED BY <3>1, LenProperties
  <2> QED BY <1>3, <2>1, <2>2, <2>3
<1>16. CASE Breaking
  <2>1. Len(outbox') = 0
    BY <1>16, EmptySeq DEF Breaking
  <2> QED BY <2>1
<1>17. CASE Writing \/ Stutters
  BY <1>6, <1>17, SameInbox DEF Writing, Stutters
<1>18. ASSUME NEW m \in Message, Raising(m), RaiseWatchSnapshot(m)
       PROVE  Goal
  <2>1. outbox' = outbox /\ Takes(m) /\ served' = served
    BY <1>1, <1>18, RaisingViews DEF Raising, SameBackend
  <2> QED BY <1>7, <2>1
<1>19. ASSUME NEW m \in Message, Handling(m) \/ Rejected(m) \/ Passing(m)
       PROVE  Goal
  BY <1>7, <1>19 DEF Handling, Rejected, Passing, SameBackend
<1>20. ASSUME NEW r \in Request, NEW m, Answering(r, m) \/ Refusing(r, m)
       PROVE  Goal
  BY <1>11, <1>20 DEF Answering, Refusing
<1> QED BY <1>9, <1>10, <1>13, <1>14, <1>15, <1>16, <1>17, <1>18, <1>19, <1>20 DEF Steps

-----------------------------------------------------------------------------
(* The documents told about: the client takes a message *)

\* A count of 0 answers, message by message.
LEMMA NoAnswers ==
  ASSUME NEW q \in Seq(Message), NEW t \in Targets, Count(q, AnswersFor(t)) = 0
  PROVE  \A i \in 1..Len(q) : ~AnswersTo(q[i], t)
<1>1. \A i \in 1..Len(q) : q[i] \notin AnswersFor(t) /\ q[i] \in Message
  BY CountType, ElementOfSeq
<1> QED BY <1>1 DEF AnswersFor, AnswersTo

\* With the last request answered, the last answer under way is the last there will be.
LEMMA NoneOutstanding ==
  ASSUME TypeInv, Counted, NEW t \in listening, open, Pending(agg, t) = 0
  PROVE  Requests(t) = 0 /\ Answers(t) = 0
<1>1. t \in Targets
  BY DEF TypeInv
<1>2. Pending(agg, t) >= Requests(t) + Answers(t)
  BY <1>1 DEF Counted, Sure
<1> QED BY <1>1, <1>2, CountsType

\* The type of what the backend told about after a step.
LEMMA NextTold ==
  ASSUME served' \in Serveds, NEW t \in Targets
  PROVE  Told(t)' \in Tokens
<1>1. CASE t \in DOMAIN served'
  <2>1. served'[t] \in ServedState
    BY <1>1, ServedsDef
  <2> QED BY <1>1, <2>1 DEF Told, ServedState, Tokens
<1>2. CASE t \notin DOMAIN served'
  BY <1>2 DEF Told, Tokens
<1> QED BY <1>1, <1>2

\* What must hold of t after the step, with v as the documents told.
Streams2(t, v) ==
  /\ Stream(t, v, inbox', Told(t)')
  /\ open' /\ t \in listening' =>
       /\ NoRequest(outbox', t) => LastAnswer(inbox', v, t, token'[t])
       /\ Pending(agg', t) = 0 => Viewed(agg', keys'[t], t, v[0])

\* The client takes a message: the first one is gone.
LEMMA TakesStream ==
  ASSUME WatchInv, NEW t \in Targets, NEW w, StreamOf(t, w),
         NEW m \in Message, Takes(m), served' = served, outbox' = outbox, open' = open,
         listening' \subseteq listening,
         open /\ t \in listening' /\ NoRequest(outbox, t) =>
           LastAnswer(Tail(inbox), Shift(w, inbox), t, token'[t]),
         open /\ t \in listening' /\ Pending(agg', t) = 0 => Viewed(agg', keys'[t], t, w[1])
  PROVE  Streams2(t, Shift(w, inbox))
<1>1. inbox \in Seq(Message) /\ inbox # <<>> /\ inbox' = Tail(inbox) /\ Told(t)' = Told(t)
  BY DEF WatchInv, CountInv, TypeInv, Takes, Told
<1>2. Stream(t, w, inbox, Told(t))
  BY DEF StreamOf
<1>3. Stream(t, Shift(w, inbox), Tail(inbox), Told(t)) /\ Shift(w, inbox)[0] = w[1]
  BY <1>1, <1>2, ShiftStream
<1> QED BY <1>1, <1>3 DEF Streams2

\* The client takes a message about a target.
LEMMA HandlingStream ==
  ASSUME WatchInv, FiltersAgree, NEW t \in Targets, NEW w, StreamOf(t, w),
         NEW m \in Message, Handling(m)
  PROVE  Streams2(t, Shift(w, inbox))
<1>1. TypeInv /\ Counted /\ KeysAreTold
  BY DEF WatchInv, CountInv
<1>2. /\ Takes(m) /\ OneEntry(agg, agg', m.t) /\ served' = served /\ outbox' = outbox
      /\ open' = open /\ listening' = listening /\ keys' = keys /\ token' = token
      /\ m.kind \in {"found", "deleted", "added", "removed", "current", "reset", "filter"}
      /\ Pending(agg', m.t) = Pending(agg, m.t) - (IF m.kind \in {"added", "removed"} THEN 1 ELSE 0)
  BY DEF Handling, SameBackend
<1>3. inbox \in Seq(Message) /\ inbox # <<>> /\ inbox' = Tail(inbox) /\ m = Head(inbox)
  BY <1>1, <1>2 DEF TypeInv, Takes
<1>4. Stream(t, w, inbox, Told(t))
  BY DEF StreamOf
<1>5. Follows(m, t, w[0], w[1]) /\ w[1] \in Tokens /\ Base(w[1]) \subseteq Match[t]
  BY <1>3, <1>4, ShiftStream
<1>6. ASSUME open, t \in listening
      PROVE  /\ NoRequest(outbox, t) => LastAnswer(inbox, w, t, token[t])
             /\ Pending(agg, t) = 0 => Viewed(agg, keys[t], t, w[0])
  BY <1>6 DEF StreamOf
<1>7. ASSUME open, t \in listening, NoRequest(outbox, t)
      PROVE  LastAnswer(Tail(inbox), Shift(w, inbox), t, token[t])
  BY <1>3, <1>4, <1>6, <1>7, ShiftAnswer
<1>8. ASSUME open, t \in listening, Pending(agg', t) = 0
      PROVE  Viewed(agg', keys[t], t, w[1])
  <2>1. Pending(agg, t) \in Int
    BY <1>1, StateOfType DEF TypeInv, Pending, TargetState
  <2>2. CASE m.t # t
    <3>1. w[1] = w[0]
      BY <1>2, <1>5, <2>2 DEF Follows
    <3>2. Pending(agg', t) = Pending(agg, t)
          /\ \A before : Viewed(agg, keys[t], t, before) => Viewed(agg', keys[t], t, before)
      BY <1>1, <1>2, <2>2, OtherViews
    <3> QED BY <1>6, <1>8, <3>1, <3>2
  <2>3. CASE m.t = t /\ Pending(agg, t) = 0
    <3>1. m.kind \notin {"added", "removed"}
      BY <1>2, <1>8, <2>3
    <3>2. Viewed(agg, keys[t], t, w[0])
      BY <1>6, <1>8, <2>3
    <3>3. PICK before \in SUBSET Keys : before = w[0] /\ before \subseteq Match[t]
      <4>1. w[0] \in Tokens /\ Base(w[0]) \subseteq Match[t]
        <5>1. 0 \in 0..Len(inbox)
          BY <1>3, LenProperties
        <5> QED BY <1>4, <5>1 DEF Stream
      <4>2. w[0] # NoToken
        BY <3>2 DEF Viewed
      <4> QED BY <4>1, <4>2 DEF Tokens, Base
    <3>4. PICK after \in Tokens : after = w[1]
      BY <1>5
    <3>5. m.t \in listening /\ Pending(agg, m.t) = 0 /\ Viewed(agg, keys[m.t], m.t, before)
          /\ before \subseteq Match[m.t] /\ Follows(m, m.t, before, after)
      BY <1>5, <1>8, <2>3, <3>2, <3>3, <3>4
    <3>6. Viewed(agg', keys[m.t], m.t, after)
      BY <1>1, <3>1, <3>5, HandlingViews
    <3> QED BY <2>3, <3>4, <3>6
  <2>4. CASE m.t = t /\ Pending(agg, t) # 0
    <3>1. m.kind \in {"added", "removed"} /\ Pending(agg, t) = 1
      BY <1>2, <1>8, <2>1, <2>4
    <3>2. AnswersTo(m, t)
      BY <2>4, <3>1 DEF AnswersTo
    <3>3. Answers(t) = 1 + Answers(t)'
      BY <1>1, <1>2, <3>2, TakesCounts DEF One
    <3>4. /\ Requests(t) \in Nat /\ Answers(t) \in Nat
          /\ Pending(agg, t) >= Requests(t) + Answers(t)
      BY <1>1, <1>8, CountsType DEF Counted, Sure
    <3>5. Answers(t)' \in Nat
      <4>1. Tail(inbox) \in Seq(Message)
        BY <1>3, TailFacts
      <4> QED BY <1>3, <4>1, CountType DEF Answers
    <3>6. Requests(t) = 0 /\ Answers(t)' = 0
      BY <3>1, <3>3, <3>4, <3>5
    <3>7. NoRequest(outbox, t)
      BY <1>1, <3>6, CountsType DEF NoRequest
    <3>8. LastAnswer(inbox, w, t, token[t])
      BY <1>6, <1>8, <3>7
    <3>9. \A l \in 2..Len(inbox) : ~AnswersTo(inbox[l], t)
      <4> TAKE l \in 2..Len(inbox)
      <4>1. /\ Len(inbox) \in Nat /\ Tail(inbox) \in Seq(Message) /\ Len(Tail(inbox)) = Len(inbox) - 1
            /\ \A i \in 1..(Len(inbox) - 1) : Tail(inbox)[i] = inbox[i + 1]
        BY <1>3, TailFacts
      <4>2. l - 1 \in 1..(Len(inbox) - 1) /\ (l - 1) + 1 = l
        BY <4>1
      <4>3. ~AnswersTo(Tail(inbox)[l - 1], t)
        BY <1>3, <3>6, <4>1, <4>2, NoAnswers DEF Answers
      <4> QED BY <4>1, <4>2, <4>3
    <3>10. m.kind = "added" /\ w[1] = Base(token[t])
      <4>1. 1 \in 1..Len(inbox) /\ inbox[1] = m /\ (1 + 1) = 2
        BY <1>3, TailFacts
      <4> QED BY <3>2, <3>8, <3>9, <4>1 DEF LastAnswer
    <3>11. w[1] = keys[t]
      BY <1>1, <3>10 DEF KeysAreTold
    <3>12. Viewed(agg', keys[m.t], m.t, keys[m.t])
      BY <1>1, <1>8, <2>4, <3>10, AddedViews
    <3> QED BY <2>4, <3>11, <3>12
  <2> QED BY <2>2, <2>3, <2>4
<1> QED BY <1>2, <1>7, <1>8, TakesStream

\* The client takes a rejection.
LEMMA RejectedStream ==
  ASSUME WatchInv, NEW t \in Targets, NEW w, StreamOf(t, w), NEW m \in Message, Rejected(m)
  PROVE  Streams2(t, Shift(w, inbox))
<1>1. TypeInv
  BY DEF WatchInv, CountInv
<1>2. /\ Takes(m) /\ OneEntry(agg, agg', m.t) /\ served' = served /\ outbox' = outbox
      /\ open' = open /\ listening' = listening \ {m.t} /\ keys' = keys /\ token' = token
      /\ m.kind = "rejected"
  BY DEF Rejected, SameBackend
<1>3. inbox \in Seq(Message) /\ inbox # <<>> /\ inbox' = Tail(inbox) /\ m = Head(inbox)
  BY <1>1, <1>2 DEF TypeInv, Takes
<1>4. Stream(t, w, inbox, Told(t))
  BY DEF StreamOf
<1>5. Follows(m, t, w[0], w[1])
  BY <1>3, <1>4, ShiftStream
<1>6. ASSUME open, t \in listening'
      PROVE  /\ NoRequest(outbox, t) => LastAnswer(Tail(inbox), Shift(w, inbox), t, token[t])
             /\ Pending(agg', t) = 0 => Viewed(agg', keys[t], t, w[1])
  <2>1. m.t # t /\ t \in listening
    BY <1>2, <1>6
  <2>2. w[1] = w[0]
    BY <1>2, <1>5, <2>1 DEF Follows
  <2>3. Pending(agg', t) = Pending(agg, t)
        /\ \A before : Viewed(agg, keys[t], t, before) => Viewed(agg', keys[t], t, before)
    BY <1>1, <1>2, <2>1, OtherViews
  <2>4. /\ NoRequest(outbox, t) => LastAnswer(inbox, w, t, token[t])
        /\ Pending(agg, t) = 0 => Viewed(agg, keys[t], t, w[0])
    BY <1>6, <2>1 DEF StreamOf
  <2>5. NoRequest(outbox, t) => LastAnswer(Tail(inbox), Shift(w, inbox), t, token[t])
    BY <1>3, <1>4, <2>4, ShiftAnswer
  <2> QED BY <2>2, <2>3, <2>4, <2>5
<1> QED BY <1>2, <1>6, TakesStream

\* The client takes a stale snapshot.
LEMMA PassingStream ==
  ASSUME WatchInv, NEW t \in Targets, NEW w, StreamOf(t, w), NEW m \in Message, Passing(m)
  PROVE  Streams2(t, Shift(w, inbox))
<1>1. TypeInv
  BY DEF WatchInv, CountInv
<1>2. /\ Takes(m) /\ served' = served /\ outbox' = outbox /\ m.kind = "snapshot"
      /\ open' = open /\ listening' = listening /\ keys' = keys /\ token' = token
  BY DEF Passing, SameBackend
<1>3. inbox \in Seq(Message) /\ inbox # <<>> /\ inbox' = Tail(inbox) /\ m = Head(inbox)
  BY <1>1, <1>2 DEF TypeInv, Takes
<1>4. Stream(t, w, inbox, Told(t))
  BY DEF StreamOf
<1>5. Follows(m, t, w[0], w[1])
  BY <1>3, <1>4, ShiftStream
<1>6. ASSUME open, t \in listening
      PROVE  /\ NoRequest(outbox, t) => LastAnswer(Tail(inbox), Shift(w, inbox), t, token[t])
             /\ Pending(agg', t) = 0 => Viewed(agg', keys[t], t, w[1])
  <2>2. w[1] = w[0]
    BY <1>2, <1>5 DEF Follows
  <2>3. Pending(agg', t) = Pending(agg, t)
        /\ \A before : Viewed(agg, keys[t], t, before) => Viewed(agg', keys[t], t, before)
    BY <1>1, PassingViews
  <2>4. /\ NoRequest(outbox, t) => LastAnswer(inbox, w, t, token[t])
        /\ Pending(agg, t) = 0 => Viewed(agg, keys[t], t, w[0])
    BY <1>6 DEF StreamOf
  <2>5. NoRequest(outbox, t) => LastAnswer(Tail(inbox), Shift(w, inbox), t, token[t])
    BY <1>3, <1>4, <2>4, ShiftAnswer
  <2> QED BY <2>2, <2>3, <2>4, <2>5
<1> QED BY <1>2, <1>6, TakesStream

\* The client raises a snapshot.
LEMMA RaisingStream ==
  ASSUME WatchInv, NEW t \in Targets, NEW w, StreamOf(t, w),
         NEW m \in Message, Raising(m), RaiseWatchSnapshot(m)
  PROVE  Streams2(t, Shift(w, inbox))
<1>1. TypeInv /\ agg.resets = {} /\ Counted
  BY DEF WatchInv, CountInv
<1>2. /\ Takes(m) /\ served' = served /\ outbox' = outbox /\ m.kind = "snapshot"
      /\ open' = open /\ listening' = listening
  BY <1>1, RaisingViews DEF Raising, SameBackend
<1>3. inbox \in Seq(Message) /\ inbox # <<>> /\ inbox' = Tail(inbox) /\ m = Head(inbox)
  BY <1>1, <1>2 DEF TypeInv, Takes
<1>4. Stream(t, w, inbox, Told(t))
  BY DEF StreamOf
<1>5. Follows(m, t, w[0], w[1]) /\ Base(w[1]) \subseteq Match[t] /\ w[1] \in Tokens
  BY <1>3, <1>4, ShiftStream
<1>6. w[1] = w[0]
  BY <1>2, <1>5 DEF Follows
<1>7. Pending(agg', t) = Pending(agg, t)
  BY <1>1, RaisingViews
<1>8. ASSUME open, t \in listening
      PROVE  /\ NoRequest(outbox, t) => LastAnswer(Tail(inbox), Shift(w, inbox), t, token'[t])
             /\ Pending(agg', t) = 0 => Viewed(agg', keys'[t], t, w[1])
  <2>1. /\ NoRequest(outbox, t) => LastAnswer(inbox, w, t, token[t])
        /\ Pending(agg, t) = 0 => Viewed(agg, keys[t], t, w[0])
    BY <1>8 DEF StreamOf
  <2>2. CASE Pending(agg, t) # 0
    <3>1. token'[t] = token[t]
      BY <1>1, <2>2, RaisingViews
    <3>2. NoRequest(outbox, t) => LastAnswer(Tail(inbox), Shift(w, inbox), t, token[t])
      BY <1>3, <1>4, <2>1, ShiftAnswer
    <3> QED BY <1>7, <2>2, <3>1, <3>2
  <2>3. CASE Pending(agg, t) = 0
    <3>1. Answers(t) = 0
      BY <1>1, <1>8, <2>3, NoneOutstanding
    <3>2. \A i \in 1..Len(inbox) : ~AnswersTo(inbox[i], t)
      BY <1>3, <3>1, NoAnswers DEF Answers
    <3>3. \A i \in 1..Len(Tail(inbox)) : ~AnswersTo(Tail(inbox)[i], t)
      <4>1. /\ Len(inbox) \in Nat /\ Len(Tail(inbox)) = Len(inbox) - 1
            /\ \A i \in 1..(Len(inbox) - 1) : Tail(inbox)[i] = inbox[i + 1]
        BY <1>3, TailFacts
      <4> QED BY <3>2, <4>1
    <3>4. LastAnswer(Tail(inbox), Shift(w, inbox), t, token'[t])
      BY <3>3, NoAnswer
    <3>5. w[0] # NoToken /\ Viewed(agg, keys[t], t, w[0])
      BY <2>1, <2>3 DEF Viewed
    <3>6. PICK before \in SUBSET Keys : before = w[0] /\ before # NoToken
      BY <1>5, <1>6, <3>5 DEF Tokens
    <3>7. t \in DOMAIN m.view /\ m.view[t] = before
      BY <1>2, <1>5, <3>6 DEF Follows
    <3>8. keys'[t] = before /\ Viewed(agg', before, t, before)
      BY <1>1, <1>8, <2>3, <3>5, <3>6, <3>7, RaisingViews
    <3> QED BY <1>6, <3>4, <3>6, <3>8
  <2> QED BY <2>2, <2>3
<1> QED BY <1>2, <1>8, TakesStream

-----------------------------------------------------------------------------
(* The documents told about: the other steps *)

\* The client's requests and the breaks of the stream leave the messages alone, or drop them.
LEMMA SameStream ==
  ASSUME WatchInv, NEW t \in Targets, NEW w, StreamOf(t, w),
         inbox' = inbox, served' = served,
         open' /\ t \in listening' =>
           /\ NoRequest(outbox', t) => LastAnswer(inbox, w, t, token'[t])
           /\ Pending(agg', t) = 0 => Viewed(agg', keys'[t], t, w[0])
  PROVE  Streams2(t, w)
<1>1. Stream(t, w, inbox, Told(t))
  BY DEF StreamOf
<1>2. Told(t)' = Told(t)
  BY DEF Told
<1> QED BY <1>1, <1>2 DEF Streams2

\* The client sends a request.
LEMMA AskingStream ==
  ASSUME WatchInv, NEW t \in Targets, NEW w, StreamOf(t, w),
         NEW r \in Request, Listening(r) \/ Stopping(r)
  PROVE  Streams2(t, w)
<1>1. TypeInv /\ Counted /\ outbox \in Seq(Request) /\ r.t \in Targets
  BY DEF WatchInv, CountInv, TypeInv, Request
<1>2. /\ Asking(r) /\ inbox' = inbox /\ served' = served /\ open' = open
      /\ keys' = keys /\ token' = token
  BY DEF Listening, Stopping, Asking
<1>3. ASSUME open', t \in listening', r.t # t
      PROVE  /\ NoRequest(outbox', t) => LastAnswer(inbox, w, t, token'[t])
             /\ Pending(agg', t) = 0 => Viewed(agg', keys'[t], t, w[0])
  <2>1. open /\ t \in listening /\ outbox' = Append(outbox, r)
    BY <1>2, <1>3 DEF Listening, Stopping, Asking
  <2>2. /\ NoRequest(outbox, t) => LastAnswer(inbox, w, t, token[t])
        /\ Pending(agg, t) = 0 => Viewed(agg, keys[t], t, w[0])
    BY <2>1 DEF StreamOf
  <2>3. NoRequest(outbox', t) => NoRequest(outbox, t)
    <3>1. \A j \in 1..Len(outbox) : j \in 1..Len(outbox') /\ outbox'[j] = outbox[j]
      BY <1>1, <2>1, AppendFacts
    <3> QED BY <3>1 DEF NoRequest
  <2>4. OneEntry(agg, agg', r.t)
    BY <1>2, <2>1 DEF Asking, OneEntry
  <2>5. Pending(agg', t) = Pending(agg, t)
        /\ \A before : Viewed(agg, keys[t], t, before) => Viewed(agg', keys[t], t, before)
    BY <1>1, <1>3, <2>4, OtherViews
  <2> QED BY <1>2, <2>2, <2>3, <2>5
<1>4. ASSUME open', t \in listening', r.t = t
      PROVE  ~NoRequest(outbox', t) /\ Pending(agg', t) # 0
  <2>1. open /\ listens[t] < setting.listens /\ outbox' = Append(outbox, r)
        /\ Pending(agg', t) = Pending(agg, t) + 1
    BY <1>2, <1>4 DEF Listening, Stopping, Asking
  <2>2. Len(outbox) + 1 \in 1..Len(outbox') /\ outbox'[Len(outbox) + 1] = r
    BY <1>1, <2>1, AppendFacts
  <2>3. Requests(t) \in Nat /\ Answers(t) \in Nat /\ Pending(agg, t) >= Requests(t) + Answers(t)
    BY <1>1, <2>1, CountsType DEF Counted, Sure
  <2>4. Pending(agg, t) \in Int
    BY <1>1, StateOfType DEF TypeInv, Pending, TargetState
  <2> QED BY <1>4, <2>1, <2>2, <2>3, <2>4 DEF NoRequest
<1> QED BY <1>2, <1>3, <1>4, SameStream

\* The stream opens.
LEMMA OpeningStream ==
  ASSUME WatchInv, NEW t \in Targets, NEW w, StreamOf(t, w), Opening
  PROVE  Streams2(t, w)
<1>1. inbox = <<>>
  BY DEF WatchInv, CountInv, Closed, Opening
<1>2. \A i \in 1..Len(inbox) : ~AnswersTo(inbox[i], t)
  BY <1>1, EmptySeq
<1>3. LastAnswer(inbox, w, t, token'[t])
  BY <1>2, NoAnswer
<1>4. t \in listening' => Pending(agg', t) = 1
  BY DEF Opening
<1> QED BY <1>3, <1>4, SameStream DEF Opening

\* The stream breaks.
LEMMA BreakingStream ==
  ASSUME NEW t \in Targets, Breaking
  PROVE  \E w : Streams2(t, w)
<1> DEFINE w == [i \in 0..0 |-> NoToken]
<1>1. w \in [0..0 -> Tokens] /\ \A i \in 0..0 : w[i] = NoToken
  BY DEF Tokens
<1> HIDE DEF w
<1>2. Len(inbox') = 0
  BY EmptySeq DEF Breaking
<1>3. Told(t)' = NoToken
  BY EmptyMap DEF Told, Breaking
<1>4. Stream(t, w, inbox', Told(t)')
  BY <1>1, <1>2, <1>3 DEF Stream, Base
<1> QED BY <1>4 DEF Streams2, Breaking

\* The backend sends a message: the documents it told about are added.
LEMMA SendsStream ==
  ASSUME WatchInv, NEW t \in Targets, NEW w, StreamOf(t, w),
         NEW m \in Message, Sends(m), NEW after, after = Told(t)', Base(after) \subseteq Match[t],
         open /\ t \in listening /\ NoRequest(outbox', t) =>
           LastAnswer(Append(inbox, m), Extend(w, inbox, after), t, token[t])
  PROVE  \E v : Streams2(t, v)
<1>1. inbox \in Seq(Message)
  BY DEF WatchInv, CountInv, TypeInv
<1>2. Stream(t, w, inbox, Told(t)) /\ Follows(m, t, Told(t), after) /\ after \in Tokens
  BY NextTold DEF StreamOf, Sends
<1>3. Stream(t, Extend(w, inbox, after), Append(inbox, m), after)
      /\ Extend(w, inbox, after)[0] = w[0]
  BY <1>1, <1>2, ExtendStream
<1>4. open /\ t \in listening /\ Pending(agg, t) = 0 => Viewed(agg, keys[t], t, w[0])
  BY DEF StreamOf
<1>5. /\ inbox' = Append(inbox, m) /\ listening' = listening /\ keys' = keys /\ token' = token
      /\ agg' = agg /\ open' = open
  BY DEF Sends, SameClient
<1> QED BY <1>3, <1>4, <1>5 DEF Streams2

\* A message that answers no request of t.
LEMMA OtherStream ==
  ASSUME WatchInv, NEW t \in Targets, NEW w, StreamOf(t, w),
         NEW m \in Message, Sends(m), ~AnswersTo(m, t), Base(Told(t)') \subseteq Match[t],
         open /\ t \in listening /\ NoRequest(outbox', t) => LastAnswer(inbox, w, t, token[t])
  PROVE  \E v : Streams2(t, v)
<1>1. PICK after : after = Told(t)'
  OBVIOUS
<1>2. inbox \in Seq(Message)
  BY DEF WatchInv, CountInv, TypeInv
<1>3. open /\ t \in listening /\ NoRequest(outbox', t) =>
        LastAnswer(Append(inbox, m), Extend(w, inbox, after), t, token[t])
  BY <1>2, ExtendAnswer
<1> QED BY <1>1, <1>3, SendsStream

\* The backend tells about documents that match only.
LEMMA ToldMatches ==
  ASSUME WatchInv, NEW t \in Targets, NEW w, StreamOf(t, w)
  PROVE  Base(Told(t)) \subseteq Match[t]
<1>1. Len(inbox) \in Nat
  BY LenProperties DEF WatchInv, CountInv, TypeInv
<1>2. Len(inbox) \in 0..Len(inbox)
  BY <1>1
<1> QED BY <1>2 DEF StreamOf, Stream

\* The backend tells about a target, or sends a snapshot.
LEMMA TellingStream ==
  ASSUME WatchInv, NEW t \in Targets, NEW w, StreamOf(t, w),
         NEW m \in Message, Sends(m), Telling(m) \/ Snapshotting(m)
  PROVE  \E v : Streams2(t, v)
<1>1. ~AnswersTo(m, t) /\ outbox' = outbox
  BY DEF Telling, Snapshotting, AnswersTo
<1>2. Base(Told(t)') \subseteq Match[t]
  <2>1. Base(Told(t)) \subseteq Match[t]
    BY ToldMatches
  <2>2. CASE Telling(m) /\ m.t = t
    BY <2>1, <2>2 DEF Telling
  <2>3. CASE ~(Telling(m) /\ m.t = t)
    <3>1. Told(t)' = Told(t)
      BY <2>3 DEF Telling, Snapshotting, Told
    <3> QED BY <2>1, <3>1
  <2> QED BY <2>2, <2>3
<1> QED BY <1>1, <1>2, OtherStream DEF StreamOf

\* The backend answers a request: the documents of its token are the first it told about.
LEMMA AnsweringStream ==
  ASSUME WatchInv, NEW t \in Targets, NEW w, StreamOf(t, w),
         NEW r \in Request, NEW m \in Message, Answering(r, m)
  PROVE  \E v : Streams2(t, v)
<1>1. outbox \in Seq(Request) /\ inbox \in Seq(Message) /\ LastRequests /\ RequestsMatch
  BY DEF WatchInv, CountInv, TypeInv
<1>2. /\ Sends(m) /\ m.kind = (IF r.watch THEN "added" ELSE "removed") /\ m.t = r.t
      /\ outbox # <<>> /\ r = Head(outbox) /\ outbox' = Tail(outbox)
      /\ r.watch => Told(r.t)' = Base(r.token)
      /\ Follows(m, t, Told(t), Told(t)')
  BY DEF Answering, Sends
<1>3. Base(Told(t)) \subseteq Match[t]
  BY ToldMatches
<1>4. ASSUME open, t \in listening
      PROVE  /\ NoRequest(outbox, t) => LastAnswer(inbox, w, t, token[t])
             /\ r.t # t /\ NoRequest(Tail(outbox), t) => NoRequest(outbox, t)
             /\ r.t = t /\ NoRequest(Tail(outbox), t) => r.watch /\ r.token = token[t]
  <2>1. LastRequest(outbox, t, token[t])
    BY <1>1, <1>4 DEF LastRequests
  <2>2. NoRequest(outbox, t) => LastAnswer(inbox, w, t, token[t])
    BY <1>4 DEF StreamOf
  <2> QED BY <1>1, <1>2, <2>1, <2>2, TailRequest
<1>5. CASE r.t # t
  <2>1. ~AnswersTo(m, t) /\ Told(t)' = Told(t)
    BY <1>2, <1>5 DEF AnswersTo, Follows
  <2> QED BY <1>2, <1>3, <1>4, <1>5, <2>1, OtherStream
<1>6. CASE r.t = t
  <2>1. PICK after : after = Told(t)'
    OBVIOUS
  <2>2. AnswersTo(m, t)
    BY <1>2, <1>6 DEF AnswersTo
  <2>3. CASE ~r.watch
    <3>1. after = NoToken
      BY <1>2, <1>6, <2>1, <2>3 DEF Follows
    <3>2. Base(after) \subseteq Match[t]
      BY <3>1 DEF Base
    <3>3. open /\ t \in listening => ~NoRequest(outbox', t)
      BY <1>2, <1>4, <1>6, <2>3
    <3> QED BY <1>2, <2>1, <3>2, <3>3, SendsStream
  <2>4. CASE r.watch
    <3>1. after = Base(r.token) /\ m.kind = "added"
      BY <1>2, <1>6, <2>1, <2>4
    <3>2. Base(r.token) \subseteq Match[t]
      <4>1. 1 \in 1..Len(outbox) /\ outbox[1] = r
        BY <1>1, <1>2, TailFacts
      <4> QED BY <1>1, <1>6, <4>1 DEF RequestsMatch
    <3>3. Base(after) \subseteq Match[t]
      BY <3>1, <3>2 DEF Base
    <3>4. ASSUME open, t \in listening, NoRequest(outbox', t)
          PROVE  LastAnswer(Append(inbox, m), Extend(w, inbox, after), t, token[t])
      <4>1. after = Base(token[t])
        BY <1>2, <1>4, <1>6, <3>1, <3>4
      <4>2. LastAnswer(Append(inbox, m), Extend(w, inbox, Base(token[t])), t, token[t])
        BY <1>1, <2>2, <3>1, AddedAnswer
      <4> QED BY <4>1, <4>2
    <3> QED BY <1>2, <2>1, <3>3, <3>4, SendsStream
  <2> QED BY <2>3, <2>4
<1> QED BY <1>5, <1>6

\* The backend refuses a request: where it may, nothing else about the target is under way.
LEMMA RefusingStream ==
  ASSUME WatchInv, NEW t \in Targets, NEW w, StreamOf(t, w),
         NEW r \in Request, NEW m \in Message, Refusing(r, m)
  PROVE  \E v : Streams2(t, v)
<1>1. /\ TypeInv /\ outbox \in Seq(Request) /\ inbox \in Seq(Message) /\ LastRequests /\ OnlyWatch
      /\ Rejecting
  BY DEF WatchInv, CountInv, TypeInv
<1>2. /\ Sends(m) /\ m.kind = "rejected" /\ m.t = r.t /\ r.watch /\ served' = served
      /\ outbox # <<>> /\ r = Head(outbox) /\ outbox' = Tail(outbox)
  BY DEF Refusing
<1>3. Base(Told(t)') \subseteq Match[t]
  <2>1. Told(t)' = Told(t)
    BY <1>2 DEF Told
  <2> QED BY <2>1, ToldMatches
<1>4. ~AnswersTo(m, t)
  BY <1>2 DEF AnswersTo
<1>5. ASSUME open, t \in listening, NoRequest(outbox', t)
      PROVE  LastAnswer(inbox, w, t, token[t])
  <2>1. CASE r.t # t
    <3>1. LastRequest(outbox, t, token[t])
      BY <1>1, <1>5 DEF LastRequests
    <3>2. NoRequest(outbox, t)
      BY <1>1, <1>2, <1>5, <2>1, <3>1, TailRequest
    <3> QED BY <1>5, <3>2 DEF StreamOf
  <2>2. CASE r.t = t
    <3>1. setting.listens <= 1
      BY <1>1, <1>2 DEF Sends, Rejecting
    <3>2. 1 \in 1..Len(outbox) /\ outbox[1] = r
      BY <1>1, <1>2, TailFacts
    <3>3. Messages(t) = 0
      BY <1>1, <1>2, <2>2, <3>1, <3>2 DEF OnlyWatch
    <3>4. Answers(t) = 0
      BY <1>1, <3>3, CountsType
    <3>5. \A i \in 1..Len(inbox) : ~AnswersTo(inbox[i], t)
      BY <1>1, <3>4, NoAnswers DEF Answers
    <3> QED BY <3>5, NoAnswer
  <2> QED BY <2>1, <2>2
<1> QED BY <1>2, <1>3, <1>4, <1>5, OtherStream

\* Every step keeps Streams.
LEMMA StreamsStep ==
  ASSUME WatchInv, FiltersAgree, Steps
  PROVE  Streams'
<1> SUFFICES ASSUME NEW t \in Targets
             PROVE  \E v : Streams2(t, v)
  BY DEF Streams, StreamOf, Streams2
<1>1. PICK w : StreamOf(t, w)
  BY DEF WatchInv, Streams
<1>2. CASE \E r \in Request : Listening(r) \/ Stopping(r)
  BY <1>1, <1>2, AskingStream
<1>3. CASE Opening
  BY <1>1, <1>3, OpeningStream
<1>4. CASE Breaking
  BY <1>4, BreakingStream
<1>5. CASE \E m \in Message : Handling(m)
  BY <1>1, <1>5, HandlingStream
<1>6. CASE \E m \in Message : Rejected(m)
  BY <1>1, <1>6, RejectedStream
<1>7. CASE \E m \in Message : Passing(m)
  BY <1>1, <1>7, PassingStream
<1>8. CASE \E m \in Message : Raising(m) /\ RaiseWatchSnapshot(m)
  BY <1>1, <1>8, RaisingStream
<1>9. CASE \E m \in Message : (Telling(m) /\ Sends(m)) \/ Snapshotting(m)
  BY <1>1, <1>9, TellingStream DEF Snapshotting
<1>10. CASE \E r \in Request, m \in Message : Answering(r, m)
  BY <1>1, <1>10, AnsweringStream
<1>11. CASE \E r \in Request, m \in Message : Refusing(r, m)
  BY <1>1, <1>11, RefusingStream
<1>12. CASE Writing \/ Stutters
  <2>1. /\ inbox' = inbox /\ served' = served /\ open' = open /\ listening' = listening
        /\ outbox' = outbox /\ agg' = agg /\ keys' = keys /\ token' = token
    BY <1>12 DEF Writing, Stutters
  <2>2. Streams2(t, w)
    BY <1>1, <2>1, SameStream DEF StreamOf
  <2> QED BY <2>2
<1> QED BY <1>2, <1>3, <1>4, <1>5, <1>6, <1>7, <1>8, <1>9, <1>10, <1>11, <1>12 DEF Steps

-----------------------------------------------------------------------------
(* The invariant of the watch stream *)

\* The invariant of the watch stream.
LEMMA WatchProtocolInvariant == OnceOrNeverRejected /\ Spec /\ []FiltersAgree => []WatchInv
<1>1. OnceOrNeverRejected /\ Init => WatchInv
  BY InitWatch
<1>2. WatchInv /\ FiltersAgree /\ [Next]_vars => WatchInv'
  <2> SUFFICES ASSUME WatchInv, FiltersAgree, [Next]_vars
               PROVE  WatchInv'
    OBVIOUS
  <2>1. TypeInv /\ Closed /\ Traces /\ Rejecting /\ Counted /\ agg.resets = {}
    BY DEF WatchInv, CountInv
  <2>2. Steps
    BY <2>1, NextSteps
  <2>3. CountInv'
    BY <2>1, <2>2, TypeStep, ClosedStep, TracesStep, RejectingStep, CountedStep DEF CountInv
  <2>4. agg'.resets = {}
    BY <2>1, <2>2, ResetsStep
  <2> QED BY <2>2, <2>3, <2>4, KeysStep, RequestsStep, OnlyWatchStep, LastRequestsStep, StreamsStep
          DEF WatchInv
<1> QED BY <1>1, <1>2, PTL DEF Spec

\* The resume token of a target never promises documents the client does not have,
\* nor hides documents it has: what RaiseWatchSnapshot stores with a target is what
\* its view got, however often the target is listened to and the stream breaks.
THEOREM TokensPromiseKeys ==
  OnceOrNeverRejected /\ Spec /\ []FiltersAgree => []TokensMatchKeys
<1>1. WatchInv => TokensMatchKeys
  BY DEF WatchInv, KeysAreTold, TokensMatchKeys, Base
<1> QED BY <1>1, WatchProtocolInvariant, PTL

\* One step of SnapshotsAreComplete.
LEMMA SnapshotIsComplete ==
  ASSUME WatchInv, [Next]_vars, SnapshotArrives, NEW t \in listening \cap Head(inbox).current,
         IsActiveTarget(agg, Metadata, t)
  PROVE  keys'[t] = Head(inbox).view[t]
<1>1. TypeInv /\ agg.resets = {} /\ t \in Targets
  BY DEF WatchInv, CountInv, TypeInv
<1>2. OnSnapshot
  BY DEF SnapshotArrives, Receive, OnDocument, OnTargetChange, OnFilter, OnRejection, Arrives
<1>3. PICK m \in Message : Raising(m) /\ RaiseWatchSnapshot(m)
  BY <1>1, <1>2, FreshRaises DEF SnapshotArrives
<1>4. m = Head(inbox) /\ m.kind = "snapshot" /\ inbox # <<>> /\ inbox \in Seq(Message)
  BY <1>1, <1>3 DEF Raising, Takes, TypeInv
<1>5. open
  BY <1>4 DEF WatchInv, CountInv, Closed
<1>6. t \in listening /\ Pending(agg, t) = 0
  BY DEF IsActiveTarget, Pending
<1>7. PICK w : StreamOf(t, w)
  BY <1>1 DEF WatchInv, Streams
<1>8. Stream(t, w, inbox, Told(t)) /\ Viewed(agg, keys[t], t, w[0])
  BY <1>5, <1>6, <1>7 DEF StreamOf
<1>9. Follows(m, t, w[0], w[1]) /\ w[1] \in Tokens
  BY <1>1, <1>4, <1>8, ShiftStream
<1>10. PICK before \in SUBSET Keys : before = w[0] /\ before # NoToken
  BY <1>4, <1>8, <1>9 DEF Follows, Viewed, Tokens
<1>11. t \in DOMAIN m.view /\ m.view[t] = before
  BY <1>4, <1>9, <1>10 DEF Follows
<1> QED BY <1>1, <1>3, <1>4, <1>6, <1>8, <1>10, <1>11, RaisingViews

\* RaiseWatchSnapshot: after a snapshot, an active target that the backend calls current
\* has exactly the documents the backend says it has, whatever was told about, reset
\* or listened to again on the way.
THEOREM SnapshotsCompleteTargets ==
  OnceOrNeverRejected /\ Spec /\ []FiltersAgree => SnapshotsAreComplete
<1> DEFINE Complete ==
      SnapshotArrives =>
        LET m == Head(inbox) IN
        \A t \in listening \cap m.current :
          IsActiveTarget(agg, Metadata, t) /\ t \notin Mismatched(Event(m))
            => keys'[t] = m.view[t]
<1>1. WatchInv /\ [Next]_vars => [Complete]_vars
  BY SnapshotIsComplete
<1> QED BY <1>1, WatchProtocolInvariant, PTL DEF Spec, SnapshotsAreComplete

-----------------------------------------------------------------------------
(* No listen is lost *)

\* Every target the client listens to is asked for by the last request about it, or
\* served by the backend if none is left, unless a rejection is under way.
Kept(t) ==
  /\ LastRequest(outbox, t, token[t])
  /\ Rejections(t) = 0 /\ NoRequest(outbox, t) => Told(t) # NoToken

AllKept == open => \A t \in listening : Kept(t)

\* The last request of a mismatch asks for the target again, without a token.
LEMMA RewatchedLast ==
  ASSUME TypeInv, NEW e, NEW t \in Targets
  PROVE  /\ Rewatched(e) \in Seq(Request)
         /\ LastRequest(Rewatched(e), t, NoToken)
         /\ NoRequest(Rewatched(e), t) <=> t \notin Mismatched(e)
<1>1. PICK ts \in SUBSET Targets : ts = Mismatched(e)
  BY DEF Mismatched, TypeInv
<1>2. IsFiniteSet(ts)
  BY FiniteAssumption, FS_Subset
<1>3. PICK s \in Seq(ts) : s = SetToSeq(ts)
  BY <1>2, SetToSeqFacts
<1> DEFINE n == Len(s)
           g(i) == IF i % 2 = 1 THEN UnwatchRequest(s[(i + 1) \div 2]) ELSE RewatchRequest(s[i \div 2])
           r == [i \in 1..(2 * n) |-> g(i)]
<1>4. Rewatched(e) = r
  BY <1>1, <1>3 DEF Rewatched
<1>5. /\ Rewatched(e) \in Seq(Request)
      /\ Count(Rewatched(e), RequestsFor(t)) = IF t \in ts THEN 2 ELSE 0
  BY <1>1, RewatchedFacts
<1>6. NoRequest(Rewatched(e), t) <=> t \notin ts
  <2>1. \A i \in 1..Len(Rewatched(e)) : Rewatched(e)[i] \in Request
    BY <1>5, ElementOfSeq
  <2>2. Count(Rewatched(e), RequestsFor(t)) = 0
          <=> \A i \in 1..Len(Rewatched(e)) : Rewatched(e)[i] \notin RequestsFor(t)
    BY <1>5, CountType
  <2> QED BY <1>5, <2>1, <2>2 DEF NoRequest, RequestsFor
<1>7. n \in Nat
  BY LenProperties
<1> HIDE DEF n
<1>8. /\ \A i \in 1..(2 * n) : i % 2 = 1 => g(i).t = s[(i + 1) \div 2]
      /\ \A i \in 1..(2 * n) : i % 2 # 1 =>
           g(i).t = s[i \div 2] /\ g(i).watch /\ g(i).token = NoToken
  BY DEF UnwatchRequest, RewatchRequest
<1> HIDE DEF g
<1>9. Len(r) = 2 * n /\ \A i \in 1..(2 * n) : r[i] = g(i)
  <2>1. 2 * n \in Nat
    BY <1>7
  <2> QED BY <2>1
<1> HIDE DEF r
<1>10. ASSUME NEW j \in 1..(2 * n), g(j).t = t, \A l \in (j + 1)..(2 * n) : g(l).t # t
       PROVE  j % 2 # 1
  <2> SUFFICES ASSUME j % 2 = 1
               PROVE  FALSE
    OBVIOUS
  <2>1. PICK k \in 1..n : k = (j + 1) \div 2 /\ j = 2 * k - 1
    BY <1>7, TwoTimes
  <2>2. (2 * k) % 2 # 1 /\ (2 * k) \div 2 = k /\ 2 * k \in 1..(2 * n) /\ 2 * k = j + 1
    BY <1>7, <2>1
  <2>3. g(2 * k).t = g(j).t
    BY <1>8, <2>1, <2>2
  <2>4. 2 * k \in (j + 1)..(2 * n)
    BY <1>7, <2>2
  <2> QED BY <1>10, <2>3, <2>4
<1>11. LastRequest(r, t, NoToken)
  BY <1>8, <1>9, <1>10 DEF LastRequest
<1> QED BY <1>1, <1>4, <1>5, <1>6, <1>11

\* The last request, once several requests are sent.
LEMMA ConcatRequest ==
  ASSUME NEW p \in Seq(Request), NEW r \in Seq(Request), NEW t, NEW tok,
         IF NoRequest(r, t) THEN LastRequest(p, t, tok) ELSE LastRequest(r, t, tok)
  PROVE  /\ LastRequest(p \o r, t, tok)
         /\ NoRequest(p \o r, t) => NoRequest(p, t) /\ NoRequest(r, t)
<1> DEFINE n == Len(p)
           k == Len(r)
           s == p \o r
<1>1. /\ n \in Nat /\ k \in Nat /\ Len(s) = n + k
      /\ \A i \in 1..n : s[i] = p[i]
      /\ \A i \in (n + 1)..(n + k) : s[i] = r[i - n]
  BY ConcatProperties, LenProperties
<1> HIDE DEF n, k, s
<1>2. \A i \in 1..k : i + n \in (n + 1)..(n + k) /\ s[i + n] = r[i]
  BY <1>1
<1>3. ASSUME NoRequest(s, t)
      PROVE  NoRequest(p, t) /\ NoRequest(r, t)
  <2>1. \A i \in 1..n : i \in 1..(n + k)
    BY <1>1
  <2>2. \A i \in 1..k : i + n \in 1..(n + k)
    BY <1>1
  <2> QED BY <1>1, <1>2, <1>3, <2>1, <2>2 DEF NoRequest, n, k
<1>4. ASSUME NEW j \in 1..(n + k), s[j].t = t, \A l \in (j + 1)..(n + k) : s[l].t # t
      PROVE  s[j].watch /\ s[j].token = tok
  <2>1. CASE j \in 1..n
    <3>1. \A i \in 1..k : i + n \in (j + 1)..(n + k)
      BY <1>1, <2>1
    <3>2. NoRequest(r, t)
      BY <1>2, <1>4, <3>1 DEF NoRequest, k
    <3>3. \A l \in (j + 1)..n : l \in (j + 1)..(n + k) /\ l \in 1..n
      BY <1>1, <2>1
    <3>4. p[j].t = t /\ \A l \in (j + 1)..n : p[l].t # t
      BY <1>1, <1>4, <2>1, <3>3
    <3> QED BY <1>1, <2>1, <3>2, <3>4 DEF LastRequest, n
  <2>2. CASE j \notin 1..n
    <3>1. PICK i \in 1..k : j = i + n
      <4>1. j - n \in 1..k /\ j = (j - n) + n
        BY <1>1, <2>2
      <4> QED BY <4>1
    <3>2. r[i].t = t /\ s[j] = r[i]
      BY <1>2, <1>4, <3>1
    <3>3. ASSUME NEW l \in (i + 1)..k
          PROVE  r[l].t # t
      <4>1. l \in 1..k /\ l + n \in (j + 1)..(n + k)
        BY <1>1, <3>1
      <4> QED BY <1>2, <1>4, <4>1
    <3>4. ~NoRequest(r, t)
      BY <3>2 DEF NoRequest, k
    <3> QED BY <3>2, <3>3, <3>4 DEF LastRequest, k
  <2> QED BY <2>1, <2>2
<1>5. LastRequest(s, t, tok)
  BY <1>1, <1>4 DEF LastRequest
<1> QED BY <1>3, <1>5 DEF s

\* The tokens change with a snapshot only for targets no request is left about, or
\* which are asked for again.
LEMMA RaisingKeeps ==
  ASSUME CountInv, open, NEW m \in Message, Raising(m), RaiseWatchSnapshot(m),
         NEW t \in listening, LastRequest(outbox, t, token[t])
  PROVE  /\ LastRequest(outbox', t, token'[t])
         /\ NoRequest(outbox', t) => NoRequest(outbox, t)
<1>1. TypeInv /\ Counted /\ t \in Targets /\ outbox \in Seq(Request)
  BY DEF CountInv, TypeInv
<1>2. PICK e : e = Event(m)
  OBVIOUS
<1>3. outbox' = outbox \o Rewatched(e) /\ token' = [u \in Targets |-> TokenAfter(e, u)]
  BY <1>2 DEF RaiseWatchSnapshot
<1>4. /\ Rewatched(e) \in Seq(Request)
      /\ LastRequest(Rewatched(e), t, NoToken)
      /\ NoRequest(Rewatched(e), t) <=> t \notin Mismatched(e)
  BY <1>1, RewatchedLast
<1>5. t \in Mismatched(e) => token'[t] = NoToken
  BY <1>1, <1>3 DEF TokenAfter
<1>6. CASE Pending(agg, t) = 0
  <2>1. Requests(t) = 0
    BY <1>1, <1>6, CountsType DEF Counted, Sure
  <2>2. LastRequest(outbox, t, token'[t])
    BY <1>1, <2>1, CountsType DEF LastRequest
  <2> QED BY <1>1, <1>3, <1>4, <1>5, <2>2, ConcatRequest
<1>7. CASE Pending(agg, t) # 0
  <2>1. PICK M \in Metadatas : M = Metadata
    BY <1>1, MetadataType
  <2>2. PICK a \in Aggregator : a = WithTokens(m) /\ SameEntries(agg, a)
    <3>1. WithTokens(m) = TargetsUnchanged(agg, M, ViewTokens(m))
      BY <2>1 DEF WithTokens, ViewTokens
    <3>2. SameEntries(agg, WithTokens(m))
      BY <1>1, <3>1, ViewTokensType, TokensEffect DEF TypeInv, Raising
    <3> QED BY <3>2 DEF SameEntries
  <2>3. e = CreateRemoteEvent(a, M)
    BY <1>2, <2>1, <2>2 DEF Event
  <2>4. t \notin DOMAIN e.changes
    <3>1. Pending(a, t) # 0
      BY <1>1, <1>7, <2>2 DEF SameEntries
    <3> QED BY <2>3, <3>1, EventFacts DEF IsActiveTarget, Pending
  <2>5. t \notin Mismatched(e) => token'[t] = token[t]
    BY <1>1, <1>3, <2>4 DEF TokenAfter
  <2> QED BY <1>1, <1>3, <1>4, <1>5, <2>5, ConcatRequest
<1> QED BY <1>6, <1>7

\* Every step keeps AllKept.
LEMMA KeptStep ==
  ASSUME CountInv, AllKept, Steps
  PROVE  AllKept'
<1>1. TypeInv /\ Closed /\ Counted /\ outbox \in Seq(Request)
  BY DEF CountInv, TypeInv
<1> DEFINE Goal(t) == /\ LastRequest(outbox', t, token'[t])
                      /\ Rejections(t)' = 0 /\ NoRequest(outbox', t) => Told(t)' # NoToken
<1> SUFFICES ASSUME open', NEW t \in listening'
             PROVE  Goal(t)
  BY DEF AllKept, Kept
<1>2. t \in Targets
  BY <1>1, TypeStep DEF TypeInv
<1>3. ASSUME open, t \in listening
      PROVE  Kept(t)
  BY <1>3 DEF AllKept
<1>4. Rejections(t) \in Nat /\ Rejections(t)' \in Nat
  BY <1>1, <1>2, CountsType, NextCounts
<1>5. ASSUME NEW r \in Request, Listening(r) \/ Stopping(r)
      PROVE  Goal(t)
  <2>1. /\ outbox' = Append(outbox, r) /\ token' = token /\ open /\ inbox' = inbox
        /\ served' = served
    BY <1>5 DEF Listening, Stopping, Asking
  <2>2. IF r.t = t THEN r.watch /\ r.token = token[t] ELSE t \in listening
    BY <1>5 DEF Listening, Stopping
  <2>3. IF r.t = t THEN r.watch /\ r.token = token[t] ELSE LastRequest(outbox, t, token[t])
    BY <1>3, <2>1, <2>2 DEF Kept
  <2>4. /\ LastRequest(outbox', t, token[t])
        /\ NoRequest(outbox', t) => r.t # t /\ NoRequest(outbox, t)
    BY <1>1, <2>1, <2>3, AppendRequest
  <2>5. Rejections(t)' = Rejections(t) /\ Told(t)' = Told(t)
    BY <2>1, SameInbox DEF Told
  <2> QED BY <1>3, <2>1, <2>2, <2>4, <2>5 DEF Kept
<1>6. CASE Opening
  <2>1. LastRequest(outbox', t, token'[t])
    BY <1>6 DEF Opening, LastRequest
  <2>2. ~NoRequest(outbox', t)
    BY <1>6 DEF Opening, NoRequest
  <2> QED BY <2>1, <2>2
<1>7. CASE Breaking
  BY <1>7 DEF Breaking
<1>8. ASSUME NEW m \in Message, Takes(m), served' = served, open' = open, t \in listening,
             m.kind = "rejected" => m.t # t,
             LastRequest(outbox', t, token'[t]), NoRequest(outbox', t) => NoRequest(outbox, t)
      PROVE  Goal(t)
  <2>1. Rejections(t)' = Rejections(t)
    BY <1>1, <1>2, <1>4, <1>8, TakesCounts DEF Rejects, One
  <2>2. Told(t)' = Told(t)
    BY <1>8 DEF Told
  <2> QED BY <1>3, <1>8, <2>1, <2>2 DEF Kept
<1>9. ASSUME NEW m \in Message, Handling(m) \/ Rejected(m) \/ Passing(m)
      PROVE  Goal(t)
  <2>1. /\ Takes(m) /\ served' = served /\ open' = open /\ t \in listening
        /\ m.kind = "rejected" => m.t # t
        /\ outbox' = outbox /\ token' = token
    BY <1>9 DEF Handling, Rejected, Passing, SameBackend
  <2> QED BY <1>3, <1>8, <2>1 DEF Kept
<1>10. ASSUME NEW m \in Message, Raising(m), RaiseWatchSnapshot(m)
       PROVE  Goal(t)
  <2>1. /\ Takes(m) /\ served' = served /\ open' = open /\ t \in listening
        /\ m.kind # "rejected"
    BY <1>10 DEF Raising, SameBackend
  <2>2. LastRequest(outbox, t, token[t])
    BY <1>3, <2>1 DEF Kept
  <2> QED BY <1>8, <1>10, <2>1, <2>2, RaisingKeeps
<1>11. ASSUME NEW m, Sends(m)
       PROVE  /\ open /\ t \in listening /\ token' = token
              /\ Rejections(t)' = 0 => Rejections(t) = 0 /\ ~Rejects(m, t)
              /\ Rejections(t)' = 0 /\ Told(t) # NoToken /\ Told(t)' = NoToken
                   => m.kind = "removed" /\ m.t = t
  <2>1. open /\ t \in listening /\ token' = token /\ m \in Message
    BY <1>11 DEF Sends, SameClient
  <2>2. Rejections(t)' = Rejections(t) + One(Rejects(m, t))
    BY <1>1, <1>2, <1>11, SendsCounts
  <2>3. Rejections(t)' = 0 => Rejections(t) = 0 /\ ~Rejects(m, t)
    BY <1>4, <2>2 DEF One
  <2>4. Follows(m, t, Told(t), Told(t)')
    BY <1>2, <1>11 DEF Sends
  <2>5. Told(t) # NoToken => Told(t) \in SUBSET Keys
    BY <1>1, ServedsDef DEF TypeInv, Told, ServedState
  <2>6. m.kind \in {"added", "removed", "rejected", "reset", "found", "deleted", "current",
                    "filter", "snapshot"}
        /\ (m.kind \in {"found", "deleted"} => m.key \in Keys)
    BY <2>1, MessageFacts
  <2>7. ~Rejects(m, t) /\ Told(t) # NoToken /\ Told(t)' = NoToken => m.kind = "removed" /\ m.t = t
    BY <2>4, <2>5, <2>6, NoTokenAssumption DEF Follows, Rejects
  <2> QED BY <2>1, <2>3, <2>7
<1>12. ASSUME NEW m, (Telling(m) /\ Sends(m)) \/ Snapshotting(m)
       PROVE  Goal(t)
  <2>1. Sends(m) /\ outbox' = outbox /\ m.kind # "removed"
    BY <1>12 DEF Telling, Snapshotting
  <2> QED BY <1>3, <1>11, <2>1 DEF Kept
<1>13. ASSUME NEW r \in Request, NEW m, Answering(r, m)
       PROVE  Goal(t)
  <2>1. /\ Sends(m) /\ outbox # <<>> /\ r = Head(outbox) /\ outbox' = Tail(outbox)
        /\ m.kind = (IF r.watch THEN "added" ELSE "removed") /\ m.t = r.t
        /\ r.watch => Told(r.t)' = Base(r.token)
    BY <1>13 DEF Answering
  <2>2. LastRequest(outbox, t, token[t]) /\ open /\ t \in listening /\ token' = token
    BY <1>3, <1>11, <2>1 DEF Kept
  <2>3. /\ LastRequest(outbox', t, token[t])
        /\ r.t # t /\ NoRequest(outbox', t) => NoRequest(outbox, t)
        /\ r.t = t /\ NoRequest(outbox', t) => r.watch
    BY <1>1, <2>1, <2>2, TailRequest
  <2>4. Base(r.token) # NoToken
    BY NoTokenAssumption DEF Base, Request, Tokens
  <2>5. CASE r.t = t
    BY <2>1, <2>2, <2>3, <2>4, <2>5
  <2>6. CASE r.t # t
    BY <1>3, <1>11, <2>1, <2>2, <2>3, <2>6 DEF Kept
  <2> QED BY <2>5, <2>6
<1>14. ASSUME NEW r \in Request, NEW m, Refusing(r, m)
       PROVE  Goal(t)
  <2>1. /\ Sends(m) /\ outbox # <<>> /\ r = Head(outbox) /\ outbox' = Tail(outbox)
        /\ m.kind = "rejected" /\ m.t = r.t
    BY <1>14 DEF Refusing
  <2>2. LastRequest(outbox, t, token[t]) /\ open /\ t \in listening /\ token' = token
    BY <1>3, <1>11, <2>1 DEF Kept
  <2>3. /\ LastRequest(outbox', t, token[t])
        /\ r.t # t /\ NoRequest(outbox', t) => NoRequest(outbox, t)
    BY <1>1, <2>1, <2>2, TailRequest
  <2>4. Rejections(t)' = 0 => r.t # t
    BY <1>11, <2>1 DEF Rejects
  <2> QED BY <1>3, <1>11, <2>1, <2>2, <2>3, <2>4 DEF Kept
<1>15. CASE Writing \/ Stutters
  <2>1. /\ outbox' = outbox /\ inbox' = inbox /\ served' = served /\ open /\ t \in listening
        /\ token' = token
    BY <1>15 DEF Writing, Stutters
  <2>2. Rejections(t)' = Rejections(t) /\ Told(t)' = Told(t)
    BY <2>1, SameInbox DEF Told
  <2> QED BY <1>3, <2>1, <2>2 DEF Kept
<1> QED BY <1>5, <1>6, <1>7, <1>9, <1>10, <1>12, <1>13, <1>14, <1>15 DEF Steps

\* The last request under way about a target, as ListensAreServed has it.
LEMMA KeptIsServed ==
  ASSUME CountInv, AllKept
  PROVE  ListensAreServed
<1>1. TypeInv /\ outbox \in Seq(Request)
  BY DEF CountInv, TypeInv
<1> SUFFICES ASSUME open, NEW t \in listening, ~IsRejected(t)
             PROVE  /\ \A i \in 1..Len(outbox) : IsLast(i, t) => outbox[i] = WatchRequest(t)
                    /\ AllAnswered(t) => t \in DOMAIN served
  BY DEF ListensAreServed
<1>2. t \in Targets /\ Kept(t)
  BY <1>1 DEF AllKept, TypeInv
<1>3. Rejections(t) = 0
  BY <1>1, <1>2, DueIsCounted
<1>4. ASSUME NEW i \in 1..Len(outbox), IsLast(i, t)
      PROVE  outbox[i] = WatchRequest(t)
  <2>1. outbox[i] \in Request
    BY <1>1, ElementOfSeq
  <2>2. outbox[i].t = t /\ outbox[i].watch /\ outbox[i].token = token[t]
    BY <1>2, <1>4 DEF Kept, LastRequest, IsLast
  <2> QED BY <2>1, <2>2 DEF Request, WatchRequest
<1>5. AllAnswered(t) => t \in DOMAIN served
  BY <1>2, <1>3 DEF Kept, AllAnswered, NoRequest, Told
<1> QED BY <1>4, <1>5

\* No listen is lost: whatever calls, breaks, mismatches and, where a target is
\* listened to once, rejections cross on their way, the last request about a target
\* the client listens to watches it with the client's token, and the backend serves
\* it once its requests are answered, unless a rejection is about to end the listen.
THEOREM ListensReachTheBackend == OnceOrNeverRejected /\ Spec => []ListensAreServed
<1>1. Init => AllKept
  BY DEF Init, AllKept
<1>2. CountInv /\ AllKept /\ [Next]_vars => AllKept'
  <2> SUFFICES ASSUME CountInv, AllKept, [Next]_vars
               PROVE  AllKept'
    OBVIOUS
  <2>1. Steps
    BY NextSteps DEF CountInv
  <2> QED BY <2>1, KeptStep
<1>3. CountInv /\ AllKept => ListensAreServed
  BY KeptIsServed
<1> QED BY <1>1, <1>2, <1>3, CountInvariant, PTL DEF Spec
=============================================================================
