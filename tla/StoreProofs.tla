----------------------------- MODULE StoreProofs -----------------------------
(***************************************************************************)
(* Machine-checked facts about what koder keeps where several processes or *)
(* several turns change it: the review queue of memory candidates, for any *)
(* number of candidates and any bound; the stored credential of a          *)
(* provider, for any number of calls; the worktree of a session, for any   *)
(* number of runtimes, checkouts, commits and disturbances; the file       *)
(* snapshots of a session, for any number of files, turns, writes and any  *)
(* limit of snapshots; and the files and the record of a plugin, for any   *)
(* number of versions, crashes and failing calls.                          *)
(***************************************************************************)
EXTENDS
    Candidates, TokenRefresh, Checkpoints, Worktrees, PluginInstall, FiniteSetTheorems,
    SequenceTheorems, WellFoundedInduction, TLAPS

(***************************************************************************)
(* The review queue.                                                       *)
(***************************************************************************)

\* What waits for a decision.
Waiting(d) == Open(d) \ Receipted(d)

\* Only a finite set has a size that a bound can be held against.
QueueInv == CandidatesTypeOK /\ CandidatesAccounted /\ IsFiniteSet(Waiting(files))

LEMMA QueueInit == CandidatesInit => QueueInv
<1> SUFFICES ASSUME CandidatesInit PROVE QueueInv
  OBVIOUS
<1>1. Open(files) = {} /\ Receipted(files) = {} /\ files["memory"] = {}
  BY DEF CandidatesInit, Places, Open, Receipted
<1>2. Waiting(files) = {}
  BY <1>1 DEF Waiting
<1>3. IsFiniteSet(Waiting(files)) /\ Cardinality(Waiting(files)) = 0
  BY <1>2, FS_EmptySet
<1>4. CandidatesTypeOK
  BY <1>1 DEF CandidatesTypeOK, CandidatesInit, Places
<1>5. CandidatesAccounted
  BY <1>1, <1>3, CandidateConstants DEF CandidatesAccounted, CandidatesInit, Places, Waiting
<1> QED
  BY <1>3, <1>4, <1>5 DEF QueueInv

\* The state d of the files obeys the books, were e the candidates ever staged.
QueueBooks(d, e) ==
    /\ d \in [Places -> SUBSET CandidateIds]
    /\ e = Open(d) \cup Receipted(d)
    /\ d["pending"] \cap d["processing"] = {}
    /\ d["approved"] \cap d["rejected"] = {}
    /\ d["memory"] \subseteq d["processing"] \cup Receipted(d)
    /\ IsFiniteSet(Waiting(d)) /\ Cardinality(Waiting(d)) <= MaxCandidates

LEMMA QueueBooksEquiv ==
    QueueInv <=>
        /\ QueueBooks(files, everStaged)
        /\ linked \subseteq Places \X CandidateIds
        /\ edited \subseteq files["memory"] /\ everStaged \subseteq CandidateIds
BY DEF QueueInv, QueueBooks, CandidatesTypeOK, CandidatesAccounted, Waiting

\* Reaping the files of decided candidates changes nothing in the books.
LEMMA ReapedBooks ==
    ASSUME QueueBooks(files, everStaged), NEW kept
    PROVE  /\ QueueBooks(Reaped(kept), everStaged)
           /\ Reaped(kept)["memory"] = files["memory"]
<1> DEFINE d == Reaped(kept)
<1>1. /\ d \in [Places -> SUBSET CandidateIds]
      /\ d["pending"] = files["pending"] \ (Receipted(files) \ kept)
      /\ d["processing"] = files["processing"] \ (Receipted(files) \ kept)
      /\ d["approved"] = files["approved"] /\ d["rejected"] = files["rejected"]
      /\ d["memory"] = files["memory"]
  BY DEF QueueBooks, Reaped, Places
<1> HIDE DEF d
<1>2. Receipted(d) = Receipted(files)
  BY <1>1 DEF Receipted
<1>3. Waiting(d) = Waiting(files)
  BY <1>1, <1>2 DEF Waiting, Open
<1>4. Open(d) \cup Receipted(d) = Open(files) \cup Receipted(files)
  BY <1>1, <1>2 DEF Open
<1>5. /\ d["pending"] \cap d["processing"] = {}
      /\ d["approved"] \cap d["rejected"] = {}
      /\ d["memory"] \subseteq d["processing"] \cup Receipted(d)
  BY <1>1, <1>2 DEF QueueBooks
<1>6. QueueBooks(d, everStaged)
  BY <1>1, <1>3, <1>4, <1>5 DEF QueueBooks
<1> QED
  BY <1>1, <1>6 DEF d

\* A candidate that is new finds room, or is refused.
LEMMA StagedBooks ==
    ASSUME NEW d, NEW e, QueueBooks(d, e), NEW c \in CandidateIds,
           c \notin Open(d) \cup Receipted(d), RoomIn(d)
    PROVE  QueueBooks(Put(d, "pending", c), e \cup {c})
<1> DEFINE n == Put(d, "pending", c)
<1>1. /\ n \in [Places -> SUBSET CandidateIds]
      /\ n["pending"] = d["pending"] \cup {c} /\ n["processing"] = d["processing"]
      /\ n["approved"] = d["approved"] /\ n["rejected"] = d["rejected"]
      /\ n["memory"] = d["memory"]
  BY DEF QueueBooks, Put, Places
<1> HIDE DEF n
<1>2. Receipted(n) = Receipted(d)
  BY <1>1 DEF Receipted
<1>3. Waiting(n) = Waiting(d) \cup {c}
  BY <1>1, <1>2 DEF Waiting, Open
<1>4. c \notin Waiting(d)
  BY DEF Waiting
<1>5. IsFiniteSet(Waiting(d)) /\ Cardinality(Waiting(d)) < MaxCandidates
  BY DEF QueueBooks, RoomIn, Waiting
<1>6. Cardinality(Waiting(d)) \in Nat
  BY <1>5, FS_CardinalityType
<1>7. IsFiniteSet(Waiting(n)) /\ Cardinality(Waiting(n)) = Cardinality(Waiting(d)) + 1
  BY <1>3, <1>4, <1>5, FS_AddElement
<1>8. Cardinality(Waiting(n)) <= MaxCandidates
  BY <1>5, <1>6, <1>7, CandidateConstants
<1>9. /\ e \cup {c} = Open(n) \cup Receipted(n)
      /\ n["pending"] \cap n["processing"] = {}
      /\ n["approved"] \cap n["rejected"] = {}
      /\ n["memory"] \subseteq n["processing"] \cup Receipted(n)
  BY <1>1, <1>2 DEF QueueBooks, Open
<1>10. QueueBooks(n, e \cup {c})
  BY <1>1, <1>7, <1>8, <1>9 DEF QueueBooks
<1> QED
  BY <1>10 DEF n

\* The queue shrinks with the set of those that wait.
LEMMA SmallerQueue ==
    ASSUME NEW d, NEW e, QueueBooks(d, e), NEW n, Waiting(n) \subseteq Waiting(d)
    PROVE  IsFiniteSet(Waiting(n)) /\ Cardinality(Waiting(n)) <= MaxCandidates
<1>1. Waiting(n) \in SUBSET Waiting(d) /\ IsFiniteSet(Waiting(d))
  BY DEF QueueBooks
<1>2. IsFiniteSet(Waiting(n)) /\ Cardinality(Waiting(n)) <= Cardinality(Waiting(d))
  BY <1>1, FS_Subset
<1>3. Cardinality(Waiting(n)) \in Nat /\ Cardinality(Waiting(d)) \in Nat
  BY <1>1, <1>2, FS_CardinalityType
<1> QED
  BY <1>2, <1>3, CandidateConstants DEF QueueBooks

\* Claiming a candidate, and writing its memory and its receipt, keep the
\* books, and so does each beginning of these steps.
LEMMA ApprovedBooks ==
    ASSUME NEW d, NEW e, QueueBooks(d, e), NEW c \in CandidateIds, c \in Waiting(d)
    PROVE  LET claimed == Put(Drop(d, c), "processing", c)
               written == Put(claimed, "memory", c)
               done == Put(written, "approved", c) IN
           /\ QueueBooks(claimed, e) /\ claimed["memory"] = d["memory"]
           /\ QueueBooks(written, e) /\ d["memory"] \subseteq written["memory"]
           /\ QueueBooks(done, e) /\ d["memory"] \subseteq done["memory"]
           /\ QueueBooks(Drop(done, c), e) /\ d["memory"] \subseteq Drop(done, c)["memory"]
<1> DEFINE claimed == Put(Drop(d, c), "processing", c)
           written == Put(claimed, "memory", c)
           done == Put(written, "approved", c)
           over == Drop(done, c)
<1>1. d \in [Places -> SUBSET CandidateIds] /\ c \in Open(d) /\ c \notin Receipted(d)
  BY DEF QueueBooks, Waiting
<1>2. /\ claimed \in [Places -> SUBSET CandidateIds]
      /\ claimed["pending"] = d["pending"] \ {c}
      /\ claimed["processing"] = (d["processing"] \ {c}) \cup {c}
      /\ claimed["approved"] = d["approved"] /\ claimed["rejected"] = d["rejected"]
      /\ claimed["memory"] = d["memory"]
  BY <1>1 DEF Put, Drop, Places
<1> HIDE DEF claimed
<1>3. /\ written \in [Places -> SUBSET CandidateIds]
      /\ written["pending"] = claimed["pending"]
      /\ written["processing"] = claimed["processing"]
      /\ written["approved"] = d["approved"] /\ written["rejected"] = d["rejected"]
      /\ written["memory"] = d["memory"] \cup {c}
  BY <1>2 DEF Put, Places
<1> HIDE DEF written
<1>4. /\ done \in [Places -> SUBSET CandidateIds]
      /\ done["pending"] = claimed["pending"]
      /\ done["processing"] = claimed["processing"]
      /\ done["approved"] = d["approved"] \cup {c} /\ done["rejected"] = d["rejected"]
      /\ done["memory"] = d["memory"] \cup {c}
  BY <1>3 DEF Put, Places
<1> HIDE DEF done
<1>5. /\ over \in [Places -> SUBSET CandidateIds]
      /\ over["pending"] = claimed["pending"] \ {c}
      /\ over["processing"] = claimed["processing"] \ {c}
      /\ over["approved"] = d["approved"] \cup {c} /\ over["rejected"] = d["rejected"]
      /\ over["memory"] = d["memory"] \cup {c}
  BY <1>4 DEF Drop, Places
<1> HIDE DEF over
<1>6. c \notin d["rejected"] /\ c \notin d["approved"]
  BY <1>1 DEF Receipted
<1>7. QueueBooks(claimed, e)
  <2>1. Open(claimed) = Open(d) /\ Receipted(claimed) = Receipted(d)
    BY <1>1, <1>2 DEF Open, Receipted
  <2>2. Waiting(claimed) \subseteq Waiting(d)
    BY <2>1 DEF Waiting
  <2>3. IsFiniteSet(Waiting(claimed)) /\ Cardinality(Waiting(claimed)) <= MaxCandidates
    BY <2>2, SmallerQueue
  <2> QED
    BY <1>2, <2>1, <2>3 DEF QueueBooks
<1>8. QueueBooks(written, e)
  <2>1. Open(written) = Open(d) /\ Receipted(written) = Receipted(d)
    BY <1>1, <1>2, <1>3 DEF Open, Receipted
  <2>2. Waiting(written) \subseteq Waiting(d)
    BY <2>1 DEF Waiting
  <2>3. IsFiniteSet(Waiting(written)) /\ Cardinality(Waiting(written)) <= MaxCandidates
    BY <2>2, SmallerQueue
  <2> QED
    BY <1>2, <1>3, <2>1, <2>3 DEF QueueBooks
<1>9. QueueBooks(done, e)
  <2>1. Open(done) = Open(d) /\ Receipted(done) = Receipted(d) \cup {c}
    BY <1>1, <1>2, <1>4 DEF Open, Receipted
  <2>2. Waiting(done) \subseteq Waiting(d)
    BY <2>1 DEF Waiting
  <2>3. IsFiniteSet(Waiting(done)) /\ Cardinality(Waiting(done)) <= MaxCandidates
    BY <2>2, SmallerQueue
  <2>4. e = Open(done) \cup Receipted(done)
    BY <1>1, <2>1 DEF QueueBooks
  <2> QED
    BY <1>2, <1>4, <1>6, <2>1, <2>3, <2>4 DEF QueueBooks
<1>10. QueueBooks(over, e)
  <2>1. Open(over) = Open(d) \ {c} /\ Receipted(over) = Receipted(d) \cup {c}
    BY <1>1, <1>2, <1>5 DEF Open, Receipted
  <2>2. Waiting(over) \subseteq Waiting(d)
    BY <2>1 DEF Waiting
  <2>3. IsFiniteSet(Waiting(over)) /\ Cardinality(Waiting(over)) <= MaxCandidates
    BY <2>2, SmallerQueue
  <2>4. e = Open(over) \cup Receipted(over)
    BY <1>1, <2>1 DEF QueueBooks
  <2> QED
    BY <1>2, <1>5, <1>6, <2>1, <2>3, <2>4 DEF QueueBooks
<1>11. /\ d["memory"] \subseteq written["memory"] /\ d["memory"] \subseteq done["memory"]
       /\ d["memory"] \subseteq over["memory"]
  BY <1>3, <1>4, <1>5
<1> QED
  BY <1>2, <1>7, <1>8, <1>9, <1>10, <1>11 DEF claimed, written, done, over

\* A rejection keeps them too, with or without the last step.
LEMMA RejectedBooks ==
    ASSUME NEW d, NEW e, QueueBooks(d, e), NEW c \in CandidateIds, c \in Waiting(d)
    PROVE  LET done == Put(d, "rejected", c) IN
           /\ QueueBooks(done, e) /\ done["memory"] = d["memory"]
           /\ QueueBooks(Drop(done, c), e) /\ Drop(done, c)["memory"] = d["memory"]
<1> DEFINE done == Put(d, "rejected", c)
           over == Drop(done, c)
<1>1. d \in [Places -> SUBSET CandidateIds] /\ c \in Open(d) /\ c \notin Receipted(d)
  BY DEF QueueBooks, Waiting
<1>2. /\ done \in [Places -> SUBSET CandidateIds]
      /\ done["pending"] = d["pending"] /\ done["processing"] = d["processing"]
      /\ done["approved"] = d["approved"] /\ done["rejected"] = d["rejected"] \cup {c}
      /\ done["memory"] = d["memory"]
  BY <1>1 DEF Put, Places
<1> HIDE DEF done
<1>3. /\ over \in [Places -> SUBSET CandidateIds]
      /\ over["pending"] = d["pending"] \ {c} /\ over["processing"] = d["processing"] \ {c}
      /\ over["approved"] = d["approved"] /\ over["rejected"] = d["rejected"] \cup {c}
      /\ over["memory"] = d["memory"]
  BY <1>2 DEF Drop, Places
<1> HIDE DEF over
<1>4. c \notin d["approved"]
  BY <1>1 DEF Receipted
<1>5. QueueBooks(done, e)
  <2>1. Open(done) = Open(d) /\ Receipted(done) = Receipted(d) \cup {c}
    BY <1>2 DEF Open, Receipted
  <2>2. Waiting(done) \subseteq Waiting(d)
    BY <2>1 DEF Waiting
  <2>3. IsFiniteSet(Waiting(done)) /\ Cardinality(Waiting(done)) <= MaxCandidates
    BY <2>2, SmallerQueue
  <2>4. e = Open(done) \cup Receipted(done)
    BY <1>1, <2>1 DEF QueueBooks
  <2> QED
    BY <1>2, <1>4, <2>1, <2>3, <2>4 DEF QueueBooks
<1>6. QueueBooks(over, e)
  <2>1. Open(over) = Open(d) \ {c} /\ Receipted(over) = Receipted(d) \cup {c}
    BY <1>3 DEF Open, Receipted
  <2>2. Waiting(over) \subseteq Waiting(d)
    BY <2>1 DEF Waiting
  <2>3. IsFiniteSet(Waiting(over)) /\ Cardinality(Waiting(over)) <= MaxCandidates
    BY <2>2, SmallerQueue
  <2>4. e = Open(over) \cup Receipted(over)
    BY <1>1, <2>1 DEF QueueBooks
  <2> QED
    BY <1>3, <1>4, <2>1, <2>3, <2>4 DEF QueueBooks
<1> QED
  BY <1>2, <1>3, <1>5, <1>6 DEF done, over

LEMMA QueueStep == QueueInv /\ [CandidatesNext]_candidateVars => QueueInv'
<1> SUFFICES ASSUME QueueInv, [CandidatesNext]_candidateVars PROVE QueueInv'
  OBVIOUS
<1> DEFINE Kept == /\ QueueBooks(files', everStaged')
                   /\ linked' \subseteq Places \X CandidateIds
                   /\ edited' \subseteq files'["memory"] /\ everStaged' \subseteq CandidateIds
<1>1. /\ QueueBooks(files, everStaged) /\ linked \subseteq Places \X CandidateIds
      /\ edited \subseteq files["memory"] /\ everStaged \subseteq CandidateIds
  BY QueueBooksEquiv
<1>2. SUFFICES Kept
  BY DEF QueueInv, QueueBooks, CandidatesTypeOK, CandidatesAccounted, Waiting, Open, Receipted
<1>3. CASE Reconcile
  <2>1. PICK kept \in SUBSET Open(files) : Becomes(Reaped(kept))
    BY <1>3 DEF Reconcile
  <2> QED
    BY <1>1, <1>3, <2>1, ReapedBooks DEF Reconcile, Becomes
<1>4. ASSUME NEW c \in CandidateIds, Stage(c)
      PROVE  Kept
  <2>1. PICK kept \in SUBSET Open(files) :
            LET d == Reaped(kept) IN
            c \notin Open(d) \cup Receipted(d) /\ RoomIn(d) /\ Writes(d, "pending", c)
    BY <1>4 DEF Stage
  <2> DEFINE d == Reaped(kept)
  <2>2. QueueBooks(d, everStaged) /\ d["memory"] = files["memory"]
    BY <1>1, ReapedBooks
  <2>3. c \notin Open(d) \cup Receipted(d) /\ RoomIn(d)
    BY <2>1
  <2>4. files' = Put(d, "pending", c) /\ linked' \subseteq linked \cup {<<"pending", c>>}
    BY <2>1 DEF Writes
  <2> HIDE DEF d
  <2>5. QueueBooks(files', everStaged')
    BY <1>4, <2>2, <2>3, <2>4, StagedBooks DEF Stage
  <2>6. files'["memory"] = files["memory"]
    BY <2>2, <2>4 DEF Put, QueueBooks, Places
  <2> QED
    BY <1>1, <1>4, <2>4, <2>5, <2>6 DEF Stage, Places
<1>5. ASSUME NEW c \in CandidateIds, Approve(c)
      PROVE  Kept
  <2>1. PICK kept \in SUBSET Open(files) :
            LET d == Reaped(kept)
                claimed == Put(Drop(d, c), "processing", c)
                written == Put(claimed, "memory", c)
                done == Put(written, "approved", c)
            IN
            /\ Undecided(d, c)
            /\ \/ Becomes(claimed)
               \/ Writes(claimed, "memory", c)
               \/ Writes(written, "approved", c)
               \/ Becomes(Drop(done, c))
    BY <1>5 DEF Approve
  <2> DEFINE d == Reaped(kept)
             claimed == Put(Drop(d, c), "processing", c)
             written == Put(claimed, "memory", c)
             done == Put(written, "approved", c)
  <2>2. QueueBooks(d, everStaged) /\ d["memory"] = files["memory"]
    BY <1>1, ReapedBooks
  <2>3. c \in Waiting(d)
    BY <2>1 DEF Undecided, Waiting
  <2>4. /\ \/ files' = claimed \/ files' = written
           \/ files' = done \/ files' = Drop(done, c)
        /\ linked' \subseteq linked \cup {<<"memory", c>>, <<"approved", c>>}
    BY <2>1 DEF Writes, Becomes
  <2> HIDE DEF d
  <2>5. /\ QueueBooks(claimed, everStaged) /\ claimed["memory"] = d["memory"]
        /\ QueueBooks(written, everStaged) /\ d["memory"] \subseteq written["memory"]
        /\ QueueBooks(done, everStaged) /\ d["memory"] \subseteq done["memory"]
        /\ QueueBooks(Drop(done, c), everStaged) /\ d["memory"] \subseteq Drop(done, c)["memory"]
    BY <2>2, <2>3, ApprovedBooks
  <2> HIDE DEF claimed, written, done
  <2>6. QueueBooks(files', everStaged) /\ files["memory"] \subseteq files'["memory"]
    BY <2>2, <2>4, <2>5
  <2> QED
    BY <1>1, <1>5, <2>4, <2>6 DEF Approve, Places
<1>6. ASSUME NEW c \in CandidateIds, Reject(c)
      PROVE  Kept
  <2>1. PICK kept \in SUBSET Open(files) :
            LET d == Reaped(kept)  done == Put(d, "rejected", c) IN
            /\ MayReject(d, c)
            /\ Writes(d, "rejected", c) \/ Becomes(Drop(done, c))
    BY <1>6 DEF Reject
  <2> DEFINE d == Reaped(kept)
             done == Put(d, "rejected", c)
  <2>2. QueueBooks(d, everStaged) /\ d["memory"] = files["memory"]
    BY <1>1, ReapedBooks
  <2>3. c \in Waiting(d)
    BY <2>1 DEF MayReject, Undecided, Waiting
  <2>4. /\ files' = done \/ files' = Drop(done, c)
        /\ linked' \subseteq linked \cup {<<"rejected", c>>}
    BY <2>1 DEF Writes, Becomes
  <2> HIDE DEF d
  <2>5. /\ QueueBooks(done, everStaged) /\ done["memory"] = d["memory"]
        /\ QueueBooks(Drop(done, c), everStaged) /\ Drop(done, c)["memory"] = d["memory"]
    BY <2>2, <2>3, RejectedBooks
  <2> HIDE DEF done
  <2>6. QueueBooks(files', everStaged) /\ files'["memory"] = files["memory"]
    BY <2>2, <2>4, <2>5
  <2> QED
    BY <1>1, <1>6, <2>4, <2>6 DEF Reject, Places
<1>7. ASSUME NEW c \in CandidateIds, EditMemory(c)
      PROVE  Kept
  BY <1>1, <1>7 DEF EditMemory
<1>8. ASSUME NEW c \in CandidateIds, DeleteMemory(c)
      PROVE  Kept
  <2>1. /\ files' \in [Places -> SUBSET CandidateIds]
        /\ files'["pending"] = files["pending"] /\ files'["processing"] = files["processing"]
        /\ files'["approved"] = files["approved"] /\ files'["rejected"] = files["rejected"]
        /\ files'["memory"] = files["memory"] \ {c}
    BY <1>1, <1>8 DEF DeleteMemory, QueueBooks, Places
  <2>2. Open(files') = Open(files) /\ Receipted(files') = Receipted(files)
    BY <2>1 DEF Open, Receipted
  <2>3. Waiting(files') = Waiting(files)
    BY <2>2 DEF Waiting
  <2>4. QueueBooks(files', everStaged)
    BY <1>1, <2>1, <2>2, <2>3 DEF QueueBooks
  <2> QED
    BY <1>1, <1>8, <2>1, <2>4 DEF DeleteMemory
<1>9. CASE UNCHANGED candidateVars
  BY <1>1, <1>9 DEF candidateVars
<1> QED
  BY <1>3, <1>4, <1>5, <1>6, <1>7, <1>8, <1>9 DEF CandidatesNext

\* However operations break off and whatever the user does to the memories,
\* the queue accounts for every candidate, within its bound (candidates.py).
THEOREM CandidatesStayAccounted == CandidatesSpec => []CandidatesAccounted
<1>1. CandidatesInit => QueueInv
  BY QueueInit
<1>2. QueueInv /\ [CandidatesNext]_candidateVars => QueueInv'
  BY QueueStep
<1>3. QueueInv => CandidatesAccounted
  BY DEF QueueInv
<1> QED
  BY <1>1, <1>2, <1>3, PTL DEF CandidatesSpec

(***************************************************************************)
(* The stored credential.                                                  *)
(***************************************************************************)

\* Who works on a credential knows one; what was rotated is new; from the
\* reread to the commit the lease is held.
CallIsSound(c, r, lease, issued, taken) ==
    /\ r \in [at : {"idle", "lease", "reread", "request", "commit", "models"},
              input : Tokens \cup {NoToken}, rotated : Tokens \cup {NoToken}, show : BOOLEAN]
    /\ r.at # "idle" => r.input \in Tokens /\ r.input.id <= issued
    /\ r.at = "commit" => r.rotated \in Tokens /\ r.rotated.id <= issued /\ r.rotated.id \notin taken
    /\ r.at \in {"reread", "request", "commit"} => lease = c

CallsAreSound ==
    /\ caller = [c \in Callers |-> caller[c]]
    /\ refreshLease \in Callers \cup {NoCaller}
    /\ \A c \in Callers : CallIsSound(c, caller[c], refreshLease, issuedTokens, used)

\* The file and the Keychain hold credentials that were issued, ids up to i,
\* and what can be read of them is of the login l.
StoreIsSound(p, k, i, l) ==
    /\ p \in [token : Tokens, marked : BOOLEAN] \cup {NoFile} /\ k \in Tokens \cup {NoToken}
    /\ p.token.id <= i /\ k.id <= i
    /\ p.token.id \in l \cup {0}
    /\ ~p.marked => k.id \in l \cup {0}
    /\ ~mac => k = NoToken

IssuedIsSound ==
    /\ issuedTokens \in 0 .. MaxTokens
    /\ used \subseteq 1 .. issuedTokens
    /\ expired \subseteq TokenIds /\ fromLogin \subseteq TokenIds
    /\ mac \in BOOLEAN /\ mishap \in BOOLEAN /\ overtaken \in BOOLEAN

TokenInv ==
    /\ CallsAreSound /\ IssuedIsSound
    /\ StoreIsSound(plain, keychain, issuedTokens, fromLogin)
    /\ StoredStaysUsable

LEMMA TokenFacts ==
    /\ NoToken = [id |-> 0, models |-> FALSE] /\ NoToken \notin Tokens
    /\ \A t \in Tokens : t.id \in TokenIds /\ t.id \in Nat /\ t.id > 0 /\ t # NoToken
    /\ TokenIds \subseteq Nat
BY TokenConstants DEF NoToken, Tokens, TokenIds

LEMMA TokenInitHolds == TokenInit => TokenInv
<1> SUFFICES ASSUME TokenInit PROVE TokenInv
  OBVIOUS
<1> DEFINE one == [id |-> 1, models |-> FALSE]
           two == [id |-> 2, models |-> FALSE]
<1>1. one \in Tokens /\ two \in Tokens
  BY TokenConstants DEF Tokens, TokenIds
<1>2. CallsAreSound
  <2>1. \A c \in Callers : caller[c] = IdleCaller
    BY DEF TokenInit
  <2> QED
    BY <2>1 DEF CallsAreSound, CallIsSound, TokenInit, IdleCaller
<1>3. /\ plain = NoFile \/ plain = [token |-> one, marked |-> FALSE]
      /\ keychain = NoToken \/ (mac /\ keychain = two)
      /\ issuedTokens = IF keychain # NoToken THEN 2 ELSE plain.token.id
  BY DEF TokenInit
<1>4. plain.token = NoToken \/ plain.token = one
  <2> HIDE DEF one, two
  <2>1. NoFile.token = NoToken /\ [token |-> one, marked |-> FALSE].token = one
    BY DEF NoFile
  <2>2. plain = NoFile \/ plain = [token |-> one, marked |-> FALSE]
    BY <1>3
  <2> QED
    BY <2>1, <2>2
<1>5. NoToken.id = 0 /\ one.id = 1 /\ two.id = 2 /\ two # NoToken
  BY DEF NoToken
<1>6. /\ issuedTokens \in {0, 1, 2} /\ plain.token.id <= issuedTokens
      /\ keychain.id <= issuedTokens
      /\ plain.token.id \in {0, 1} /\ keychain.id \in {0, 2}
      /\ plain.token \in Tokens \cup {NoToken} /\ keychain \in Tokens \cup {NoToken}
  <2> HIDE DEF one, two
  <2>1. CASE keychain = NoToken
    <3>1. issuedTokens = plain.token.id
      BY <1>3, <2>1
    <3> QED
      BY <1>1, <1>4, <1>5, <2>1, <3>1
  <2>2. CASE keychain = two
    <3>1. issuedTokens = 2
      BY <1>3, <1>5, <2>2
    <3> QED
      BY <1>1, <1>4, <1>5, <2>2, <3>1
  <2> QED
    BY <1>3, <2>1, <2>2
<1>7. fromLogin = 1 .. issuedTokens /\ used = {} /\ expired = {}
  BY DEF TokenInit
<1>8. plain.token.id \in fromLogin \cup {0} /\ keychain.id \in fromLogin \cup {0}
  BY <1>6, <1>7
<1>9. plain \in [token : Tokens, marked : BOOLEAN] \cup {NoFile} /\ (~mac => keychain = NoToken)
  <2>1. [token |-> one, marked |-> FALSE] \in [token : Tokens, marked : BOOLEAN]
    BY <1>1
  <2> QED
    BY <1>3, <2>1
<1>10. StoreIsSound(plain, keychain, issuedTokens, fromLogin)
  BY <1>6, <1>8, <1>9 DEF StoreIsSound
<1>11. issuedTokens \in 0 .. MaxTokens /\ fromLogin \subseteq TokenIds
  BY <1>6, <1>7, TokenConstants DEF TokenIds
<1>12. mac \in BOOLEAN /\ mishap \in BOOLEAN /\ overtaken \in BOOLEAN
  BY DEF TokenInit
<1>13. IssuedIsSound
  BY <1>7, <1>11, <1>12 DEF IssuedIsSound
<1>14. StoredStaysUsable
  BY <1>7 DEF StoredStaysUsable, Refreshable
<1> QED
  BY <1>2, <1>10, <1>13, <1>14 DEF TokenInv

\* A save leaves a sound store wherever it breaks off; one that succeeds
\* leaves what it was given.
LEMMA SaveIsSound ==
    ASSUME NEW i \in Nat, NEW l, NEW m, StoreIsSound(plain, keychain, i, l), mac \in BOOLEAN,
           NEW t \in Tokens, NEW n \in Nat, i <= n, t.id <= n, t.id \in m,
           NEW s \in SaveOutcomes(t), s.ok \/ l \subseteq m, Store(s)
    PROVE  StoreIsSound(plain', keychain', n, m) /\ s.ok \in BOOLEAN /\ (s.ok => Stored' = t)
<1> USE TokenFacts
<1>1. plain.token.id \in Nat /\ keychain.id \in Nat
  BY DEF StoreIsSound, NoFile, NoToken
<1>2. /\ NoFile.token = NoToken /\ NoFile.marked = FALSE /\ NoToken.id = 0
      /\ Fallback(t).token = t /\ Fallback(t).marked = TRUE
      /\ Fallback(t) \in [token : Tokens, marked : BOOLEAN]
  BY DEF NoFile, NoToken, Fallback
<1>3. CASE mac /\ s = Saved(NoFile, t, TRUE)
  <2>1. plain' = NoFile /\ keychain' = t /\ s.ok = TRUE
    BY <1>3 DEF Saved, Store
  <2>2. StoreIsSound(NoFile, t, n, m)
    BY <1>2, <1>3 DEF StoreIsSound
  <2>3. Stored' = t
    BY <1>2, <2>1 DEF Stored
  <2> QED
    BY <2>1, <2>2, <2>3
<1>4. CASE mac /\ s = Saved(plain, t, FALSE)
  <2>1. plain' = plain /\ keychain' = t /\ s.ok = FALSE
    BY <1>4 DEF Saved, Store
  <2>2. l \subseteq m
    BY <2>1
  <2>3. StoreIsSound(plain, t, n, m)
    BY <1>1, <1>2, <1>4, <2>2 DEF StoreIsSound
  <2> QED
    BY <2>1, <2>3
<1>5. CASE s = Saved(plain, keychain, FALSE)
  <2>1. plain' = plain /\ keychain' = keychain /\ s.ok = FALSE
    BY <1>5 DEF Saved, Store
  <2>2. l \subseteq m
    BY <2>1
  <2>3. StoreIsSound(plain, keychain, n, m)
    BY <1>1, <1>2, <1>5, <2>2 DEF StoreIsSound
  <2> QED
    BY <2>1, <2>3
<1>6. CASE mac /\ s = Saved(Fallback(t), keychain, TRUE)
  <2>1. plain' = Fallback(t) /\ keychain' = keychain /\ s.ok = TRUE
    BY <1>6 DEF Saved, Store
  <2>2. StoreIsSound(Fallback(t), keychain, n, m)
    BY <1>1, <1>2, <1>6, <2>1 DEF StoreIsSound
  <2>3. Stored' = t
    BY <1>2, <1>6, <2>1 DEF Stored
  <2> QED
    BY <2>1, <2>2, <2>3
<1>7. CASE ~mac /\ s = Saved(Fallback(t), NoToken, TRUE)
  <2>1. plain' = Fallback(t) /\ keychain' = NoToken /\ s.ok = TRUE
    BY <1>7 DEF Saved, Store
  <2>2. StoreIsSound(Fallback(t), NoToken, n, m)
    BY <1>1, <1>2, <1>7, <2>1 DEF StoreIsSound
  <2>3. Stored' = t
    BY <1>2, <1>7, <2>1 DEF Stored
  <2> QED
    BY <2>1, <2>2, <2>3
<1>8. CASE ~mac /\ s = Saved(plain, NoToken, FALSE)
  <2>1. plain' = plain /\ keychain' = NoToken /\ s.ok = FALSE
    BY <1>8 DEF Saved, Store
  <2>2. l \subseteq m
    BY <2>1
  <2>3. StoreIsSound(plain, NoToken, n, m)
    BY <1>1, <1>2, <1>8, <2>2 DEF StoreIsSound
  <2> QED
    BY <2>1, <2>3
<1> QED
  BY <1>3, <1>4, <1>5, <1>6, <1>7, <1>8 DEF SaveOutcomes

\* What a sound store answers.
LEMMA StoredIsKnown ==
    ASSUME NEW i, NEW l, StoreIsSound(plain, keychain, i, l), mac \in BOOLEAN
    PROVE  /\ \A t \in Loads : t \in Tokens \cup {NoToken} /\ t.id <= i /\ t.id \in l \cup {0}
           /\ Stored \in Loads
BY TokenFacts DEF StoreIsSound, Loads, Stored, NoFile, NoToken


\* The lease passes only between c and nobody.
LeaseMoves(c) ==
    \/ refreshLease' = refreshLease
    \/ refreshLease = NoCaller /\ refreshLease' = c
    \/ refreshLease = c /\ refreshLease' = NoCaller

\* A call moves on: the others stay sound, if the lease passes only between it
\* and nobody, and if it holds the lease when a credential is used.
LEMMA RefreshMoves ==
    ASSUME CallsAreSound, NEW c \in Callers, NEW r, caller' = [caller EXCEPT ![c] = r],
           issuedTokens \in Nat, issuedTokens' \in Nat, issuedTokens <= issuedTokens',
           CallIsSound(c, r, refreshLease', issuedTokens', used'),
           used' = used \/ refreshLease = c, LeaseMoves(c)
    PROVE  /\ CallsAreSound'
           /\ caller'[c] = r /\ \A d \in Callers \ {c} : caller'[d] = caller[d]
<1>1. /\ caller' = [d \in Callers |-> caller'[d]]
      /\ caller'[c] = r /\ \A d \in Callers \ {c} : caller'[d] = caller[d]
  BY DEF CallsAreSound
<1>2. refreshLease' \in Callers \cup {NoCaller}
  BY DEF CallsAreSound, LeaseMoves
<1>3. ASSUME NEW d \in Callers \ {c}
      PROVE  CallIsSound(d, caller[d], refreshLease', issuedTokens', used')
  <2>1. CallIsSound(d, caller[d], refreshLease, issuedTokens, used)
    BY DEF CallsAreSound
  <2>2. caller[d].at \in {"reread", "request", "commit"} => refreshLease' = d
    BY <2>1, TokenConstants DEF CallIsSound, LeaseMoves
  <2>3. caller[d].at # "idle" => caller[d].input \in Tokens /\ caller[d].input.id <= issuedTokens'
    <3>1. SUFFICES ASSUME caller[d].at # "idle"
                   PROVE  caller[d].input \in Tokens /\ caller[d].input.id <= issuedTokens'
      OBVIOUS
    <3>2. caller[d].input \in Tokens /\ caller[d].input.id <= issuedTokens
      BY <2>1, <3>1 DEF CallIsSound
    <3> QED
      BY <3>2, TokenFacts
  <2>4. caller[d].at = "commit" =>
            /\ caller[d].rotated \in Tokens /\ caller[d].rotated.id <= issuedTokens'
            /\ caller[d].rotated.id \notin used'
    <3>1. SUFFICES ASSUME caller[d].at = "commit"
                   PROVE  /\ caller[d].rotated \in Tokens
                          /\ caller[d].rotated.id <= issuedTokens'
                          /\ caller[d].rotated.id \notin used'
      OBVIOUS
    <3>2. /\ caller[d].rotated \in Tokens /\ caller[d].rotated.id <= issuedTokens
          /\ caller[d].rotated.id \notin used /\ refreshLease = d
      BY <2>1, <3>1 DEF CallIsSound
    <3> QED
      BY <3>2, TokenFacts
  <2> QED
    BY <2>1, <2>2, <2>3, <2>4 DEF CallIsSound
<1>4. \A d \in Callers : CallIsSound(d, caller'[d], refreshLease', issuedTokens', used')
  BY <1>1, <1>3
<1> QED
  BY <1>1, <1>2, <1>4 DEF CallsAreSound, CallIsSound

\* A call that ends, or goes on to the models, with what it found.
LEMMA EndsSoundly ==
    ASSUME NEW c \in Callers, CallIsSound(c, caller[c], refreshLease, issuedTokens, used),
           NEW t \in Tokens \cup {NoToken}, NEW i, t.id <= i, Ends(c, t)
    PROVE  \E r : /\ caller' = [caller EXCEPT ![c] = r] /\ r.at \in {"idle", "models"}
                  /\ \A lease, taken : CallIsSound(c, r, lease, i, taken)
<1>1. PICK r : /\ caller' = [caller EXCEPT ![c] = r]
               /\ \/ r = IdleCaller
                  \/ t # NoToken /\ r = [caller[c] EXCEPT !.at = "models", !.input = t, !.rotated = NoToken]
  BY DEF Ends
<1>2. CASE r = IdleCaller
  <2>1. /\ r = [at |-> "idle", input |-> NoToken, rotated |-> NoToken, show |-> FALSE]
        /\ r.at = "idle"
    BY <1>2 DEF IdleCaller
  <2>2. \A lease, taken : CallIsSound(c, r, lease, i, taken)
    BY <2>1 DEF CallIsSound
  <2> QED
    BY <1>1, <2>1, <2>2
<1>3. CASE /\ t # NoToken
           /\ r = [caller[c] EXCEPT !.at = "models", !.input = t, !.rotated = NoToken]
  <2>1. r = [at |-> "models", input |-> t, rotated |-> NoToken, show |-> caller[c].show]
    BY <1>3 DEF CallIsSound
  <2>2. caller[c].show \in BOOLEAN
    BY DEF CallIsSound
  <2> HIDE DEF CallIsSound
  <2>3. \A lease, taken : CallIsSound(c, r, lease, i, taken)
    BY <1>3, <2>1, <2>2 DEF CallIsSound
  <2> QED
    BY <1>1, <2>1, <2>3
<1> QED
  BY <1>1, <1>2, <1>3

\* Without a new use the stored credential stays usable, if no call that is
\* about to store one goes away.
LEMMA UsableStays ==
    ASSUME CallsAreSound, CallsAreSound', StoredStaysUsable, mishap => mishap', overtaken => overtaken',
           NEW c \in Callers, \A d \in Callers \ {c} : caller'[d] = caller[d],
           LeaseMoves(c), used' = used, Stored'.id = Stored.id, caller[c].at # "commit"
    PROVE  StoredStaysUsable'
<1>1. CASE mishap \/ overtaken
  BY <1>1 DEF StoredStaysUsable
<1>2. CASE Stored.id \notin used
  BY <1>2 DEF StoredStaysUsable, Refreshable
<1>3. ASSUME NEW d \in Callers, caller[d].at = "commit", refreshLease = d,
             caller[d].input.id = Stored.id
      PROVE  StoredStaysUsable'
  <2>1. d # c /\ caller'[d] = caller[d] /\ d # NoCaller
    BY <1>3, TokenConstants
  <2>2. refreshLease' = d
    BY <1>3, <2>1 DEF LeaseMoves
  <2> QED
    BY <1>3, <2>1, <2>2 DEF StoredStaysUsable, Refreshable
<1> QED
  BY <1>1, <1>2, <1>3 DEF StoredStaysUsable, Refreshable

\* What every action but a few leaves alone.
LEMMA TokenInvParts ==
    TokenInv =>
        /\ CallsAreSound /\ IssuedIsSound /\ StoredStaysUsable
        /\ StoreIsSound(plain, keychain, issuedTokens, fromLogin)
        /\ issuedTokens \in Nat /\ mac \in BOOLEAN
        /\ \A c \in Callers : CallIsSound(c, caller[c], refreshLease, issuedTokens, used)
        /\ \A t \in Loads : t \in Tokens \cup {NoToken} /\ t.id <= issuedTokens
        /\ Stored \in Loads
<1> SUFFICES ASSUME TokenInv
             PROVE  /\ CallsAreSound /\ IssuedIsSound /\ StoredStaysUsable
                    /\ StoreIsSound(plain, keychain, issuedTokens, fromLogin)
                    /\ issuedTokens \in Nat /\ mac \in BOOLEAN
                    /\ \A c \in Callers : CallIsSound(c, caller[c], refreshLease, issuedTokens, used)
                    /\ \A t \in Loads : t \in Tokens \cup {NoToken} /\ t.id <= issuedTokens
                    /\ Stored \in Loads
  OBVIOUS
<1>1. /\ CallsAreSound /\ IssuedIsSound /\ StoredStaysUsable
      /\ StoreIsSound(plain, keychain, issuedTokens, fromLogin)
  BY DEF TokenInv
<1>2. issuedTokens \in Nat /\ mac \in BOOLEAN
  BY <1>1, TokenConstants DEF IssuedIsSound
<1>3. /\ \A t \in Loads : t \in Tokens \cup {NoToken} /\ t.id <= issuedTokens
      /\ Stored \in Loads
  BY <1>1, <1>2, StoredIsKnown
<1> QED
  BY <1>1, <1>2, <1>3 DEF CallsAreSound

\* An action that leaves the store and the provider alone, moves one call that
\* was not about to commit, and passes the lease at most between it and nobody.
LEMMA QuietMove ==
    ASSUME TokenInv, NEW c \in Callers, caller[c].at # "commit",
           NEW r, caller' = [caller EXCEPT ![c] = r],
           CallIsSound(c, r, refreshLease', issuedTokens, used), LeaseMoves(c),
           StoreAlone, Provider, NoHistory
    PROVE  TokenInv'
<1> USE TokenInvParts
<1>1. UNCHANGED <<mac, plain, keychain, issuedTokens, expired, used, fromLogin, mishap, overtaken>>
  BY DEF StoreAlone, Provider, NoHistory
<1>2. CallsAreSound' /\ \A d \in Callers \ {c} : caller'[d] = caller[d]
  <2>1. /\ issuedTokens' \in Nat /\ issuedTokens <= issuedTokens' /\ used' = used
        /\ CallIsSound(c, r, refreshLease', issuedTokens', used')
    BY <1>1
  <2> QED
    BY <2>1, RefreshMoves
<1>3. Stored'.id = Stored.id
  BY <1>1 DEF Stored
<1>4. StoredStaysUsable'
  BY <1>1, <1>2, <1>3, UsableStays
<1>5. IssuedIsSound' /\ StoreIsSound(plain, keychain, issuedTokens, fromLogin)'
  BY <1>1 DEF IssuedIsSound, StoreIsSound
<1> QED
  BY <1>2, <1>4, <1>5 DEF TokenInv

LEMMA TokenStepGetBegins ==
    ASSUME TokenInv, NEW c \in Callers, NEW show \in BOOLEAN, GetBegins(c, show)
    PROVE  TokenInv'
<1>1. PICK t \in Loads \ {NoToken} :
        caller' = [caller EXCEPT ![c] =
            [IdleCaller EXCEPT !.at = IF t.id \in expired THEN "lease" ELSE "models",
                               !.input = t, !.show = show]]
  BY DEF GetBegins
<1> DEFINE next == IF t.id \in expired THEN "lease" ELSE "models"
           r == [IdleCaller EXCEPT !.at = next, !.input = t, !.show = show]
<1>2. caller' = [caller EXCEPT ![c] = r]
  BY <1>1
<1>3. /\ StoreAlone /\ Provider /\ NoHistory /\ refreshLease' = refreshLease
      /\ caller[c].at # "commit"
  BY DEF GetBegins
<1>4. t \in Tokens /\ t.id <= issuedTokens
  BY TokenInvParts
<1>5. next \in {"lease", "models"}
  OBVIOUS
<1> HIDE DEF next
<1>6. CallIsSound(c, r, refreshLease', issuedTokens, used)
  <2>1. IdleCaller \in
            [at : {"idle", "lease", "reread", "request", "commit", "models"},
             input : Tokens \cup {NoToken}, rotated : Tokens \cup {NoToken}, show : BOOLEAN]
    BY DEF IdleCaller
  <2>2. r \in
            [at : {"idle", "lease", "reread", "request", "commit", "models"},
             input : Tokens \cup {NoToken}, rotated : Tokens \cup {NoToken}, show : BOOLEAN]
    BY <1>4, <1>5, <2>1
  <2>3. r.at = next /\ r.input = t
    BY DEF IdleCaller
  <2> HIDE DEF r
  <2> QED
    BY <1>4, <1>5, <2>2, <2>3 DEF CallIsSound
<1> HIDE DEF r
<1> QED
  BY <1>2, <1>3, <1>6, QuietMove DEF LeaseMoves

LEMMA TokenStepAcquireLease ==
    ASSUME TokenInv, NEW c \in Callers, AcquireLease(c)
    PROVE  TokenInv'
<1> DEFINE r == [caller[c] EXCEPT !.at = "reread"]
<1>1. CallIsSound(c, caller[c], refreshLease, issuedTokens, used) /\ caller[c].at = "lease"
  BY TokenInvParts DEF AcquireLease
<1>2. CallIsSound(c, r, c, issuedTokens, used)
  BY <1>1 DEF CallIsSound
<1>3. caller' = [caller EXCEPT ![c] = r]
  BY DEF AcquireLease, StepTo
<1> HIDE DEF r
<1> QED
  BY <1>1, <1>2, <1>3, QuietMove DEF AcquireLease, LeaseMoves

LEMMA TokenStepGivesUp ==
    ASSUME TokenInv, NEW c \in Callers, GivesUp(c)
    PROVE  TokenInv'
<1>1. CallIsSound(c, caller[c], refreshLease, issuedTokens, used) /\ issuedTokens \in Nat
  BY TokenInvParts
<1>2. /\ Ends(c, NoToken) /\ StoreAlone /\ Provider /\ NoHistory /\ LeaseMoves(c)
      /\ caller[c].at # "commit"
  BY DEF GivesUp, MayGiveUp, Unlease, LeaseMoves
<1>3. NoToken.id <= issuedTokens
  BY <1>1 DEF NoToken
<1>4. PICK r : /\ caller' = [caller EXCEPT ![c] = r]
               /\ \A lease, taken : CallIsSound(c, r, lease, issuedTokens, taken)
  BY <1>1, <1>2, <1>3, EndsSoundly
<1> QED
  BY <1>2, <1>4, QuietMove

LEMMA TokenStepLeaseReread ==
    ASSUME TokenInv, NEW c \in Callers, LeaseReread(c)
    PROVE  TokenInv'
<1>1. CallIsSound(c, caller[c], refreshLease, issuedTokens, used) /\ issuedTokens \in Nat
  BY TokenInvParts
<1>2. StoreAlone /\ Provider /\ NoHistory /\ caller[c].at = "reread"
  BY DEF LeaseReread
<1>3. PICK t \in Loads :
        \/ StepTo(c, "request") /\ UNCHANGED refreshLease
        \/ Ends(c, IF t.id \in expired THEN NoToken ELSE t) /\ Unlease(c)
  BY DEF LeaseReread
<1>4. CASE StepTo(c, "request") /\ UNCHANGED refreshLease
  <2> DEFINE r == [caller[c] EXCEPT !.at = "request"]
  <2>1. CallIsSound(c, r, refreshLease, issuedTokens, used)
    BY <1>1, <1>2 DEF CallIsSound
  <2>2. caller' = [caller EXCEPT ![c] = r]
    BY <1>4 DEF StepTo
  <2> HIDE DEF r
  <2> QED
    BY <1>2, <1>4, <2>1, <2>2, QuietMove DEF LeaseMoves
<1>5. CASE Ends(c, IF t.id \in expired THEN NoToken ELSE t) /\ Unlease(c)
  <2> DEFINE found == IF t.id \in expired THEN NoToken ELSE t
  <2>1. found \in Tokens \cup {NoToken} /\ found.id <= issuedTokens
    BY <1>1, TokenInvParts DEF NoToken
  <2>2. Ends(c, found)
    BY <1>5
  <2> HIDE DEF found
  <2>3. PICK r : /\ caller' = [caller EXCEPT ![c] = r]
                 /\ \A lease, taken : CallIsSound(c, r, lease, issuedTokens, taken)
    BY <1>1, <2>1, <2>2, EndsSoundly
  <2>4. LeaseMoves(c)
    BY <1>5 DEF Unlease, LeaseMoves
  <2> QED
    BY <1>2, <2>3, <2>4, QuietMove
<1> QED
  BY <1>3, <1>4, <1>5

\* One more credential is issued: what was known of the ids stays true.
LEMMA RotationIsSound ==
    ASSUME TokenInv, NEW t \in Tokens, t.id <= issuedTokens, Rotates(t)
    PROVE  /\ issuedTokens' = issuedTokens + 1 /\ issuedTokens' \in 0 .. MaxTokens
           /\ used' = used \cup {t.id} /\ used' \subseteq 1 .. issuedTokens'
           /\ issuedTokens' \notin used' /\ expired' = expired
           /\ StoreIsSound(plain, keychain, issuedTokens', fromLogin)
<1>1. /\ IssuedIsSound /\ issuedTokens \in Nat
      /\ StoreIsSound(plain, keychain, issuedTokens, fromLogin)
  BY TokenInvParts
<1>2. /\ issuedTokens' = issuedTokens + 1 /\ issuedTokens < MaxTokens
      /\ used' = used \cup {t.id} /\ expired' = expired
  BY DEF Rotates
<1>3. issuedTokens' \in 0 .. MaxTokens
  BY <1>1, <1>2, TokenConstants
<1>4. t.id \in Nat /\ t.id > 0
  BY TokenFacts
<1>5. used \subseteq 1 .. issuedTokens
  BY <1>1 DEF IssuedIsSound
<1>6. used' \subseteq 1 .. issuedTokens' /\ issuedTokens' \notin used'
  <2>1. t.id \in 1 .. issuedTokens
    BY <1>1, <1>4
  <2>2. used' \subseteq 1 .. issuedTokens
    BY <1>2, <1>5, <2>1
  <2>3. \A x \in 1 .. issuedTokens : x \in 1 .. (issuedTokens + 1) /\ x # issuedTokens + 1
    BY <1>1
  <2> QED
    BY <1>2, <2>2, <2>3
<1>7. plain.token.id \in Nat /\ keychain.id \in Nat
  BY <1>1, TokenFacts DEF StoreIsSound, NoFile, NoToken
<1>8. StoreIsSound(plain, keychain, issuedTokens', fromLogin)
  BY <1>1, <1>2, <1>7 DEF StoreIsSound
<1> QED
  BY <1>2, <1>3, <1>6, <1>8

LEMMA FreshIsToken ==
    ASSUME NEW models \in BOOLEAN, issuedTokens \in Nat, issuedTokens < MaxTokens
    PROVE  Fresh(models) \in Tokens /\ Fresh(models).id = issuedTokens + 1
<1>1. issuedTokens + 1 \in TokenIds
  BY TokenConstants DEF TokenIds
<1> QED
  BY <1>1 DEF Fresh, Tokens

LEMMA TokenStepRequestAnswered ==
    ASSUME TokenInv, NEW c \in Callers, RequestAnswered(c)
    PROVE  TokenInv'
<1>1. /\ CallIsSound(c, caller[c], refreshLease, issuedTokens, used) /\ issuedTokens \in Nat
      /\ CallsAreSound /\ IssuedIsSound
  BY TokenInvParts
<1>2. StoreAlone /\ NoHistory /\ caller[c].at = "request" /\ refreshLease = c
  BY <1>1 DEF RequestAnswered, CallIsSound
<1>3. CASE Ends(c, NoToken) /\ Unlease(c) /\ Provider
  <2>1. NoToken.id <= issuedTokens
    BY <1>1 DEF NoToken
  <2>2. PICK r : /\ caller' = [caller EXCEPT ![c] = r]
                 /\ \A lease, taken : CallIsSound(c, r, lease, issuedTokens, taken)
    BY <1>1, <1>3, <2>1, EndsSoundly
  <2>3. LeaseMoves(c)
    BY <1>3 DEF Unlease, LeaseMoves
  <2> QED
    BY <1>2, <1>3, <2>2, <2>3, QuietMove
<1>4. CASE /\ Rotates(caller[c].input) /\ UNCHANGED refreshLease
           /\ caller' = [caller EXCEPT ![c].at = "commit", ![c].rotated = Fresh(FALSE)]
  <2> DEFINE input == caller[c].input
             r == [caller[c] EXCEPT !.at = "commit", !.rotated = Fresh(FALSE)]
  <2>1. input \in Tokens /\ input.id <= issuedTokens
    BY <1>1, <1>2 DEF CallIsSound
  <2>2. /\ issuedTokens' = issuedTokens + 1 /\ issuedTokens' \in 0 .. MaxTokens
        /\ used' = used \cup {input.id} /\ used' \subseteq 1 .. issuedTokens'
        /\ issuedTokens' \notin used' /\ expired' = expired
        /\ StoreIsSound(plain, keychain, issuedTokens', fromLogin)
    BY <1>4, <2>1, RotationIsSound
  <2>3. Fresh(FALSE) \in Tokens /\ Fresh(FALSE).id = issuedTokens'
    BY <1>1, <1>4, <2>2, FreshIsToken DEF Rotates
  <2>4. caller' = [caller EXCEPT ![c] = r]
    BY <1>4
  <2>5. CallIsSound(c, r, refreshLease', issuedTokens', used')
    <3>1. /\ r \in [at : {"idle", "lease", "reread", "request", "commit", "models"},
                    input : Tokens \cup {NoToken}, rotated : Tokens \cup {NoToken}, show : BOOLEAN]
          /\ r.at = "commit" /\ r.input = input /\ r.rotated = Fresh(FALSE)
      BY <1>1, <2>3 DEF CallIsSound
    <3>2. input.id <= issuedTokens'
      BY <1>1, <2>1, <2>2, TokenFacts
    <3>3. Fresh(FALSE).id <= issuedTokens' /\ Fresh(FALSE).id \notin used'
      <4>1. issuedTokens' \in Nat
        BY <1>1, <2>2
      <4>2. issuedTokens' <= issuedTokens'
        BY <4>1
      <4> QED
        BY <2>2, <2>3, <4>2
    <3>4. refreshLease' = c
      BY <1>2, <1>4
    <3> HIDE DEF r, input
    <3> QED
      BY <2>1, <2>3, <3>1, <3>2, <3>3, <3>4 DEF CallIsSound
  <2>6. r.at = "commit" /\ r.input = input
    BY <1>1 DEF CallIsSound
  <2> HIDE DEF r, input
  <2>7. /\ CallsAreSound' /\ caller'[c] = r
        /\ \A d \in Callers \ {c} : caller'[d] = caller[d]
    <3>1. issuedTokens' \in Nat /\ issuedTokens <= issuedTokens' /\ LeaseMoves(c)
      BY <1>1, <1>4, <2>2 DEF LeaseMoves
    <3> QED
      BY <1>1, <1>2, <2>4, <2>5, <3>1, RefreshMoves
  <2>8. StoredStaysUsable'
    <3>1. Stored' = Stored /\ mishap' = mishap /\ overtaken' = overtaken
      BY <1>2 DEF StoreAlone, NoHistory, Stored
    <3>2. CASE mishap \/ overtaken
      BY <3>1, <3>2 DEF StoredStaysUsable
    <3>3. CASE Stored.id = input.id
      BY <1>2, <1>4, <2>6, <2>7, <3>1, <3>3 DEF StoredStaysUsable, Refreshable
    <3>4. CASE ~mishap /\ ~overtaken /\ Stored.id # input.id
      <4>1. Refreshable
        BY <3>4, TokenInvParts DEF StoredStaysUsable
      <4>2. \A d \in Callers : refreshLease = d => caller[d].at # "commit"
        BY <1>2
      <4>3. Stored.id \notin used
        BY <4>1, <4>2 DEF Refreshable
      <4> QED
        BY <2>2, <3>1, <3>4, <4>3 DEF StoredStaysUsable, Refreshable
    <3> QED
      BY <3>2, <3>3, <3>4
  <2>9. IssuedIsSound'
    BY <1>1, <1>2, <2>2 DEF IssuedIsSound, StoreAlone, NoHistory
  <2>10. StoreIsSound(plain, keychain, issuedTokens, fromLogin)'
    BY <1>2, <2>2 DEF StoreIsSound, StoreAlone, NoHistory
  <2> QED
    BY <2>7, <2>8, <2>9, <2>10 DEF TokenInv
<1> QED
  BY <1>3, <1>4 DEF RequestAnswered

\* A mishap happens once; from then on the history forgives what is stored.
LEMMA MishapForgives ==
    ASSUME Mishap(TRUE)
    PROVE  mishap' = TRUE /\ StoredStaysUsable'
BY DEF Mishap, StoredStaysUsable

LEMMA TokenStepAnswerLost ==
    ASSUME TokenInv, NEW c \in Callers, AnswerLost(c)
    PROVE  TokenInv'
<1>1. /\ CallIsSound(c, caller[c], refreshLease, issuedTokens, used) /\ issuedTokens \in Nat
      /\ CallsAreSound /\ IssuedIsSound
  BY TokenInvParts
<1>2. /\ caller[c].at = "request" /\ refreshLease = c
      /\ Rotates(caller[c].input) /\ Ends(c, NoToken) /\ Unlease(c) /\ Mishap(TRUE)
      /\ StoreAlone /\ UNCHANGED <<fromLogin, overtaken>>
  BY <1>1 DEF AnswerLost, CallIsSound
<1>3. caller[c].input \in Tokens /\ caller[c].input.id <= issuedTokens
  BY <1>1, <1>2 DEF CallIsSound
<1>4. /\ issuedTokens' = issuedTokens + 1 /\ issuedTokens' \in 0 .. MaxTokens
      /\ used' \subseteq 1 .. issuedTokens' /\ expired' = expired
      /\ StoreIsSound(plain, keychain, issuedTokens', fromLogin)
  BY <1>2, <1>3, RotationIsSound
<1>5. NoToken.id <= issuedTokens' /\ issuedTokens' \in Nat /\ issuedTokens <= issuedTokens'
  BY <1>1, <1>4, TokenConstants DEF NoToken
<1>6. PICK r : /\ caller' = [caller EXCEPT ![c] = r]
               /\ \A lease, taken : CallIsSound(c, r, lease, issuedTokens', taken)
  BY <1>1, <1>2, <1>5, EndsSoundly
<1>7. LeaseMoves(c)
  BY <1>2 DEF Unlease, LeaseMoves
<1>8. CallsAreSound'
  BY <1>1, <1>2, <1>5, <1>6, <1>7, RefreshMoves
<1>9. mishap' = TRUE /\ StoredStaysUsable'
  BY <1>2, MishapForgives
<1>10. IssuedIsSound'
  BY <1>1, <1>2, <1>4, <1>9 DEF IssuedIsSound, StoreAlone
<1>11. StoreIsSound(plain, keychain, issuedTokens, fromLogin)'
  BY <1>2, <1>4 DEF StoreIsSound, StoreAlone
<1> QED
  BY <1>8, <1>9, <1>10, <1>11 DEF TokenInv

LEMMA TokenStepCallerDies ==
    ASSUME TokenInv, NEW c \in Callers, CallerDies(c)
    PROVE  TokenInv'
<1>1. /\ CallIsSound(c, caller[c], refreshLease, issuedTokens, used) /\ issuedTokens \in Nat
      /\ CallsAreSound /\ IssuedIsSound
      /\ StoreIsSound(plain, keychain, issuedTokens, fromLogin)
  BY TokenInvParts
<1>2. /\ caller' = [caller EXCEPT ![c] = IdleCaller] /\ Unlease(c) /\ Mishap(TRUE)
      /\ StoreAlone /\ Provider /\ UNCHANGED <<fromLogin, overtaken>>
  BY DEF CallerDies
<1>3. CallIsSound(c, IdleCaller, refreshLease', issuedTokens', used')
  BY DEF CallIsSound, IdleCaller
<1>4. /\ issuedTokens' = issuedTokens /\ used' = used /\ expired' = expired
      /\ LeaseMoves(c)
  BY <1>2 DEF Provider, Unlease, LeaseMoves
<1>5. CallsAreSound'
  <2> HIDE DEF IdleCaller
  <2>1. issuedTokens' \in Nat /\ issuedTokens <= issuedTokens'
    BY <1>1, <1>4
  <2> QED
    BY <1>1, <1>2, <1>3, <1>4, <2>1, RefreshMoves
<1>6. mishap' = TRUE /\ StoredStaysUsable'
  BY <1>2, MishapForgives
<1>7. IssuedIsSound'
  BY <1>1, <1>2, <1>4, <1>6 DEF IssuedIsSound, StoreAlone
<1>8. StoreIsSound(plain, keychain, issuedTokens, fromLogin)'
  BY <1>1, <1>2, <1>4 DEF StoreIsSound, StoreAlone
<1> QED
  BY <1>5, <1>6, <1>7, <1>8 DEF TokenInv

\* A call that leaves the "models" or the "commit" stage after a save.
LEMMA TokenStepModelsFetched ==
    ASSUME TokenInv, NEW c \in Callers, ModelsFetched(c)
    PROVE  TokenInv'
<1>1. /\ CallIsSound(c, caller[c], refreshLease, issuedTokens, used) /\ issuedTokens \in Nat
      /\ CallsAreSound /\ IssuedIsSound /\ StoredStaysUsable /\ mac \in BOOLEAN
      /\ StoreIsSound(plain, keychain, issuedTokens, fromLogin)
  BY TokenInvParts
<1> DEFINE input == caller[c].input
<1>2. /\ caller[c].at = "models" /\ caller' = [caller EXCEPT ![c] = IdleCaller]
      /\ Provider /\ UNCHANGED <<mac, refreshLease, fromLogin, overtaken>>
  BY DEF ModelsFetched
<1>3. input \in Tokens /\ input.id <= issuedTokens
  BY <1>1, <1>2 DEF CallIsSound
<1>4. CallIsSound(c, IdleCaller, refreshLease', issuedTokens', used')
  BY DEF CallIsSound, IdleCaller
<1>5. issuedTokens' = issuedTokens /\ used' = used /\ expired' = expired /\ LeaseMoves(c)
  BY <1>2 DEF Provider, LeaseMoves
<1>6. CallsAreSound' /\ \A d \in Callers \ {c} : caller'[d] = caller[d]
  <2> HIDE DEF IdleCaller
  <2>1. issuedTokens' \in Nat /\ issuedTokens <= issuedTokens'
    BY <1>1, <1>5
  <2> QED
    BY <1>1, <1>2, <1>4, <1>5, <2>1, RefreshMoves
<1>7. CASE UNCHANGED <<plain, keychain, mishap>>
  <2>1. Stored'.id = Stored.id
    BY <1>7 DEF Stored
  <2>2. (mishap => mishap') /\ (overtaken => overtaken') /\ caller[c].at # "commit"
    BY <1>2, <1>7
  <2>3. StoredStaysUsable'
    BY <1>1, <1>5, <1>6, <2>1, <2>2, UsableStays
  <2>4. IssuedIsSound' /\ StoreIsSound(plain, keychain, issuedTokens, fromLogin)'
    BY <1>1, <1>2, <1>5, <1>7 DEF IssuedIsSound, StoreIsSound
  <2> QED
    BY <1>6, <2>3, <2>4 DEF TokenInv
<1>8. ASSUME NEW s \in SaveOutcomes([input EXCEPT !.models = TRUE]),
             Stored = input, Store(s), Mishap(~s.ok)
      PROVE  TokenInv'
  <2> DEFINE t == [input EXCEPT !.models = TRUE]
  <2>1. t \in Tokens /\ t.id = input.id
    BY <1>3 DEF Tokens
  <2>2. s \in SaveOutcomes(t)
    BY <1>8
  <2> HIDE DEF t
  <2>3. input.id \in fromLogin
    <3>1. Stored.id \in fromLogin \cup {0}
      BY <1>1, StoredIsKnown
    <3> QED
      BY <1>3, <1>8, <3>1, TokenFacts
  <2>4. t.id <= issuedTokens /\ issuedTokens <= issuedTokens /\ t.id \in fromLogin
        /\ fromLogin \subseteq fromLogin
    BY <1>1, <1>3, <2>1, <2>3
  <2>5. /\ StoreIsSound(plain', keychain', issuedTokens, fromLogin)
        /\ s.ok \in BOOLEAN /\ (s.ok => Stored' = t)
    BY <1>1, <1>8, <2>1, <2>2, <2>4, SaveIsSound
  <2>6. StoreIsSound(plain, keychain, issuedTokens, fromLogin)'
    BY <1>2, <1>5, <2>5 DEF StoreIsSound
  <2>7. CASE s.ok
    <3>1. mishap' = mishap
      BY <1>8, <2>7 DEF Mishap
    <3>2. Stored'.id = Stored.id
      BY <1>8, <2>1, <2>5, <2>7
    <3>3. (mishap => mishap') /\ (overtaken => overtaken') /\ caller[c].at # "commit"
      BY <1>2, <3>1
    <3>4. StoredStaysUsable'
      BY <1>1, <1>5, <1>6, <3>2, <3>3, UsableStays
    <3>5. IssuedIsSound'
      BY <1>1, <1>2, <1>5, <3>1 DEF IssuedIsSound
    <3> QED
      BY <1>6, <2>6, <3>4, <3>5 DEF TokenInv
  <2>8. CASE ~s.ok
    <3>1. Mishap(TRUE)
      BY <1>8, <2>8 DEF Mishap
    <3>2. mishap' = TRUE /\ StoredStaysUsable'
      BY <3>1, MishapForgives
    <3>3. IssuedIsSound'
      BY <1>1, <1>2, <1>5, <3>2 DEF IssuedIsSound
    <3> QED
      BY <1>6, <2>6, <3>2, <3>3 DEF TokenInv
  <2> QED
    BY <2>7, <2>8
<1> QED
  BY <1>7, <1>8 DEF ModelsFetched

LEMMA TokenStepCommit ==
    ASSUME TokenInv, NEW c \in Callers, Commit(c)
    PROVE  TokenInv'
<1>1. /\ CallIsSound(c, caller[c], refreshLease, issuedTokens, used) /\ issuedTokens \in Nat
      /\ CallsAreSound /\ IssuedIsSound /\ StoredStaysUsable /\ mac \in BOOLEAN
      /\ StoreIsSound(plain, keychain, issuedTokens, fromLogin)
  BY TokenInvParts
<1> DEFINE input == caller[c].input
           rotated == caller[c].rotated
<1>2. caller[c].at = "commit" /\ Unlease(c) /\ Provider /\ UNCHANGED mac /\ refreshLease = c
  BY <1>1 DEF Commit, CallIsSound
<1>3. /\ rotated \in Tokens /\ rotated.id <= issuedTokens /\ rotated.id \notin used
  BY <1>1, <1>2 DEF CallIsSound
<1>4. issuedTokens' = issuedTokens /\ used' = used /\ expired' = expired /\ LeaseMoves(c)
  BY <1>2 DEF Provider, Unlease, LeaseMoves
<1>5. ASSUME NEW t \in Tokens \cup {NoToken}, t.id <= issuedTokens, Ends(c, t)
      PROVE  CallsAreSound' /\ \A d \in Callers \ {c} : caller'[d] = caller[d]
  <2>1. PICK r : /\ caller' = [caller EXCEPT ![c] = r]
                 /\ \A lease, taken : CallIsSound(c, r, lease, issuedTokens, taken)
    BY <1>1, <1>5, EndsSoundly
  <2>2. /\ issuedTokens' \in Nat /\ issuedTokens <= issuedTokens'
        /\ CallIsSound(c, r, refreshLease', issuedTokens', used')
    BY <1>1, <1>4, <2>1
  <2> QED
    BY <1>1, <1>4, <2>1, <2>2, RefreshMoves
<1>6. NoToken.id <= issuedTokens
  BY <1>1 DEF NoToken
<1>7. ASSUME NEW s \in SaveOutcomes(rotated), Stored = input, Store(s),
             fromLogin' = fromLogin \cup {rotated.id}, Mishap(~s.ok),
             Ends(c, IF s.ok THEN rotated ELSE NoToken), UNCHANGED overtaken
      PROVE  TokenInv'
  <2> HIDE DEF input, rotated
  <2>1. /\ issuedTokens <= issuedTokens /\ rotated.id \in fromLogin'
        /\ fromLogin \subseteq fromLogin'
    BY <1>1, <1>7
  <2>2. /\ StoreIsSound(plain', keychain', issuedTokens, fromLogin')
        /\ s.ok \in BOOLEAN /\ (s.ok => Stored' = rotated)
    BY <1>1, <1>3, <1>7, <2>1, SaveIsSound
  <2>3. StoreIsSound(plain, keychain, issuedTokens, fromLogin)'
    BY <1>2, <1>4, <2>2 DEF StoreIsSound
  <2>4. fromLogin' \subseteq TokenIds
    BY <1>1, <1>3, <1>7, TokenFacts DEF IssuedIsSound
  <2>5. CASE s.ok
    <3>1. mishap' = mishap
      BY <1>7, <2>5 DEF Mishap
    <3>2. Ends(c, rotated)
      BY <1>7, <2>5
    <3>3. CallsAreSound'
      BY <1>3, <1>5, <3>2
    <3>4. StoredStaysUsable'
      BY <1>3, <1>4, <2>2, <2>5 DEF StoredStaysUsable, Refreshable
    <3>5. IssuedIsSound'
      BY <1>1, <1>2, <1>4, <1>7, <2>4, <3>1 DEF IssuedIsSound
    <3> QED
      BY <2>3, <3>3, <3>4, <3>5 DEF TokenInv
  <2>6. CASE ~s.ok
    <3>1. Mishap(TRUE) /\ Ends(c, NoToken)
      BY <1>7, <2>6 DEF Mishap
    <3>2. mishap' = TRUE /\ StoredStaysUsable'
      BY <3>1, MishapForgives
    <3>3. CallsAreSound'
      BY <1>5, <1>6, <3>1
    <3>4. IssuedIsSound'
      BY <1>1, <1>2, <1>4, <1>7, <2>4, <3>2 DEF IssuedIsSound
    <3> QED
      BY <2>3, <3>2, <3>3, <3>4 DEF TokenInv
  <2> QED
    BY <2>5, <2>6
<1>8. ASSUME NEW t \in Loads, Stored # input,
             Ends(c, IF t.id \in expired THEN NoToken ELSE t),
             overtaken' = (overtaken \/ Stored.id = input.id),
             UNCHANGED <<plain, keychain, fromLogin, mishap>>
      PROVE  TokenInv'
  <2> DEFINE found == IF t.id \in expired THEN NoToken ELSE t
  <2>1. found \in Tokens \cup {NoToken} /\ found.id <= issuedTokens
    BY <1>6, TokenInvParts
  <2>2. Ends(c, found)
    BY <1>8
  <2> HIDE DEF found
  <2>3. CallsAreSound'
    BY <1>5, <2>1, <2>2
  <2>4. Stored' = Stored /\ mishap' = mishap
    BY <1>8 DEF Stored
  <2>5. StoredStaysUsable'
    <3>1. CASE mishap \/ overtaken \/ Stored.id = input.id
      <4>1. mishap => mishap'
        BY <2>4
      <4>2. overtaken \/ Stored.id = input.id => overtaken'
        <5> HIDE DEF input
        <5> QED
          BY <1>8, ZenonT(20)
      <4> QED
        BY <3>1, <4>1, <4>2 DEF StoredStaysUsable
    <3>2. CASE ~mishap /\ ~overtaken /\ Stored.id # input.id
      <4>1. Refreshable
        BY <1>1, <3>2 DEF StoredStaysUsable
      <4>2. \A d \in Callers : refreshLease = d => caller[d].input.id # Stored.id
        BY <1>2, <3>2
      <4>3. Stored.id \notin used
        BY <4>1, <4>2 DEF Refreshable
      <4> QED
        BY <1>4, <2>4, <4>3 DEF StoredStaysUsable, Refreshable
    <3> QED
      BY <3>1, <3>2
  <2>6. overtaken' \in BOOLEAN
    BY <1>8
  <2>7. IssuedIsSound'
    BY <1>1, <1>2, <1>4, <1>8, <2>6 DEF IssuedIsSound
  <2>8. StoreIsSound(plain, keychain, issuedTokens, fromLogin)'
    BY <1>1, <1>2, <1>4, <1>8 DEF StoreIsSound
  <2> QED
    BY <2>3, <2>5, <2>7, <2>8 DEF TokenInv
<1>9. CASE Mishap(TRUE) /\ Ends(c, NoToken) /\ UNCHANGED <<plain, keychain, fromLogin, overtaken>>
  <2>1. mishap' = TRUE /\ StoredStaysUsable'
    BY <1>9, MishapForgives
  <2>2. CallsAreSound'
    BY <1>5, <1>6, <1>9
  <2>3. IssuedIsSound'
    BY <1>1, <1>2, <1>4, <1>9, <2>1 DEF IssuedIsSound
  <2>4. StoreIsSound(plain, keychain, issuedTokens, fromLogin)'
    BY <1>1, <1>2, <1>4, <1>9 DEF StoreIsSound
  <2> QED
    BY <2>1, <2>2, <2>3, <2>4 DEF TokenInv
<1> QED
  BY <1>7, <1>8, <1>9 DEF Commit

\* A command of the user or time, which moves no call: the calls stay sound.
LEMMA CallsStand ==
    ASSUME CallsAreSound, UNCHANGED <<caller, refreshLease, used>>,
           issuedTokens \in Nat, issuedTokens' \in Nat, issuedTokens <= issuedTokens'
    PROVE  CallsAreSound'
<1>1. ASSUME NEW c \in Callers
      PROVE  CallIsSound(c, caller[c], refreshLease, issuedTokens', used)
  <2>1. CallIsSound(c, caller[c], refreshLease, issuedTokens, used)
    BY DEF CallsAreSound
  <2>2. \A t \in Tokens : t.id <= issuedTokens => t.id <= issuedTokens'
    BY TokenFacts
  <2> QED
    BY <2>1, <2>2 DEF CallIsSound
<1>2. \A c \in Callers : CallIsSound(c, caller'[c], refreshLease', issuedTokens', used')
  BY <1>1
<1> QED
  BY <1>2 DEF CallsAreSound, CallIsSound

LEMMA TokenStepLogin ==
    ASSUME TokenInv, Login
    PROVE  TokenInv'
<1>1. /\ issuedTokens \in Nat /\ CallsAreSound /\ IssuedIsSound /\ mac \in BOOLEAN
      /\ StoreIsSound(plain, keychain, issuedTokens, fromLogin)
  BY TokenInvParts
<1>2. /\ issuedTokens < MaxTokens /\ issuedTokens' = issuedTokens + 1
      /\ UNCHANGED <<mac, expired, used, refreshLease, caller, overtaken>>
  BY DEF Login
<1>3. PICK s \in SaveOutcomes(Fresh(TRUE)) :
        /\ Store(s)
        /\ fromLogin' = {issuedTokens + 1} \cup (IF s.ok THEN {} ELSE fromLogin)
        /\ Mishap(~s.ok)
  BY DEF Login
<1>4. Fresh(TRUE) \in Tokens /\ Fresh(TRUE).id = issuedTokens + 1
  BY <1>1, <1>2, FreshIsToken
<1> DEFINE t == Fresh(TRUE)
           n == issuedTokens + 1
<1>5. n \in Nat /\ issuedTokens <= n /\ t.id <= n /\ t.id \in fromLogin' /\ n \in TokenIds
  <2>1. n \in Nat /\ n <= n /\ issuedTokens <= n
    BY <1>1
  <2>2. n \in TokenIds
    BY <1>1, <1>2, TokenConstants DEF TokenIds
  <2>3. n \in fromLogin'
    BY <1>3
  <2> QED
    BY <1>4, <2>1, <2>2, <2>3
<1>6. s.ok \/ fromLogin \subseteq fromLogin'
  BY <1>3
<1>7. n \notin used /\ used \subseteq 1 .. n
  BY <1>1 DEF IssuedIsSound
<1> HIDE DEF t
<1>8. /\ StoreIsSound(plain', keychain', n, fromLogin')
      /\ s.ok \in BOOLEAN /\ (s.ok => Stored' = t)
  <2> HIDE DEF n
  <2>1. t \in Tokens /\ s \in SaveOutcomes(t)
    BY <1>3, <1>4 DEF t
  <2> QED
    BY <1>1, <1>3, <1>5, <1>6, <2>1, SaveIsSound
<1>9. StoreIsSound(plain, keychain, issuedTokens, fromLogin)'
  BY <1>2, <1>8 DEF StoreIsSound
<1>10. CallsAreSound'
  BY <1>1, <1>2, <1>5, CallsStand
<1>11. fromLogin' \subseteq TokenIds
  BY <1>1, <1>3, <1>5 DEF IssuedIsSound
<1>12. issuedTokens' \in 0 .. MaxTokens /\ used' \subseteq 1 .. issuedTokens'
  BY <1>1, <1>2, <1>7, TokenConstants
<1>13. CASE s.ok
  <2>1. mishap' = mishap
    BY <1>3, <1>13 DEF Mishap
  <2>2. Stored'.id = n
    BY <1>4, <1>8, <1>13 DEF t
  <2>3. StoredStaysUsable'
    BY <1>2, <1>7, <2>2 DEF StoredStaysUsable, Refreshable
  <2>4. IssuedIsSound'
    BY <1>1, <1>2, <1>11, <1>12, <2>1 DEF IssuedIsSound
  <2> QED
    BY <1>9, <1>10, <2>3, <2>4 DEF TokenInv
<1>14. CASE ~s.ok
  <2>1. Mishap(TRUE)
    BY <1>3, <1>14 DEF Mishap
  <2>2. mishap' = TRUE /\ StoredStaysUsable'
    BY <2>1, MishapForgives
  <2>3. IssuedIsSound'
    BY <1>1, <1>2, <1>11, <1>12, <2>2 DEF IssuedIsSound
  <2> QED
    BY <1>9, <1>10, <2>2, <2>3 DEF TokenInv
<1> QED
  BY <1>13, <1>14

LEMMA TokenStepLogout ==
    ASSUME TokenInv, Logout
    PROVE  TokenInv'
<1>1. /\ issuedTokens \in Nat /\ CallsAreSound /\ IssuedIsSound /\ mac \in BOOLEAN
      /\ StoreIsSound(plain, keychain, issuedTokens, fromLogin)
  BY TokenInvParts
<1>2. UNCHANGED <<mac, refreshLease, caller, overtaken, issuedTokens, expired, used>>
  BY DEF Logout, Provider
<1>3. PICK s \in DeleteOutcomes :
        /\ Store(s)
        /\ fromLogin' = IF s.ok THEN {} ELSE fromLogin
        /\ Mishap(~s.ok)
  BY DEF Logout
<1>4. CallsAreSound'
  BY <1>1, <1>2, CallsStand
<1>5. NoFile.token = NoToken /\ NoFile.marked = FALSE /\ NoToken.id = 0 /\ 0 <= issuedTokens
  BY <1>1 DEF NoFile, NoToken
<1>6. CASE s = Saved(NoFile, NoToken, TRUE)
  <2>1. plain' = NoFile /\ keychain' = NoToken /\ s.ok = TRUE
    BY <1>3, <1>6 DEF Saved, Store
  <2>2. mishap' = mishap /\ fromLogin' = {}
    BY <1>3, <2>1 DEF Mishap
  <2>3. StoreIsSound(NoFile, NoToken, issuedTokens, {})
    BY <1>5 DEF StoreIsSound
  <2>4. StoreIsSound(plain, keychain, issuedTokens, fromLogin)'
    BY <1>2, <2>1, <2>2, <2>3 DEF StoreIsSound
  <2>5. Stored'.id = 0
    BY <1>5, <2>1 DEF Stored
  <2>6. 0 \notin used
    BY <1>1 DEF IssuedIsSound
  <2>7. StoredStaysUsable'
    BY <1>2, <2>5, <2>6 DEF StoredStaysUsable, Refreshable
  <2>8. IssuedIsSound'
    BY <1>1, <1>2, <2>2 DEF IssuedIsSound
  <2> QED
    BY <1>4, <2>4, <2>7, <2>8 DEF TokenInv
<1>7. CASE s = Saved(plain, keychain, FALSE) \/ (mac /\ s = Saved(plain, NoToken, FALSE))
  <2>1. /\ plain' = plain /\ (keychain' = keychain \/ keychain' = NoToken)
        /\ s.ok = FALSE
    BY <1>3, <1>7 DEF Saved, Store
  <2>2. Mishap(TRUE) /\ fromLogin' = fromLogin
    BY <1>3, <2>1 DEF Mishap
  <2>3. mishap' = TRUE /\ StoredStaysUsable'
    BY <2>2, MishapForgives
  <2>4. StoreIsSound(plain, keychain, issuedTokens, fromLogin)'
    <3>1. StoreIsSound(plain, keychain', issuedTokens, fromLogin)
      BY <1>1, <1>5, <1>7, <2>1 DEF StoreIsSound
    <3> QED
      BY <1>2, <2>1, <2>2, <3>1 DEF StoreIsSound
  <2>5. IssuedIsSound'
    BY <1>1, <1>2, <2>2, <2>3 DEF IssuedIsSound
  <2> QED
    BY <1>4, <2>3, <2>4, <2>5 DEF TokenInv
<1> QED
  BY <1>3, <1>6, <1>7 DEF DeleteOutcomes

LEMMA TokenStepExpire ==
    ASSUME TokenInv, Expire
    PROVE  TokenInv'
<1>1. /\ issuedTokens \in Nat /\ CallsAreSound /\ IssuedIsSound /\ StoredStaysUsable
      /\ StoreIsSound(plain, keychain, issuedTokens, fromLogin)
  BY TokenInvParts
<1>2. /\ UNCHANGED <<mac, plain, keychain, fromLogin, mishap, overtaken>>
      /\ UNCHANGED <<issuedTokens, used, refreshLease, caller>>
  BY DEF Expire, StoreAlone, NoHistory
<1>3. expired' \subseteq TokenIds
  BY <1>1, TokenInvParts, TokenFacts DEF Expire, IssuedIsSound
<1>4. CallsAreSound'
  BY <1>1, <1>2, CallsStand
<1>5. IssuedIsSound' /\ StoreIsSound(plain, keychain, issuedTokens, fromLogin)'
  BY <1>1, <1>2, <1>3 DEF IssuedIsSound, StoreIsSound
<1>6. StoredStaysUsable'
  BY <1>1, <1>2 DEF StoredStaysUsable, Refreshable, Stored
<1> QED
  BY <1>4, <1>5, <1>6 DEF TokenInv

LEMMA TokenStutter ==
    ASSUME TokenInv, UNCHANGED tokenVars
    PROVE  TokenInv'
<1>1. /\ issuedTokens \in Nat /\ CallsAreSound /\ IssuedIsSound /\ StoredStaysUsable
      /\ StoreIsSound(plain, keychain, issuedTokens, fromLogin)
  BY TokenInvParts
<1>2. CallsAreSound'
  BY <1>1, CallsStand DEF tokenVars
<1>3. IssuedIsSound' /\ StoreIsSound(plain, keychain, issuedTokens, fromLogin)'
  BY <1>1 DEF IssuedIsSound, StoreIsSound, tokenVars
<1>4. StoredStaysUsable'
  BY <1>1 DEF StoredStaysUsable, Refreshable, Stored, tokenVars
<1> QED
  BY <1>2, <1>3, <1>4 DEF TokenInv

LEMMA TokenStep == TokenInv /\ [TokenNext]_tokenVars => TokenInv'
<1> SUFFICES ASSUME TokenInv, [TokenNext]_tokenVars PROVE TokenInv'
  OBVIOUS
<1>1. ASSUME NEW c \in Callers, NEW show \in BOOLEAN, GetBegins(c, show) PROVE TokenInv'
  BY <1>1, TokenStepGetBegins
<1>2. ASSUME NEW c \in Callers, CallStep(c) PROVE TokenInv'
  BY <1>2, TokenStepAcquireLease, TokenStepGivesUp, TokenStepLeaseReread, TokenStepRequestAnswered,
     TokenStepAnswerLost, TokenStepCommit, TokenStepModelsFetched, TokenStepCallerDies DEF CallStep
<1>3. CASE Login
  BY <1>3, TokenStepLogin
<1>4. CASE Logout
  BY <1>4, TokenStepLogout
<1>5. CASE Expire
  BY <1>5, TokenStepExpire
<1>6. CASE UNCHANGED tokenVars
  BY <1>6, TokenStutter
<1> QED
  BY <1>1, <1>2, <1>3, <1>4, <1>5, <1>6 DEF TokenNext

\* Nobody is logged in again, or out, by a refresh, a cache or an old file, and
\* however many calls run and give up, what they leave can be refreshed
\* (token_storage.py, client_integration.py).
THEOREM TokensStaySound == TokenSpec => []TokensAreSound
<1>1. TokenInit => TokenInv
  BY TokenInitHolds
<1>2. TokenInv /\ [TokenNext]_tokenVars => TokenInv'
  BY TokenStep
<1>3. TokenInv => TokensAreSound
  BY StoredIsKnown, TokenInvParts DEF TokensAreSound, UserCommandStands
<1> QED
  BY <1>1, <1>2, <1>3, PTL DEF TokenSpec

-----------------------------------------------------------------------------
(***************************************************************************)
(* The interactive worktrees.                                              *)
(***************************************************************************)

\* The steps of exit_worktree once it has found what to remove.
ExitSteps == {"inspected", "removing", "emptying", "unregistering", "failed", "removed", "branch",
              "deleting", "settling"}

\* What git shows of a HEAD that is on the branch.
HeadsFollow ==
    /\ registered # 0 /\ attached => headHas = branchHas
    /\ registered = 0 => headHas = {} /\ attached

\* The directories of a checkout are numbered as they are created.
InstancesNumbered ==
    /\ checkout <= created.checkouts /\ registered <= created.checkouts
    /\ \A o \in Owners : session[o].instance <= created.checkouts

\* Nothing that is there was made by o.
MadeNothing(o) ==
    /\ checkout # 0 => maker[checkout] # o
    /\ registered # 0 => maker[registered] # o
    /\ branch # 0 => maker[0] # o

\* A session is recorded until nothing of it is left.
SessionCovers(o) ==
    /\ session[o].phase = "none" /\ step[o] \notin {"added", "partial"} => MadeNothing(o)
    /\ step[o] = "named" => session[o].phase = "none"
    /\ step[o] \in ExitSteps => session[o].phase # "none" /\ session[o].instance # 0

\* A removal that looked for work and saw all that happened since.
Watched(o) == ~seen[o].discard /\ ~seen[o].late

\* What such a removal relies on: no work in the checkout, a HEAD on the
\* branch, the directory gone before git's, merged commits before the branch.
RemovalIsSafe(o) ==
    /\ step[o] \in {"removing", "emptying"} /\ Watched(o) => content # "work"
    /\ step[o] \in {"removing", "emptying", "unregistering"} /\ Watched(o)
            /\ registered = session[o].instance => attached
    /\ step[o] = "unregistering" => checkout # session[o].instance
    /\ step[o] = "deleting" /\ ~seen[o].discard => session[o].cleanup.has \subseteq merged

WorktreeInv ==
    /\ WorktreeTypeOK /\ HeadsFollow /\ InstancesNumbered
    /\ \A o \in Owners : SessionCovers(o) /\ RemovalIsSafe(o)

-----------------------------------------------------------------------------
(* Types.                                                                  *)

SessionRecords ==
    [phase : {"none", "active", "worktree_cleanup_pending", "branch_cleanup_pending"},
     instance : Checkouts, layout : {0, 1}, cleanup : BranchTips]
Steps ==
    {"idle", "named", "adding", "added", "partial", "inspected", "removing", "emptying",
     "unregistering", "failed", "removed", "branch", "deleting", "settling"}
Sights ==
    [discard : BOOLEAN, attached : BOOLEAN, head : SUBSET Commits, tip : BranchTips,
     owned : BOOLEAN, late : BOOLEAN]

DiskTyped ==
    /\ checkout \in Checkouts /\ registered \in Checkouts
    /\ attached \in BOOLEAN /\ content \in {"clean", "work", "emptied"}
    /\ headHas \subseteq Commits /\ branchHas \subseteq Commits /\ merged \subseteq Commits
CountsTyped ==
    /\ branch \in 0 .. created.states /\ layout \in {0, 1}
    /\ created \in [checkouts : Checkouts, states : Nat, commits : 0 .. MaxCommits]
    /\ maker \in [Checkouts -> Owners \cup {"user"}]
RuntimesTyped ==
    /\ session \in [Owners -> SessionRecords] /\ step \in [Owners -> Steps]
    /\ seen \in [Owners -> Sights]

LEMMA TypedParts ==
    WorktreeTypeOK <=>
        DiskTyped /\ CountsTyped /\ RuntimesTyped /\ disturbances \in 0 .. MaxDisturbances
BY DEF WorktreeTypeOK, DiskTyped, CountsTyped, RuntimesTyped, SessionRecords, Steps, Sights

LEMMA TypedPartsNext ==
    ASSUME DiskTyped', CountsTyped', RuntimesTyped', disturbances' \in 0 .. MaxDisturbances
    PROVE  WorktreeTypeOK'
BY DEF WorktreeTypeOK, DiskTyped, CountsTyped, RuntimesTyped, SessionRecords, Steps, Sights

LEMMA WorktreeRecords ==
    /\ NoBranch \in BranchTips /\ NoBranch.state = 0 /\ NoBranch.has = {}
    /\ NoWorktree \in SessionRecords
    /\ NoWorktree.phase = "none" /\ NoWorktree.instance = 0 /\ NoWorktree.cleanup = NoBranch
    /\ NothingSeen \in Sights /\ ~NothingSeen.discard /\ ~NothingSeen.late
<1>1. NoBranch \in BranchTips /\ NoBranch.state = 0 /\ NoBranch.has = {}
    BY DEF NoBranch, BranchTips
<1>2. /\ NoWorktree \in SessionRecords
      /\ NoWorktree.phase = "none" /\ NoWorktree.instance = 0 /\ NoWorktree.cleanup = NoBranch
    BY <1>1, WorktreeConstants DEF NoWorktree, SessionRecords, Checkouts, WorktreeConstants
<1>3. NothingSeen \in Sights /\ ~NothingSeen.discard /\ ~NothingSeen.late
    BY <1>1 DEF NothingSeen, Sights
<1> QED
    BY <1>1, <1>2, <1>3

\* What reconcile makes of a session.
LEMMA ReconciledFacts ==
    ASSUME NEW w \in SessionRecords, NEW incomplete \in BOOLEAN
    PROVE  /\ Reconciled(w, incomplete) \in SessionRecords
           /\ Reconciled(w, incomplete).instance \in {w.instance, 0}
           /\ \/ /\ Reconciled(w, incomplete) = NoWorktree
                 /\ NoTrace /\ branch = 0
              \/ /\ Reconciled(w, incomplete).phase # "none"
                 /\ Reconciled(w, incomplete).instance = w.instance
                 /\ Reconciled(w, incomplete).cleanup = w.cleanup
<1> DEFINE phases == {"active", "worktree_cleanup_pending", "branch_cleanup_pending"}
<1>1. ASSUME NEW p \in phases
      PROVE  LET r == [w EXCEPT !.phase = p]
             IN  /\ r \in SessionRecords /\ r.phase # "none"
                 /\ r.instance = w.instance /\ r.cleanup = w.cleanup
    BY <1>1 DEF SessionRecords
<1>2. \/ Reconciled(w, incomplete) = NoWorktree /\ NoTrace /\ branch = 0
      \/ \E p \in phases : Reconciled(w, incomplete) = [w EXCEPT !.phase = p]
    BY DEF Reconciled
<1> QED
    BY <1>1, <1>2, WorktreeRecords

\* The operations of a runtime leave the other runtimes alone.
LEMMA OthersStay ==
    ASSUME RuntimesTyped, NEW o \in Owners, NEW p \in Owners, p # o, Koder(o)
    PROVE  session'[p] = session[p] /\ step'[p] = step[p] /\ seen'[p] = seen[p]
BY DEF RuntimesTyped, Koder, EnterWorktree, LookForBranch, AddCheckout, AddFails, RecordCheckout,
       Keep, Exit, Preflight, BeginRemoval, RemoveCheckout, Unregister, RemovalFailed, Removed,
       CheckBranch, DeleteBranch, Settle, GoesTo, Finishes, Remembers, CleansUp

\* One runtime's part of the runtimes is replaced, or stays.
LEMMA RuntimeMoves ==
    ASSUME RuntimesTyped, NEW o \in Owners,
           UNCHANGED session \/ \E w \in SessionRecords : session' = [session EXCEPT ![o] = w],
           UNCHANGED step \/ \E s \in Steps : step' = [step EXCEPT ![o] = s],
           UNCHANGED seen \/ \E k \in Sights : seen' = [seen EXCEPT ![o] = k]
    PROVE  RuntimesTyped'
<1>1. session' \in [Owners -> SessionRecords]
    BY DEF RuntimesTyped
<1>2. step' \in [Owners -> Steps]
    BY DEF RuntimesTyped
<1>3. seen' \in [Owners -> Sights]
    BY DEF RuntimesTyped
<1> QED
    BY <1>1, <1>2, <1>3 DEF RuntimesTyped

LEMMA SessionKinds ==
    ASSUME WorktreeTypeOK, NEW o \in Owners, Koder(o)
    PROVE  UNCHANGED session \/ \E w \in SessionRecords : session' = [session EXCEPT ![o] = w]
<1>1. session[o] \in SessionRecords /\ layout \in {0, 1} /\ checkout \in Checkouts
      /\ seen[o] \in Sights
    BY TypedParts DEF RuntimesTyped, CountsTyped, DiskTyped
<1>2. CASE EnterWorktree(o)
  <2>1. [NoWorktree EXCEPT !.layout = layout] \in SessionRecords
      BY <1>1, WorktreeRecords DEF SessionRecords
  <2> QED
      BY <1>2, <2>1 DEF EnterWorktree, Remembers
<1>3. CASE LookForBranch(o) \/ Keep(o)
    BY <1>3, WorktreeRecords DEF LookForBranch, Keep, Remembers
<1>4. CASE RecordCheckout(o)
  <2>1. Captured(o) \in SessionRecords
    <3>1. 0 \in Checkouts
        BY WorktreeConstants DEF WorktreeConstants, Checkouts
    <3>2. \A n \in Checkouts : [session[o] EXCEPT !.instance = n] \in SessionRecords
        BY <1>1 DEF SessionRecords
    <3> QED
        BY <1>1, <3>1, <3>2 DEF Captured
  <2>2. (~Complete(o)) \in BOOLEAN
      OBVIOUS
  <2>3. Reconciled(Captured(o), ~Complete(o)) \in SessionRecords
      BY <2>1, <2>2, ReconciledFacts
  <2> QED
      BY <1>4, <2>3 DEF RecordCheckout, Remembers
<1>5. ASSUME NEW incomplete \in BOOLEAN
      PROVE  Reconciled(session[o], incomplete) \in SessionRecords
    BY <1>1, ReconciledFacts
<1>6. ASSUME NEW discard \in BOOLEAN, Exit(o, discard)
      PROVE  UNCHANGED session \/ \E w \in SessionRecords : session' = [session EXCEPT ![o] = w]
    BY <1>5, <1>6 DEF Exit, CleansUp, Remembers
<1>7. CASE Unregister(o)
  <2> DEFINE captured == [state |-> seen[o].tip.state, has |-> seen[o].head]
             w == [session[o] EXCEPT !.cleanup = captured]
  <2>1. captured \in BranchTips
      BY <1>1 DEF BranchTips, Sights
  <2>2. w \in SessionRecords
      BY <1>1, <2>1 DEF SessionRecords
  <2>3. \/ UNCHANGED session
        \/ session' = [session EXCEPT ![o] = w]
        \/ session' = [session EXCEPT ![o] = session[o]]
      BY <1>7 DEF Unregister, Remembers
  <2> HIDE DEF w
  <2> QED
      BY <1>1, <2>2, <2>3
<1>8. CASE RemovalFailed(o) \/ Removed(o) \/ Settle(o)
  <2>1. (~NoTrace) \in BOOLEAN
      OBVIOUS
  <2>2. \/ session' = [session EXCEPT ![o] = Reconciled(session[o], ~NoTrace)]
        \/ session' = [session EXCEPT ![o] = Reconciled(session[o], FALSE)]
      BY <1>8 DEF RemovalFailed, Removed, Settle, CleansUp, Remembers
  <2> QED
      BY <1>5, <2>1, <2>2
<1>9. CASE AddCheckout(o) \/ AddFails(o) \/ Preflight(o) \/ BeginRemoval(o) \/ RemoveCheckout(o)
           \/ CheckBranch(o) \/ DeleteBranch(o)
    BY <1>9 DEF AddCheckout, AddFails, Preflight, BeginRemoval, RemoveCheckout, CheckBranch,
                DeleteBranch
<1> QED
    BY <1>2, <1>3, <1>4, <1>6, <1>7, <1>8, <1>9 DEF Koder

LEMMA StepKinds ==
    ASSUME NEW o \in Owners, Koder(o)
    PROVE  UNCHANGED step \/ \E s \in Steps : step' = [step EXCEPT ![o] = s]
<1>1. \A s \in Steps : GoesTo(o, s) => step' = [step EXCEPT ![o] = s]
    BY DEF GoesTo
<1>2. Finishes(o) => step' = [step EXCEPT ![o] = "idle"]
    BY DEF Finishes, GoesTo
<1>3. \A w : \A discard \in BOOLEAN :
          CleansUp(o, w, discard) => GoesTo(o, "branch") \/ Finishes(o)
    BY DEF CleansUp
<1>4. \/ UNCHANGED step
      \/ \E s \in Steps : GoesTo(o, s)
      \/ Finishes(o)
      \/ step' = [step EXCEPT ![o] = "branch"]
    BY DEF Steps, Koder, EnterWorktree, LookForBranch, AddCheckout, AddFails, RecordCheckout,
       Keep, Exit, Preflight, BeginRemoval, RemoveCheckout, Unregister, RemovalFailed, Removed,
       CheckBranch, DeleteBranch, Settle, CleansUp, GoesTo
<1> QED
    BY <1>1, <1>2, <1>4 DEF Steps

LEMMA SeenKinds ==
    ASSUME WorktreeTypeOK, NEW o \in Owners, Koder(o)
    PROVE  UNCHANGED seen \/ \E k \in Sights : seen' = [seen EXCEPT ![o] = k]
<1>1. seen[o] \in Sights /\ branch \in Nat /\ attached \in BOOLEAN /\ headHas \subseteq Commits
      /\ Tip \in BranchTips
    BY TypedParts DEF RuntimesTyped, CountsTyped, DiskTyped, Tip, BranchTips
<1>2. ASSUME NEW discard \in BOOLEAN
      PROVE  [NothingSeen EXCEPT !.discard = discard] \in Sights
    BY WorktreeRecords DEF Sights
<1>3. ASSUME NEW w, NEW discard \in BOOLEAN, CleansUp(o, w, discard)
      PROVE  UNCHANGED seen \/ \E k \in Sights : seen' = [seen EXCEPT ![o] = k]
    BY <1>2, <1>3, WorktreeRecords DEF CleansUp, Finishes
<1>4. ASSUME NEW discard \in BOOLEAN, Exit(o, discard)
      PROVE  UNCHANGED seen \/ \E k \in Sights : seen' = [seen EXCEPT ![o] = k]
  <2> DEFINE k == [NothingSeen EXCEPT !.discard = discard, !.attached = attached,
                                      !.head = headHas, !.tip = Tip]
  <2>1. k \in Sights
      BY <1>1, WorktreeRecords DEF Sights
  <2>2. \/ CleansUp(o, Reconciled(session[o], FALSE), discard)
        \/ UNCHANGED seen
        \/ seen' = [seen EXCEPT ![o] = k]
      BY <1>4 DEF Exit
  <2> HIDE DEF k
  <2> QED
      BY <1>3, <2>1, <2>2
<1>5. CASE Removed(o)
  <2>1. seen[o].discard \in BOOLEAN
      BY <1>1 DEF Sights
  <2> QED
      BY <1>3, <1>5, <2>1 DEF Removed
<1>6. CASE BeginRemoval(o)
  <2> DEFINE owned == seen[o].attached /\ seen[o].tip.state # 0 /\ seen[o].tip.has = headHas
             t == [seen[o].tip EXCEPT !.state = branch]
             k == [seen[o] EXCEPT !.owned = owned, !.tip = t]
  <2>1. owned \in BOOLEAN
      BY <1>1 DEF Sights
  <2>2. t \in BranchTips
      BY <1>1 DEF Sights, BranchTips
  <2>3. UNCHANGED seen \/ seen' = [seen EXCEPT ![o].owned = owned, ![o].tip.state = branch]
      BY <1>6 DEF BeginRemoval
  <2> HIDE DEF owned, t
  <2>4. k \in Sights
      BY <1>1, <2>1, <2>2 DEF Sights
  <2>5. UNCHANGED seen \/ seen' = [seen EXCEPT ![o] = k]
      BY <1>1, <2>3, TypedParts DEF t, RuntimesTyped, Sights
  <2> HIDE DEF k
  <2> QED
      BY <2>4, <2>5
<1>7. CASE RemovalFailed(o) \/ Settle(o) \/ Preflight(o)
    BY <1>7, WorktreeRecords DEF RemovalFailed, Settle, Preflight, Finishes
<1>8. CASE EnterWorktree(o) \/ LookForBranch(o) \/ AddCheckout(o) \/ AddFails(o) \/ RecordCheckout(o)
           \/ Keep(o) \/ RemoveCheckout(o) \/ Unregister(o) \/ CheckBranch(o) \/ DeleteBranch(o)
    BY <1>8 DEF EnterWorktree, LookForBranch, AddCheckout, AddFails, RecordCheckout, Keep,
                RemoveCheckout, Unregister, CheckBranch, DeleteBranch
<1> QED
    BY <1>4, <1>5, <1>6, <1>7, <1>8 DEF Koder

\* A checkout that is created is the newest, and its maker's.
LEMMA CreatesFacts ==
    ASSUME DiskTyped, CountsTyped, NEW who \in Owners \cup {"user"},
           NEW on \in {"new", "existing", "detached"}, Creates(who, on), UNCHANGED <<merged, layout>>
    PROVE  /\ DiskTyped' /\ CountsTyped'
           /\ NoTrace /\ content' = "clean"
           /\ created'.checkouts = created.checkouts + 1
           /\ checkout' = created.checkouts + 1 /\ registered' = created.checkouts + 1
           /\ maker'[checkout'] = who
           /\ \A n \in Checkouts : maker'[n] = maker[n] \/ maker'[n] = who
           /\ \A n \in Checkouts \ {0, checkout'} : maker'[n] = maker[n]
           /\ on # "new" => maker'[0] = maker[0] /\ branch' = branch
           /\ attached' => headHas' = branchHas'
<1> DEFINE n == created.checkouts + 1
           s == IF on = "new" THEN created.states + 1 ELSE created.states
<1>1. created \in [checkouts : Checkouts, states : Nat, commits : 0 .. MaxCommits]
    BY DEF CountsTyped
<1>2. created.checkouts < MaxCheckouts /\ created.checkouts \in Nat /\ created.states \in Nat
    BY <1>1 DEF Creates, Checkouts
<1>3. n \in Checkouts /\ n # 0 /\ n \in Nat
    BY <1>2, WorktreeConstants DEF WorktreeConstants, Checkouts
<1>4. /\ created'.checkouts = n /\ created'.states = s
      /\ created' \in [checkouts : Checkouts, states : Nat, commits : 0 .. MaxCommits]
  <2>1. created' = [created EXCEPT !.checkouts = n, !.states = s]
      BY <1>1 DEF Creates
  <2>2. s \in Nat
      BY <1>2
  <2> HIDE DEF n, s
  <2> QED
      BY <1>1, <1>3, <2>1, <2>2
<1>5. /\ checkout' = n /\ registered' = n /\ NoTrace /\ content' = "clean"
      /\ attached' = (on # "detached")
      /\ branch' = (IF on = "new" THEN s ELSE branch)
      /\ branchHas' = (IF on = "new" THEN merged ELSE branchHas)
      /\ headHas' = (IF on = "detached" THEN merged ELSE branchHas')
    BY <1>4 DEF Creates
<1>6. DOMAIN maker = Checkouts /\ maker \in [Checkouts -> Owners \cup {"user"}]
    BY DEF CountsTyped
<1>7. maker' = [k \in Checkouts |-> IF k = n \/ (k = 0 /\ on = "new") THEN who ELSE maker[k]]
    BY <1>5, <1>6 DEF Creates
<1>8. /\ maker'[n] = who
      /\ \A k \in Checkouts : maker'[k] = maker[k] \/ maker'[k] = who
      /\ \A k \in Checkouts \ {0, n} : maker'[k] = maker[k]
      /\ on # "new" => maker'[0] = maker[0]
  <2> HIDE DEF n, s
  <2>1. 0 \in Checkouts
      BY WorktreeConstants DEF WorktreeConstants, Checkouts
  <2> QED
      BY <1>3, <1>7, <2>1
<1>9. attached' => headHas' = branchHas'
  <2> HIDE DEF n, s
  <2> QED
      BY <1>5
<1> HIDE DEF n
<1>10. DiskTyped'
    BY <1>3, <1>5 DEF DiskTyped
<1>11. branch' \in 0 .. created'.states
    BY <1>2, <1>4, <1>5 DEF CountsTyped
<1>12. maker' \in [Checkouts -> Owners \cup {"user"}]
    BY <1>6, <1>7
<1>13. CountsTyped'
    BY <1>4, <1>11, <1>12 DEF CountsTyped
<1> QED
  <2>1. on # "new" => branch' = branch
      BY <1>5
  <2>2. n = created.checkouts + 1
      BY DEF n
  <2>3. maker'[checkout'] = who /\ \A k \in Checkouts \ {0, checkout'} : maker'[k] = maker[k]
      BY <1>5, <1>8
  <2> QED
      BY <1>4, <1>5, <1>8, <1>9, <1>10, <1>13, <2>1, <2>2, <2>3

LEMMA KoderTypes ==
    ASSUME WorktreeTypeOK, NEW o \in Owners, Koder(o)
    PROVE  WorktreeTypeOK'
<1>1. DiskTyped /\ CountsTyped /\ RuntimesTyped /\ disturbances \in 0 .. MaxDisturbances
    BY TypedParts
<1>2. RuntimesTyped'
    BY <1>1, SessionKinds, StepKinds, SeenKinds, RuntimeMoves
<1>3. ASSUME UNCHANGED disturbances \/ Disturbed, DiskTyped', CountsTyped'
      PROVE  WorktreeTypeOK'
  <2>1. disturbances' \in 0 .. MaxDisturbances
      BY <1>1, <1>3, WorktreeConstants DEF Disturbed, WorktreeConstants
  <2> QED
      BY <1>2, <1>3, <2>1, TypedPartsNext
<1>4. CASE AddCheckout(o)
  <2>1. Creates(o, "new") /\ UNCHANGED <<merged, layout>> /\ (UNCHANGED disturbances \/ Disturbed)
      BY <1>4 DEF AddCheckout
  <2>2. DiskTyped' /\ CountsTyped'
      BY <1>1, <2>1, CreatesFacts
  <2> QED
      BY <1>3, <2>1, <2>2
<1>5. CASE AddFails(o)
  <2>1. UNCHANGED disturbances \/ Disturbed
      BY <1>5 DEF AddFails
  <2>2. CASE UNCHANGED <<branch, branchHas, created, maker>>
    <3>1. DiskTyped' /\ CountsTyped'
        BY <1>1, <1>5, <2>2 DEF AddFails, DiskTyped, CountsTyped
    <3> QED
        BY <1>3, <2>1, <3>1
  <2>3. CASE /\ created' = [created EXCEPT !.states = @ + 1]
             /\ branch' = created'.states /\ branchHas' = merged
             /\ maker' = [maker EXCEPT ![0] = o]
    <3>1. /\ created' \in [checkouts : Checkouts, states : Nat, commits : 0 .. MaxCommits]
          /\ created'.states \in Nat
        BY <1>1, <2>3 DEF CountsTyped
    <3>2. maker' \in [Checkouts -> Owners \cup {"user"}]
        BY <1>1, <2>3 DEF CountsTyped
    <3>3. CountsTyped' /\ DiskTyped'
        BY <1>1, <1>5, <2>3, <3>1, <3>2 DEF AddFails, CountsTyped, DiskTyped
    <3> QED
        BY <1>3, <2>1, <3>3
  <2> QED
      BY <1>5, <2>2, <2>3 DEF AddFails
<1>6. CASE Keep(o)
  <2>1. maker' \in [Checkouts -> Owners \cup {"user"}]
      BY <1>1, <1>6 DEF Keep, CountsTyped
  <2>2. DiskTyped' /\ CountsTyped'
      BY <1>1, <1>6, <2>1 DEF Keep, CountsTyped, DiskTyped, worktreeDisk
  <2> QED
      BY <1>3, <1>6, <2>2 DEF Keep
<1>7. CASE RemoveCheckout(o) \/ Unregister(o)
  <2>1. (UNCHANGED disturbances \/ Disturbed) /\ UNCHANGED <<branch, branchHas, repository>>
      BY <1>7 DEF RemoveCheckout, Unregister
  <2>2. 0 \in Checkouts
      BY WorktreeConstants DEF WorktreeConstants, Checkouts
  <2>3. DiskTyped'
      BY <1>1, <1>7, <2>1, <2>2 DEF RemoveCheckout, Unregister, Unregisters, DiskTyped, repository
  <2>4. CountsTyped'
      BY <1>1, <2>1 DEF CountsTyped, repository
  <2> QED
      BY <1>3, <2>1, <2>3, <2>4
<1>8. CASE DeleteBranch(o)
  <2>1. (UNCHANGED disturbances \/ Disturbed)
        /\ UNCHANGED <<checkout, registered, attached, content, repository>>
        /\ headHas' \in {headHas, {}}
        /\ ((branch' = 0 /\ branchHas' = {}) \/ UNCHANGED <<branch, branchHas>>)
      BY <1>8 DEF DeleteBranch
  <2>2. branch' \in 0 .. created.states
      BY <1>1, <2>1 DEF CountsTyped
  <2>3. DiskTyped'
      BY <1>1, <2>1 DEF DiskTyped, repository
  <2>4. CountsTyped'
      BY <1>1, <2>1, <2>2 DEF CountsTyped, repository
  <2> QED
      BY <1>3, <2>1, <2>3, <2>4
<1>9. CASE UNCHANGED <<worktreeDisk, repository, disturbances>>
  <2>1. DiskTyped' /\ CountsTyped'
      BY <1>1, <1>9 DEF DiskTyped, CountsTyped, worktreeDisk, repository
  <2> QED
      BY <1>3, <1>9, <2>1
<1> QED
    BY <1>4, <1>5, <1>6, <1>7, <1>8, <1>9
    DEF Koder, EnterWorktree, LookForBranch, RecordCheckout, Exit, Preflight, BeginRemoval,
        RemovalFailed, Removed, CheckBranch, Settle

\* What comes late marks the removals that are under way.
LEMMA LateFacts ==
    ASSUME RuntimesTyped, ComesLate, UNCHANGED <<session, step>>
    PROVE  /\ RuntimesTyped'
           /\ \A o \in Owners : /\ seen'[o].discard = seen[o].discard
                                /\ seen[o].late => seen'[o].late
                                /\ step[o] \in {"removing", "emptying"} => seen'[o].late
<1> SUFFICES ASSUME NEW o \in Owners
             PROVE  /\ seen'[o] \in Sights
                    /\ seen'[o].discard = seen[o].discard
                    /\ seen[o].late => seen'[o].late
                    /\ step[o] \in {"removing", "emptying"} => seen'[o].late
    BY DEF RuntimesTyped, ComesLate
<1>1. seen[o] \in Sights
    BY DEF RuntimesTyped
<1>2. CASE step[o] \in {"removing", "emptying"}
  <2>1. seen'[o] = [seen[o] EXCEPT !.late = TRUE]
      BY <1>2 DEF ComesLate
  <2>2. /\ [seen[o] EXCEPT !.late = TRUE] \in Sights
        /\ [seen[o] EXCEPT !.late = TRUE].discard = seen[o].discard
      BY <1>1 DEF Sights
  <2>3. [seen[o] EXCEPT !.late = TRUE].late
      BY <1>1 DEF Sights
  <2> QED
      BY <2>1, <2>2, <2>3
<1>3. CASE step[o] \notin {"removing", "emptying"}
    BY <1>1, <1>3 DEF ComesLate
<1> QED
    BY <1>2, <1>3

-----------------------------------------------------------------------------
(* What the others do to a runtime.                                        *)

World ==
    \/ Edit \/ CommitWork \/ Detach \/ Merge \/ ChangeLayout \/ DeleteDirectory \/ Prune
    \/ UserDeletesBranch \/ UserCreatesBranch
    \/ \E on \in {"new", "existing", "detached"} : UserAddsCheckout(on)

\* Directories never come back, nothing becomes o's, commits stay merged, and
\* what a removal has looked at changes only if it is marked as late.
DiskMoves(o) ==
    /\ MadeNothing(o) => MadeNothing(o)'
    /\ merged \subseteq merged'
    /\ checkout' = session[o].instance => checkout = session[o].instance \/ session[o].instance = 0
    /\ registered' = session[o].instance
            => registered = session[o].instance \/ session[o].instance = 0
    /\ content' = "work" /\ step[o] \in {"removing", "emptying"}
            => content = "work" \/ seen'[o].late
    /\ attached /\ ~attached' /\ registered' = session[o].instance
            => \/ session[o].instance = 0
               \/ checkout = session[o].instance
                  /\ (step[o] \in {"removing", "emptying"} => seen'[o].late)
RuntimeStays(o) ==
    /\ session'[o] = session[o] /\ step'[o] = step[o]
    /\ seen'[o].discard = seen[o].discard
    /\ seen[o].late => seen'[o].late

LEMMA WorldTypes ==
    ASSUME WorktreeTypeOK, World
    PROVE  WorktreeTypeOK'
<1>1. DiskTyped /\ CountsTyped /\ RuntimesTyped /\ disturbances \in 0 .. MaxDisturbances
    BY TypedParts
<1>2. ASSUME UNCHANGED disturbances \/ Disturbed, DiskTyped', CountsTyped', RuntimesTyped'
      PROVE  WorktreeTypeOK'
  <2>1. disturbances' \in 0 .. MaxDisturbances
      BY <1>1, <1>2, WorktreeConstants DEF Disturbed, WorktreeConstants
  <2> QED
      BY <1>2, <2>1, TypedPartsNext
<1>3. ASSUME UNCHANGED runtimes
       PROVE  RuntimesTyped'
    BY <1>1, <1>3 DEF RuntimesTyped, runtimes
<1>4. CASE Edit \/ Detach
  <2>1. RuntimesTyped'
      BY <1>1, <1>4, LateFacts DEF Edit, Detach
  <2>2. DiskTyped' /\ CountsTyped'
      BY <1>1, <1>4 DEF Edit, Detach, DiskTyped, CountsTyped, repository
  <2> QED
      BY <1>2, <1>4, <2>1, <2>2 DEF Edit, Detach
<1>5. CASE CommitWork
  <2>1. RuntimesTyped'
    <3>1. UNCHANGED seen \/ ComesLate
        BY <1>5 DEF CommitWork
    <3>2. UNCHANGED <<session, step>>
        BY <1>5 DEF CommitWork
    <3> QED
        BY <1>1, <3>1, <3>2, LateFacts DEF RuntimesTyped
  <2>2. created \in [checkouts : Checkouts, states : Nat, commits : 0 .. MaxCommits]
        /\ created.commits < MaxCommits
      BY <1>1, <1>5 DEF CommitWork, CountsTyped
  <2> DEFINE s == IF attached THEN created.states + 1 ELSE created.states
             k == created.commits + 1
  <2>3. created' = [created EXCEPT !.commits = k, !.states = s]
      BY <1>5, <2>2 DEF CommitWork
  <2>4. s \in Nat /\ k \in 0 .. MaxCommits /\ k \in Commits
      BY <2>2, WorktreeConstants DEF WorktreeConstants, Commits
  <2>5. attached => s = created.states + 1
      OBVIOUS
  <2>6. ~attached => s = created.states
      OBVIOUS
  <2> HIDE DEF s, k
  <2>7. /\ created' \in [checkouts : Checkouts, states : Nat, commits : 0 .. MaxCommits]
        /\ created'.commits = k /\ created'.states = s
      BY <2>2, <2>3, <2>4
  <2>8. headHas' \subseteq Commits /\ branchHas' \subseteq Commits
      BY <1>1, <1>5, <2>4, <2>7 DEF CommitWork, DiskTyped
  <2>9. branch' \in 0 .. created'.states
      BY <1>1, <1>5, <2>4, <2>6, <2>7 DEF CommitWork, CountsTyped
  <2>10. DiskTyped' /\ CountsTyped'
      BY <1>1, <1>5, <2>7, <2>8, <2>9 DEF CommitWork, DiskTyped, CountsTyped
  <2> QED
      BY <1>2, <1>5, <2>1, <2>10 DEF CommitWork
<1>6. CASE Merge \/ ChangeLayout
  <2>1. DiskTyped' /\ CountsTyped'
      BY <1>1, <1>6 DEF Merge, ChangeLayout, DiskTyped, CountsTyped, worktreeDisk
  <2> QED
      BY <1>2, <1>3, <1>6, <2>1 DEF Merge, ChangeLayout
<1>7. CASE DeleteDirectory \/ Prune \/ UserDeletesBranch
  <2>1. 0 \in Checkouts
      BY WorktreeConstants DEF WorktreeConstants, Checkouts
  <2>2. DiskTyped'
      BY <1>1, <1>7, <2>1 DEF DeleteDirectory, Prune, UserDeletesBranch, Unregisters, DiskTyped,
                              repository
  <2>3. branch' \in {branch, 0} /\ UNCHANGED repository
      BY <1>7 DEF DeleteDirectory, Prune, UserDeletesBranch
  <2>4. branch' \in 0 .. created.states
      BY <1>1, <2>3 DEF CountsTyped
  <2>5. CountsTyped'
      BY <1>1, <2>3, <2>4 DEF CountsTyped, repository
  <2> QED
      BY <1>2, <1>3, <1>7, <2>2, <2>5 DEF DeleteDirectory, Prune, UserDeletesBranch
<1>8. CASE UserCreatesBranch
  <2>1. /\ created' \in [checkouts : Checkouts, states : Nat, commits : 0 .. MaxCommits]
        /\ created'.states \in Nat
      BY <1>1, <1>8 DEF UserCreatesBranch, CountsTyped
  <2>2. maker' \in [Checkouts -> Owners \cup {"user"}]
      BY <1>1, <1>8 DEF UserCreatesBranch, CountsTyped
  <2>3. DiskTyped' /\ CountsTyped'
      BY <1>1, <1>8, <2>1, <2>2 DEF UserCreatesBranch, DiskTyped, CountsTyped
  <2> QED
      BY <1>2, <1>3, <1>8, <2>3 DEF UserCreatesBranch
<1>9. ASSUME NEW on \in {"new", "existing", "detached"}, UserAddsCheckout(on)
      PROVE  WorktreeTypeOK'
  <2>1. Creates("user", on) /\ UNCHANGED <<merged, layout, runtimes>> /\ Disturbed
      BY <1>9 DEF UserAddsCheckout
  <2>2. DiskTyped' /\ CountsTyped'
      BY <1>1, <2>1, CreatesFacts
  <2> QED
      BY <1>2, <1>3, <2>1, <2>2
<1> QED
    BY <1>4, <1>5, <1>6, <1>7, <1>8, <1>9 DEF World

\* A new checkout's head is on its branch, and its number is the next one.
LEMMA CreatesHeads ==
    ASSUME DiskTyped, CountsTyped, RuntimesTyped, HeadsFollow, InstancesNumbered,
           NEW who \in Owners \cup {"user"}, UNCHANGED <<merged, layout, session>>,
           NEW on \in {"new", "existing", "detached"}, Creates(who, on)
    PROVE  HeadsFollow' /\ InstancesNumbered'
<1>1. /\ created'.checkouts = created.checkouts + 1
      /\ checkout' = created.checkouts + 1 /\ registered' = created.checkouts + 1
      /\ attached' => headHas' = branchHas'
    BY CreatesFacts
<1>2. created.checkouts \in Nat /\ \A p \in Owners : session[p].instance \in Nat
    BY DEF CountsTyped, RuntimesTyped, SessionRecords, Checkouts
<1>3. \A p \in Owners : session[p].instance <= created.checkouts
    BY DEF InstancesNumbered
<1>4. InstancesNumbered'
    BY <1>1, <1>2, <1>3 DEF InstancesNumbered
<1>5. HeadsFollow'
    BY <1>1, <1>2 DEF HeadsFollow
<1> QED
    BY <1>4, <1>5

\* It is neither o's nor one that o's session names.
LEMMA CreatesForOthers ==
    ASSUME DiskTyped, CountsTyped, RuntimesTyped, HeadsFollow, InstancesNumbered, NEW o \in Owners,
           NEW who \in Owners \cup {"user"}, who # o, UNCHANGED <<merged, layout, session>>,
           NEW on \in {"new", "existing", "detached"}, Creates(who, on)
    PROVE  DiskMoves(o)
<1>1. /\ NoTrace /\ content' = "clean"
      /\ created'.checkouts = created.checkouts + 1
      /\ checkout' = created.checkouts + 1 /\ registered' = created.checkouts + 1
      /\ maker'[checkout'] = who
      /\ \A n \in Checkouts : maker'[n] = maker[n] \/ maker'[n] = who
      /\ on # "new" => maker'[0] = maker[0] /\ branch' = branch
      /\ attached' => headHas' = branchHas'
    BY CreatesFacts
<1>2. created.checkouts \in Nat /\ \A p \in Owners : session[p].instance \in Nat
    BY DEF CountsTyped, RuntimesTyped, SessionRecords, Checkouts
<1>3. \A p \in Owners : session[p].instance <= created.checkouts
    BY DEF InstancesNumbered
<1>4. MadeNothing(o) => MadeNothing(o)'
  <2>1. 0 \in Checkouts
      BY WorktreeConstants DEF WorktreeConstants, Checkouts
  <2>2. maker'[checkout'] # o /\ maker'[registered'] # o
      BY <1>1
  <2>3. (branch # 0 => maker[0] # o) => (branch' # 0 => maker'[0] # o)
    <3>1. CASE on = "new"
      <4>1. maker'[0] = who
          BY <1>1, <2>1, <3>1 DEF Creates, CountsTyped
      <4> QED
          BY <4>1
    <3>2. CASE on # "new"
        BY <1>1, <3>2
    <3> QED
        BY <3>1, <3>2
  <2> QED
      BY <2>2, <2>3 DEF MadeNothing
<1>5. checkout' # session[o].instance /\ registered' # session[o].instance
    BY <1>1, <1>2, <1>3
<1> QED
    BY <1>1, <1>4, <1>5 DEF DiskMoves

\* A step of the user or of another program keeps the head of a branch's
\* checkout on the branch.
LEMMA WorldHeads ==
    ASSUME WorktreeTypeOK, HeadsFollow, InstancesNumbered, World
    PROVE  HeadsFollow' /\ InstancesNumbered'
<1>1. DiskTyped /\ CountsTyped /\ RuntimesTyped
    BY TypedParts
<1>2. created.checkouts \in Nat /\ created \in [checkouts : Checkouts, states : Nat,
                                               commits : 0 .. MaxCommits]
    BY <1>1 DEF CountsTyped, Checkouts
<1>3. CASE Edit \/ Merge \/ ChangeLayout
    BY <1>3 DEF Edit, Merge, ChangeLayout, HeadsFollow, InstancesNumbered, worktreeDisk, repository,
                runtimes
<1>4. CASE CommitWork
  <2>1. UNCHANGED <<checkout, registered, attached, session>> /\ checkout # 0 /\ registered = checkout
      BY <1>4 DEF CommitWork
  <2>2. created'.checkouts = created.checkouts
      BY <1>2, <1>4 DEF CommitWork
  <2>3. attached => headHas' = branchHas'
      BY <1>4 DEF CommitWork
  <2> QED
      BY <2>1, <2>2, <2>3 DEF HeadsFollow, InstancesNumbered
<1>5. CASE Detach
    BY <1>5 DEF Detach, HeadsFollow, InstancesNumbered, repository
<1>6. CASE DeleteDirectory \/ Prune
  <2>1. UNCHANGED <<branchHas, created, session>> /\ checkout' \in {checkout, 0}
        /\ (Unregisters \/ UNCHANGED <<registered, attached, headHas>>)
      BY <1>6 DEF DeleteDirectory, Prune, repository, runtimes
  <2>2. InstancesNumbered'
      BY <1>2, <2>1 DEF InstancesNumbered, Unregisters
  <2> QED
      BY <2>1, <2>2 DEF HeadsFollow, Unregisters
<1>7. CASE UserDeletesBranch
    BY <1>7 DEF UserDeletesBranch, HeadsFollow, InstancesNumbered, repository, runtimes
<1>8. CASE UserCreatesBranch
  <2>1. UNCHANGED <<checkout, registered, attached, headHas, session>> /\ ~(registered # 0 /\ attached)
      BY <1>8 DEF UserCreatesBranch, runtimes
  <2>2. created'.checkouts = created.checkouts
      BY <1>2, <1>8 DEF UserCreatesBranch
  <2> QED
      BY <2>1, <2>2 DEF HeadsFollow, InstancesNumbered
<1>9. ASSUME NEW on \in {"new", "existing", "detached"}, UserAddsCheckout(on)
      PROVE  HeadsFollow' /\ InstancesNumbered'
  <2>1. Creates("user", on) /\ UNCHANGED <<merged, layout, session>>
      BY <1>9 DEF UserAddsCheckout, runtimes
  <2> QED
      BY <1>1, <2>1, CreatesHeads
<1> QED
    BY <1>3, <1>4, <1>5, <1>6, <1>7, <1>8, <1>9 DEF World

\* It takes nothing from a runtime unnoticed.
LEMMA WorldMoves ==
    ASSUME WorktreeTypeOK, HeadsFollow, InstancesNumbered, World, NEW o \in Owners
    PROVE  DiskMoves(o) /\ RuntimeStays(o)
<1>1. DiskTyped /\ CountsTyped /\ RuntimesTyped
    BY TypedParts
<1>2. created.checkouts \in Nat /\ created \in [checkouts : Checkouts, states : Nat,
                                                commits : 0 .. MaxCommits]
    BY <1>1 DEF CountsTyped, Checkouts
<1>3. RuntimeStays(o)
  <2>1. UNCHANGED <<session, step>> /\ (UNCHANGED seen \/ ComesLate)
      BY DEF World, Edit, CommitWork, Detach, Merge, ChangeLayout, DeleteDirectory, Prune,
             UserDeletesBranch, UserCreatesBranch, UserAddsCheckout, runtimes
  <2> QED
      BY <1>1, <2>1, LateFacts DEF RuntimeStays
<1>4. CASE Edit
  <2>1. ComesLate /\ UNCHANGED <<session, step>>
      BY <1>4 DEF Edit
  <2>2. step[o] \in {"removing", "emptying"} => seen'[o].late
      BY <1>1, <2>1, LateFacts
  <2>3. UNCHANGED <<checkout, registered, attached, headHas, branch, branchHas, merged, created,
                    maker, session>>
      BY <1>4 DEF Edit, repository
  <2> QED
      BY <1>3, <2>2, <2>3 DEF DiskMoves, MadeNothing
<1>5. CASE CommitWork
  <2>1. /\ UNCHANGED <<checkout, registered, attached, merged, maker, session>>
        /\ content' = "clean" /\ checkout # 0 /\ registered = checkout
      BY <1>5 DEF CommitWork
  <2>2. created'.checkouts = created.checkouts
      BY <1>2, <1>5 DEF CommitWork
  <2>3. attached => branch # 0 /\ headHas' = branchHas'
      BY <1>5 DEF CommitWork, HeadResolves
  <2>4. ~attached => branch' = branch
      BY <1>5 DEF CommitWork
  <2> QED
      BY <1>3, <2>1, <2>3, <2>4 DEF DiskMoves, MadeNothing
<1>6. CASE Detach
  <2>1. ComesLate /\ UNCHANGED <<session, step>> /\ registered = checkout /\ ~attached'
        /\ checkout # 0
      BY <1>6 DEF Detach
  <2>2. step[o] \in {"removing", "emptying"} => seen'[o].late
      BY <1>1, <2>1, LateFacts
  <2>3. UNCHANGED <<checkout, registered, content, headHas, branch, branchHas, merged, created,
                    maker, session>>
      BY <1>6 DEF Detach, repository
  <2> QED
      BY <1>3, <2>1, <2>2, <2>3 DEF DiskMoves, MadeNothing
<1>7. CASE Merge \/ ChangeLayout
    BY <1>3, <1>7 DEF Merge, ChangeLayout, DiskMoves, MadeNothing,
                      worktreeDisk, runtimes
<1>8. CASE DeleteDirectory
  <2>1. checkout' = 0 /\ content' = "clean"
        /\ UNCHANGED <<registered, attached, headHas, branch, branchHas, merged, created, maker,
                       session>>
      BY <1>8 DEF DeleteDirectory, repository, runtimes
  <2> QED
      BY <1>3, <2>1 DEF DiskMoves, MadeNothing
<1>9. CASE Prune
  <2>1. registered' = 0 /\ attached' = TRUE /\ headHas' = {}
        /\ UNCHANGED <<checkout, content, branch, branchHas, merged, created, maker, session>>
      BY <1>9 DEF Prune, Unregisters, repository, runtimes
  <2> QED
      BY <1>3, <2>1 DEF DiskMoves, MadeNothing
<1>10. CASE UserDeletesBranch
    BY <1>3, <1>10 DEF UserDeletesBranch, DiskMoves, MadeNothing,
                      repository, runtimes
<1>11. CASE UserCreatesBranch
  <2>1. /\ UNCHANGED <<checkout, registered, attached, content, headHas, merged, session>>
        /\ branch = 0 /\ ~(registered # 0 /\ attached)
        /\ maker' = [maker EXCEPT ![0] = "user"]
      BY <1>11 DEF UserCreatesBranch, runtimes
  <2>2. created'.checkouts = created.checkouts
      BY <1>2, <1>11 DEF UserCreatesBranch
  <2>3. maker'[0] = "user" /\ \A n \in Checkouts \ {0} : maker'[n] = maker[n]
      BY <1>1, <2>1, WorktreeConstants DEF CountsTyped, WorktreeConstants, Checkouts
  <2>4. MadeNothing(o) => MadeNothing(o)'
      BY <1>1, <2>1, <2>3, WorktreeConstants DEF MadeNothing, DiskTyped, WorktreeConstants
  <2> QED
      BY <1>3, <2>1, <2>4 DEF DiskMoves
<1>12. ASSUME NEW on \in {"new", "existing", "detached"}, UserAddsCheckout(on)
       PROVE  DiskMoves(o)
  <2>1. Creates("user", on) /\ UNCHANGED <<merged, layout, session, step>>
      BY <1>12 DEF UserAddsCheckout, runtimes
  <2>2. "user" # o
      BY WorktreeConstants DEF WorktreeConstants
  <2> QED
      BY <1>1, <2>1, <2>2, CreatesForOthers
<1> QED
    BY <1>3, <1>4, <1>5, <1>6, <1>7, <1>8, <1>9, <1>10, <1>11, <1>12 DEF World

\* A step of any runtime keeps the head of a branch's checkout on the branch.
LEMMA KoderHeads ==
    ASSUME WorktreeTypeOK, HeadsFollow, InstancesNumbered, NEW p \in Owners, Koder(p)
    PROVE  HeadsFollow' /\ InstancesNumbered'
<1>1. DiskTyped /\ CountsTyped /\ RuntimesTyped
    BY TypedParts
<1>2. /\ created.checkouts \in Nat /\ checkout \in Nat /\ registered \in Nat
      /\ checkout <= created.checkouts /\ registered <= created.checkouts
      /\ \A o \in Owners : session[o] \in SessionRecords /\ session[o].instance \in Nat
                           /\ session[o].instance <= created.checkouts
    BY <1>1 DEF CountsTyped, DiskTyped, RuntimesTyped, SessionRecords, Checkouts, InstancesNumbered
<1>3. created \in [checkouts : Checkouts, states : Nat, commits : 0 .. MaxCommits]
    BY <1>1 DEF CountsTyped
<1>4. ASSUME created'.checkouts \in Nat, created.checkouts <= created'.checkouts,
             checkout' <= created'.checkouts, registered' <= created'.checkouts,
             UNCHANGED session
             \/ \E w \in SessionRecords : session' = [session EXCEPT ![p] = w]
                                          /\ w.instance \in {session[p].instance, checkout, 0}
      PROVE  InstancesNumbered'
  <2>1. ASSUME NEW o \in Owners PROVE session'[o].instance <= created'.checkouts
    <3>1. session'[o].instance \in {session[o].instance, checkout, 0}
        BY <1>1, <1>4 DEF RuntimesTyped
    <3> QED
        BY <1>2, <1>4, <3>1
  <2> QED
      BY <1>4, <2>1 DEF InstancesNumbered
<1>5. CASE AddCheckout(p)
  <2>1. /\ created'.checkouts = created.checkouts + 1
        /\ checkout' = created.checkouts + 1 /\ registered' = created.checkouts + 1
        /\ (attached' => headHas' = branchHas') /\ UNCHANGED session
    <3>1. Creates(p, "new") /\ UNCHANGED <<merged, layout, session>>
        BY <1>5 DEF AddCheckout
    <3> QED
        BY <1>1, <3>1, CreatesFacts
  <2>2. HeadsFollow'
      BY <1>2, <2>1 DEF HeadsFollow
  <2> QED
      BY <1>2, <1>4, <2>1, <2>2
<1>6. CASE AddFails(p)
  <2>1. UNCHANGED <<checkout, registered, attached, headHas, session>>
        /\ (UNCHANGED <<branch, branchHas, created>>
            \/ (NoTrace /\ created' = [created EXCEPT !.states = @ + 1]))
      BY <1>6 DEF AddFails
  <2>2. created'.checkouts = created.checkouts
      BY <1>3, <2>1
  <2>3. HeadsFollow'
      BY <2>1 DEF HeadsFollow, NoTrace
  <2> QED
      BY <1>2, <1>4, <2>1, <2>2, <2>3
<1>7. CASE RemoveCheckout(p)
  <2>1. checkout' \in {checkout, 0}
        /\ UNCHANGED <<registered, attached, headHas, branch, branchHas, created, session>>
      BY <1>7 DEF RemoveCheckout, repository
  <2>2. HeadsFollow'
      BY <2>1 DEF HeadsFollow
  <2> QED
      BY <1>2, <1>4, <2>1, <2>2
<1>8. \A w \in SessionRecords : \A incomplete \in BOOLEAN :
          Reconciled(w, incomplete) \in SessionRecords
          /\ Reconciled(w, incomplete).instance \in {w.instance, 0}
    BY ReconciledFacts
<1>9. CASE Unregister(p)
  <2> DEFINE captured == [state |-> seen[p].tip.state, has |-> seen[p].head]
             w == [session[p] EXCEPT !.cleanup = captured]
  <2>1. captured \in BranchTips
      BY <1>1 DEF RuntimesTyped, BranchTips, Sights
  <2>2. w \in SessionRecords /\ w.instance = session[p].instance
      BY <1>2, <2>1 DEF SessionRecords
  <2>3. \/ UNCHANGED session
        \/ session' = [session EXCEPT ![p] = w]
        \/ session' = [session EXCEPT ![p] = session[p]]
      BY <1>9 DEF Unregister, Remembers
  <2>4. UNCHANGED <<checkout, branch, branchHas, created>>
        /\ (Unregisters \/ UNCHANGED <<registered, attached, headHas>>)
      BY <1>9 DEF Unregister, repository
  <2>5. HeadsFollow'
      BY <2>4 DEF HeadsFollow, Unregisters
  <2>6. registered' \in {registered, 0}
      BY <2>4 DEF Unregisters
  <2> HIDE DEF w
  <2> QED
      BY <1>2, <1>4, <2>2, <2>3, <2>4, <2>5, <2>6
<1>10. CASE DeleteBranch(p)
  <2>1. UNCHANGED <<checkout, registered, attached, created, session>>
        /\ (UNCHANGED <<branchHas, headHas>>
            \/ (branchHas' = {} /\ headHas' = (IF attached THEN {} ELSE headHas)))
      BY <1>10 DEF DeleteBranch, repository
  <2>2. HeadsFollow'
      BY <2>1 DEF HeadsFollow
  <2> QED
      BY <1>2, <1>4, <2>1, <2>2
<1>11. ASSUME UNCHANGED <<checkout, registered, attached, headHas, branchHas, created>>,
             UNCHANGED session
             \/ \E w \in SessionRecords : session' = [session EXCEPT ![p] = w]
                                          /\ w.instance \in {session[p].instance, checkout, 0}
      PROVE  HeadsFollow' /\ InstancesNumbered'
  <2>1. HeadsFollow'
      BY <1>11 DEF HeadsFollow
  <2> QED
      BY <1>2, <1>4, <1>11, <2>1
<1>12. CASE EnterWorktree(p)
  <2>1. layout \in {0, 1}
      BY <1>1 DEF CountsTyped
  <2>2. [NoWorktree EXCEPT !.layout = layout] \in SessionRecords
        /\ [NoWorktree EXCEPT !.layout = layout].instance = 0
      BY <2>1, WorktreeRecords DEF SessionRecords
  <2> QED
      BY <1>11, <1>12, <2>2 DEF EnterWorktree, Remembers, worktreeDisk, repository
<1>13. CASE LookForBranch(p) \/ Keep(p)
    BY <1>11, <1>13, WorktreeRecords DEF LookForBranch, Keep, Remembers, worktreeDisk, repository
<1>14. CASE RecordCheckout(p)
  <2>1. Captured(p) \in SessionRecords /\ Captured(p).instance \in {checkout, 0}
    <3>1. 0 \in Checkouts /\ checkout \in Checkouts
        BY <1>1, WorktreeConstants DEF DiskTyped, WorktreeConstants, Checkouts
    <3>2. \A n \in Checkouts : /\ [session[p] EXCEPT !.instance = n] \in SessionRecords
                               /\ [session[p] EXCEPT !.instance = n].instance = n
        BY <1>2 DEF SessionRecords
    <3> QED
        BY <3>1, <3>2 DEF Captured
  <2>2. (~Complete(p)) \in BOOLEAN
      OBVIOUS
  <2>3. Reconciled(Captured(p), ~Complete(p)) \in SessionRecords
        /\ Reconciled(Captured(p), ~Complete(p)).instance \in {Captured(p).instance, 0}
      BY <1>8, <2>1, <2>2
  <2> QED
      BY <1>11, <1>14, <2>1, <2>3 DEF RecordCheckout, Remembers, worktreeDisk, repository
<1>15. (\E discard \in BOOLEAN : Exit(p, discard)) \/ RemovalFailed(p) \/ Removed(p) \/ Settle(p)
       => HeadsFollow' /\ InstancesNumbered'
  <2> SUFFICES ASSUME (\E discard \in BOOLEAN : Exit(p, discard)) \/ RemovalFailed(p)
                      \/ Removed(p) \/ Settle(p)
               PROVE  HeadsFollow' /\ InstancesNumbered'
      OBVIOUS
  <2>1. \/ UNCHANGED session
        \/ \E incomplete \in BOOLEAN :
               session' = [session EXCEPT ![p] = Reconciled(session[p], incomplete)]
      BY DEF Exit, RemovalFailed, Removed, Settle, CleansUp, Remembers
  <2>2. UNCHANGED <<worktreeDisk, repository>>
      BY DEF Exit, RemovalFailed, Removed, Settle
  <2>3. \A incomplete \in BOOLEAN : Reconciled(session[p], incomplete) \in SessionRecords
            /\ Reconciled(session[p], incomplete).instance \in {session[p].instance, 0}
      BY <1>2, <1>8
  <2> QED
      BY <1>11, <2>1, <2>2, <2>3 DEF worktreeDisk, repository
<1>16. CASE Preflight(p) \/ BeginRemoval(p) \/ CheckBranch(p)
    BY <1>11, <1>16 DEF Preflight, BeginRemoval, CheckBranch, worktreeDisk, repository
<1> QED
    BY <1>5, <1>6, <1>7, <1>9, <1>10, <1>12, <1>13, <1>14, <1>15, <1>16 DEF Koder

\* Nor does it touch what is another runtime's.
LEMMA KoderMoves ==
    ASSUME WorktreeTypeOK, HeadsFollow, InstancesNumbered, NEW p \in Owners, Koder(p),
           NEW o \in Owners, o # p
    PROVE  DiskMoves(o) /\ RuntimeStays(o)
<1>1. DiskTyped /\ CountsTyped /\ RuntimesTyped
    BY TypedParts
<1>2. session'[o] = session[o] /\ step'[o] = step[o] /\ seen'[o] = seen[o]
    BY <1>1, OthersStay
<1>3. RuntimeStays(o)
    BY <1>2 DEF RuntimeStays
<1>4. CASE AddCheckout(p)
  <2>1. Creates(p, "new") /\ UNCHANGED <<merged, layout, session>>
      BY <1>4 DEF AddCheckout
  <2> QED
      BY <1>1, <1>3, <2>1, CreatesForOthers
<1>5. CASE AddFails(p)
  <2>1. UNCHANGED <<checkout, registered, attached, content, merged>>
      BY <1>5 DEF AddFails
  <2>2. MadeNothing(o) => MadeNothing(o)'
    <3>1. CASE UNCHANGED <<branch, maker>>
        BY <2>1, <3>1 DEF MadeNothing
    <3>2. CASE NoTrace /\ maker' = [maker EXCEPT ![0] = p]
      <4>1. maker'[0] = p
          BY <1>1, <3>2, WorktreeConstants DEF CountsTyped, WorktreeConstants, Checkouts
      <4> QED
          BY <2>1, <3>2, <4>1 DEF MadeNothing, NoTrace
    <3> QED
        BY <1>5, <3>1, <3>2 DEF AddFails
  <2> QED
      BY <1>3, <2>1, <2>2 DEF DiskMoves
<1>6. CASE Keep(p)
  <2>1. UNCHANGED <<worktreeDisk, merged>>
        /\ maker' = [n \in DOMAIN maker |-> IF maker[n] = p THEN "user" ELSE maker[n]]
      BY <1>6 DEF Keep
  <2>2. \A n \in Checkouts : maker[n] # o => maker'[n] # o
      BY <1>1, <2>1, WorktreeConstants DEF CountsTyped, WorktreeConstants
  <2>3. 0 \in Checkouts /\ checkout \in Checkouts /\ registered \in Checkouts
      BY <1>1, WorktreeConstants DEF DiskTyped, WorktreeConstants, Checkouts
  <2>4. MadeNothing(o) => MadeNothing(o)'
      BY <2>1, <2>2, <2>3 DEF MadeNothing, worktreeDisk
  <2> QED
      BY <1>3, <2>1, <2>4 DEF DiskMoves, worktreeDisk
<1>7. CASE RemoveCheckout(p)
  <2>1. checkout' \in {checkout, 0} /\ content' \in {content, "clean", "emptied"}
        /\ UNCHANGED <<registered, attached, branch, merged, maker>>
      BY <1>7 DEF RemoveCheckout, repository
  <2> QED
      BY <1>3, <2>1 DEF DiskMoves, MadeNothing
<1>8. CASE Unregister(p)
  <2>1. UNCHANGED <<checkout, content, branch, merged, maker>>
        /\ (Unregisters \/ UNCHANGED <<registered, attached, headHas>>)
      BY <1>8 DEF Unregister, repository
  <2> QED
      BY <1>3, <2>1 DEF DiskMoves, MadeNothing, Unregisters
<1>9. CASE DeleteBranch(p)
  <2>1. UNCHANGED <<checkout, registered, attached, content, merged, maker>>
        /\ branch' \in {branch, 0}
      BY <1>9 DEF DeleteBranch, repository
  <2> QED
      BY <1>3, <2>1 DEF DiskMoves, MadeNothing
<1>10. CASE UNCHANGED <<worktreeDisk, repository>>
    BY <1>3, <1>10 DEF DiskMoves, MadeNothing, worktreeDisk, repository
<1> QED
    BY <1>4, <1>5, <1>6, <1>7, <1>8, <1>9, <1>10
    DEF Koder, EnterWorktree, LookForBranch, RecordCheckout, Exit, Preflight, BeginRemoval,
        RemovalFailed, Removed, CheckBranch, Settle

\* What a runtime relies on outlives whatever the others do.
LEMMA OthersKeep ==
    ASSUME WorktreeTypeOK, NEW o \in Owners, SessionCovers(o), RemovalIsSafe(o),
           DiskMoves(o), RuntimeStays(o)
    PROVE  SessionCovers(o)' /\ RemovalIsSafe(o)'
<1>1. /\ session'[o] = session[o] /\ step'[o] = step[o] /\ seen'[o].discard = seen[o].discard
      /\ (Watched(o)' => Watched(o))
    BY DEF RuntimeStays, Watched
<1>2. SessionCovers(o)'
    BY <1>1 DEF SessionCovers, DiskMoves
<1>3. step[o] \in ExitSteps => session[o].instance # 0
    BY DEF SessionCovers
<1>4. step'[o] \in {"removing", "emptying"} /\ Watched(o)' => content' # "work"
    BY <1>1 DEF RemovalIsSafe, DiskMoves, Watched
<1>5. step'[o] = "unregistering" => checkout' # session'[o].instance
    BY <1>1, <1>3 DEF RemovalIsSafe, DiskMoves, ExitSteps
<1>6. step'[o] = "deleting" /\ ~seen'[o].discard => session'[o].cleanup.has \subseteq merged'
    BY <1>1 DEF RemovalIsSafe, DiskMoves
<1>7. ASSUME step'[o] \in {"removing", "emptying", "unregistering"}, Watched(o)',
             registered' = session'[o].instance
      PROVE  attached'
  <2>1. session[o].instance # 0
      BY <1>1, <1>3, <1>7 DEF ExitSteps
  <2>2. registered = session[o].instance /\ attached
      BY <1>1, <1>7, <2>1 DEF DiskMoves, RemovalIsSafe
  <2>3. CASE step[o] \in {"removing", "emptying"}
    <3>1. ~seen'[o].late
        BY <1>7 DEF Watched
    <3> QED
        BY <1>1, <1>7, <2>1, <2>2, <2>3, <3>1 DEF DiskMoves
  <2>4. CASE step[o] = "unregistering"
    <3>1. checkout # session[o].instance
        BY <2>4 DEF RemovalIsSafe
    <3> QED
        BY <1>1, <1>7, <2>1, <2>2, <3>1 DEF DiskMoves
  <2> QED
      BY <1>1, <1>7, <2>3, <2>4
<1> QED
    BY <1>2, <1>4, <1>5, <1>6, <1>7 DEF RemovalIsSafe

\* A session that reconcile ends has left nothing.
LEMMA ReconciledCovers ==
    ASSUME NEW o \in Owners, NEW w \in SessionRecords, NEW incomplete \in BOOLEAN,
           session'[o] = Reconciled(w, incomplete), UNCHANGED <<worktreeDisk, repository>>
    PROVE  /\ session'[o].phase = "none" => MadeNothing(o)'
           /\ session'[o].phase # "none" => session'[o].instance = w.instance
<1>1. UNCHANGED <<checkout, registered, branch, maker>>
    BY DEF worktreeDisk, repository
<1>2. \/ session'[o] = NoWorktree /\ NoTrace /\ branch = 0
      \/ session'[o].phase # "none" /\ session'[o].instance = w.instance
    BY ReconciledFacts
<1> QED
    BY <1>1, <1>2, WorktreeRecords DEF MadeNothing, NoTrace

\* _cleanup_branch ends the operation, or goes on with a session.
LEMMA CleansUpKeeps ==
    ASSUME RuntimesTyped, NEW o \in Owners, session[o].instance # 0, NEW incomplete \in BOOLEAN,
           NEW discard \in BOOLEAN, UNCHANGED <<worktreeDisk, repository>>,
           CleansUp(o, Reconciled(session[o], incomplete), discard)
    PROVE  SessionCovers(o)' /\ RemovalIsSafe(o)'
<1> DEFINE w == Reconciled(session[o], incomplete)
<1>1. session[o] \in SessionRecords
    BY DEF RuntimesTyped
<1>2. session'[o] = w
    BY DEF CleansUp, Remembers, RuntimesTyped
<1>3. step'[o] \in {"idle", "branch"} /\ (step'[o] = "branch" => w.phase # "none")
    BY DEF CleansUp, Finishes, GoesTo, RuntimesTyped
<1>4. /\ session'[o].phase = "none" => MadeNothing(o)'
      /\ session'[o].phase # "none" => session'[o].instance # 0
    BY <1>1, <1>2, ReconciledCovers
<1> HIDE DEF w
<1>5. SessionCovers(o)'
    BY <1>2, <1>3, <1>4 DEF SessionCovers, ExitSteps
<1> QED
    BY <1>3, <1>5 DEF RemovalIsSafe

LEMMA KoderKeeps ==
    ASSUME WorktreeTypeOK, HeadsFollow, InstancesNumbered, NEW o \in Owners, SessionCovers(o),
           RemovalIsSafe(o), Koder(o)
    PROVE  SessionCovers(o)' /\ RemovalIsSafe(o)'
<1>1. DiskTyped /\ CountsTyped /\ RuntimesTyped /\ session[o] \in SessionRecords
      /\ DOMAIN step = Owners /\ DOMAIN session = Owners /\ DOMAIN seen = Owners
    BY TypedParts DEF RuntimesTyped
<1>2. \A s : GoesTo(o, s) => step'[o] = s
    BY <1>1 DEF GoesTo
<1>3. Finishes(o) => step'[o] = "idle"
    BY <1>2 DEF Finishes
<1>4. \A w : Remembers(o, w) => session'[o] = w
    BY <1>1 DEF Remembers
<1>5. ASSUME step'[o] = "idle", session'[o].phase = "none" => MadeNothing(o)'
      PROVE  SessionCovers(o)' /\ RemovalIsSafe(o)'
    BY <1>5 DEF SessionCovers, RemovalIsSafe, ExitSteps
<1>6. CASE EnterWorktree(o)
  <2>1. MadeNothing(o) /\ UNCHANGED <<checkout, registered, branch, maker>>
      BY <1>6 DEF EnterWorktree, SessionCovers, worktreeDisk, repository
  <2>2. step'[o] = "named" /\ session'[o] = [NoWorktree EXCEPT !.layout = layout]
      BY <1>2, <1>4, <1>6 DEF EnterWorktree
  <2>3. session'[o].phase = "none"
      BY <2>2, WorktreeRecords DEF SessionRecords
  <2> QED
      BY <2>1, <2>2, <2>3 DEF SessionCovers, RemovalIsSafe, ExitSteps, MadeNothing
<1>7. CASE LookForBranch(o)
  <2>1. MadeNothing(o) /\ UNCHANGED <<checkout, registered, branch, maker>>
      BY <1>7 DEF LookForBranch, SessionCovers, worktreeDisk, repository
  <2>2. step'[o] \in {"adding", "idle"}
      BY <1>2, <1>7 DEF LookForBranch
  <2> QED
      BY <2>1, <2>2 DEF SessionCovers, RemovalIsSafe, ExitSteps, MadeNothing
<1>8. CASE AddCheckout(o) \/ AddFails(o)
  <2>1. step'[o] \in {"added", "partial"}
      BY <1>2, <1>8 DEF AddCheckout, AddFails
  <2> QED
      BY <2>1 DEF SessionCovers, RemovalIsSafe, ExitSteps
<1>9. CASE RecordCheckout(o)
  <2>1. Captured(o) \in SessionRecords
    <3>1. 0 \in Checkouts /\ checkout \in Checkouts
        BY <1>1, WorktreeConstants DEF DiskTyped, WorktreeConstants, Checkouts
    <3>2. \A n \in Checkouts : [session[o] EXCEPT !.instance = n] \in SessionRecords
        BY <1>1 DEF SessionRecords
    <3> QED
        BY <3>1, <3>2 DEF Captured
  <2>2. (~Complete(o)) \in BOOLEAN
      OBVIOUS
  <2>3. session'[o] = Reconciled(Captured(o), ~Complete(o)) /\ step'[o] = "idle"
        /\ UNCHANGED <<worktreeDisk, repository>>
      BY <1>2, <1>4, <1>9 DEF RecordCheckout
  <2> QED
      BY <1>5, <2>1, <2>2, <2>3, ReconciledCovers
<1>10. CASE Keep(o)
  <2>1. UNCHANGED <<checkout, registered, branch>> /\ step'[o] = "idle"
        /\ maker' = [n \in DOMAIN maker |-> IF maker[n] = o THEN "user" ELSE maker[n]]
      BY <1>10 DEF Keep, worktreeDisk
  <2>2. \A n \in Checkouts : maker'[n] # o
      BY <1>1, <2>1, WorktreeConstants DEF CountsTyped, WorktreeConstants
  <2>3. 0 \in Checkouts /\ checkout \in Checkouts /\ registered \in Checkouts
      BY <1>1, WorktreeConstants DEF DiskTyped, WorktreeConstants, Checkouts
  <2> QED
      BY <1>5, <2>1, <2>2, <2>3 DEF MadeNothing
<1>11. ASSUME NEW discard \in BOOLEAN, Exit(o, discard)
       PROVE  SessionCovers(o)' /\ RemovalIsSafe(o)'
  <2>1. /\ step[o] = "idle" /\ session[o].phase # "none" /\ session[o].instance # 0
        /\ UNCHANGED <<worktreeDisk, repository>>
      BY <1>11 DEF Exit
  <2>2. CASE CleansUp(o, Reconciled(session[o], FALSE), discard)
      BY <1>1, <2>1, <2>2, CleansUpKeeps
  <2>3. CASE Remembers(o, Reconciled(session[o], TRUE)) /\ UNCHANGED <<step, seen>>
      BY <1>1, <1>4, <1>5, <2>1, <2>3, ReconciledCovers
  <2>4. CASE /\ seen' = [seen EXCEPT ![o] = [NothingSeen EXCEPT
                   !.discard = discard, !.attached = attached, !.head = headHas, !.tip = Tip]]
             /\ GoesTo(o, IF discard THEN "removing" ELSE "inspected")
             /\ UNCHANGED session
    <3> DEFINE k == [NothingSeen EXCEPT
                         !.discard = discard, !.attached = attached, !.head = headHas, !.tip = Tip]
    <3>1. k.discard = discard
        BY WorktreeRecords DEF Sights
    <3>2. seen'[o] = k
        BY <1>1, <2>4
    <3>3. step'[o] = (IF discard THEN "removing" ELSE "inspected")
        BY <1>2, <2>4
    <3> HIDE DEF k
    <3>4. step'[o] = "removing" => ~Watched(o)'
        BY <3>1, <3>2, <3>3 DEF Watched
    <3> QED
        BY <2>1, <2>4, <3>3, <3>4 DEF SessionCovers, RemovalIsSafe, ExitSteps
  <2> QED
      BY <1>11, <2>2, <2>3, <2>4 DEF Exit
<1>12. CASE Preflight(o)
  <2>1. session'[o] = session[o] /\ session[o].phase # "none" /\ session[o].instance # 0
        /\ UNCHANGED <<checkout, registered, attached, content>>
      BY <1>12 DEF Preflight, SessionCovers, ExitSteps, worktreeDisk
  <2>2. \/ step'[o] = "idle"
        \/ step'[o] = "removing" /\ attached /\ content = "clean"
      BY <1>2, <1>3, <1>12 DEF Preflight, NothingToLose
  <2> QED
      BY <1>5, <2>1, <2>2 DEF SessionCovers, RemovalIsSafe, ExitSteps
<1>13. CASE BeginRemoval(o)
  <2>1. session'[o] = session[o] /\ session[o].phase # "none" /\ session[o].instance # 0
        /\ UNCHANGED <<checkout, registered, attached, content>> /\ step[o] = "removing"
      BY <1>13 DEF BeginRemoval, SessionCovers, ExitSteps, worktreeDisk
  <2>2. step'[o] \in {"failed", "emptying"}
      BY <1>2, <1>13 DEF BeginRemoval
  <2>3. seen'[o].discard = seen[o].discard /\ seen'[o].late = seen[o].late
    <3>1. seen[o] \in Sights
        BY <1>1 DEF RuntimesTyped
    <3> QED
        BY <1>1, <1>13, <3>1 DEF BeginRemoval, Sights
  <2>4. Watched(o)' => Watched(o)
      BY <2>3 DEF Watched
  <2> QED
      BY <2>1, <2>2, <2>4 DEF SessionCovers, RemovalIsSafe, ExitSteps
<1>14. CASE RemoveCheckout(o)
  <2>1. session'[o] = session[o] /\ session[o].phase # "none" /\ session[o].instance # 0
        /\ UNCHANGED <<registered, attached, seen>> /\ step[o] = "emptying"
      BY <1>14 DEF RemoveCheckout, SessionCovers, ExitSteps
  <2>2. \/ step'[o] = "failed"
        \/ step'[o] = "unregistering" /\ checkout' = 0
      BY <1>2, <1>14 DEF RemoveCheckout
  <2>3. Watched(o)' => Watched(o)
      BY <2>1 DEF Watched
  <2> QED
      BY <2>1, <2>2, <2>3 DEF SessionCovers, RemovalIsSafe, ExitSteps
<1>15. CASE Unregister(o)
  <2> DEFINE captured == [state |-> seen[o].tip.state, has |-> seen[o].head]
             w == [session[o] EXCEPT !.cleanup = captured]
  <2>1. captured \in BranchTips
      BY <1>1 DEF RuntimesTyped, BranchTips, Sights
  <2>2. w.phase = session[o].phase /\ w.instance = session[o].instance
      BY <1>1, <2>1 DEF SessionRecords
  <2>3. session'[o] \in {session[o], w}
      BY <1>4, <1>15 DEF Unregister
  <2>4. step'[o] \in {"removed", "failed"}
      BY <1>2, <1>15 DEF Unregister
  <2>5. session[o].phase # "none" /\ session[o].instance # 0
      BY <1>15 DEF Unregister, SessionCovers, ExitSteps
  <2> HIDE DEF w
  <2> QED
      BY <2>2, <2>3, <2>4, <2>5 DEF SessionCovers, RemovalIsSafe, ExitSteps
<1>16. CASE RemovalFailed(o) \/ Settle(o)
  <2>1. UNCHANGED <<worktreeDisk, repository>> /\ step'[o] = "idle"
        /\ \E incomplete \in BOOLEAN : session'[o] = Reconciled(session[o], incomplete)
      BY <1>3, <1>4, <1>16 DEF RemovalFailed, Settle
  <2> QED
      BY <1>1, <1>5, <2>1, ReconciledCovers
<1>17. CASE Removed(o)
  <2>1. session[o].instance # 0 /\ seen[o].discard \in BOOLEAN /\ (~NoTrace) \in BOOLEAN
      BY <1>1, <1>17 DEF Removed, SessionCovers, ExitSteps, RuntimesTyped, Sights
  <2>2. UNCHANGED <<worktreeDisk, repository>>
        /\ CleansUp(o, Reconciled(session[o], ~NoTrace), seen[o].discard)
      BY <1>17 DEF Removed
  <2> QED
      BY <1>1, <2>1, <2>2, CleansUpKeeps
<1>18. CASE CheckBranch(o)
  <2>1. session'[o] = session[o] /\ session[o].phase # "none" /\ session[o].instance # 0
        /\ UNCHANGED <<merged, seen>>
      BY <1>18 DEF CheckBranch, SessionCovers, ExitSteps, repository
  <2>2. \/ step'[o] = "settling"
        \/ step'[o] = "deleting" /\ Deletable(o)
      BY <1>2, <1>18 DEF CheckBranch
  <2> QED
      BY <2>1, <2>2 DEF SessionCovers, RemovalIsSafe, ExitSteps, Deletable
<1>19. CASE DeleteBranch(o)
  <2>1. session'[o] = session[o] /\ session[o].phase # "none" /\ session[o].instance # 0
        /\ step'[o] = "settling"
      BY <1>2, <1>19 DEF DeleteBranch, SessionCovers, ExitSteps
  <2> QED
      BY <2>1 DEF SessionCovers, RemovalIsSafe, ExitSteps
<1> QED
    BY <1>6, <1>7, <1>8, <1>9, <1>10, <1>11, <1>12, <1>13, <1>14, <1>15, <1>16, <1>17, <1>18, <1>19
    DEF Koder

-----------------------------------------------------------------------------
LEMMA WorktreeStart == WorktreeInit => WorktreeInv
<1> SUFFICES ASSUME WorktreeInit PROVE WorktreeInv
    OBVIOUS
<1>1. MaxCheckouts \in Nat /\ MaxCommits \in Nat /\ MaxDisturbances \in Nat
      /\ 0 \in Checkouts
    BY WorktreeConstants DEF WorktreeConstants, Checkouts
<1>2. DiskTyped
    BY <1>1 DEF WorktreeInit, DiskTyped
<1>3. CountsTyped
    BY <1>1 DEF WorktreeInit, CountsTyped, Checkouts
<1>4. RuntimesTyped
    BY WorktreeRecords DEF WorktreeInit, RuntimesTyped, Steps
<1>5. WorktreeTypeOK
    BY <1>1, <1>2, <1>3, <1>4, TypedParts DEF WorktreeInit
<1>6. HeadsFollow
    BY DEF WorktreeInit, HeadsFollow
<1>7. InstancesNumbered
    BY WorktreeRecords DEF WorktreeInit, InstancesNumbered
<1>8. ASSUME NEW o \in Owners PROVE SessionCovers(o) /\ RemovalIsSafe(o)
    BY DEF WorktreeInit, SessionCovers, RemovalIsSafe, MadeNothing, ExitSteps
<1> QED
    BY <1>5, <1>6, <1>7, <1>8 DEF WorktreeInv

LEMMA WorktreeStep == WorktreeInv /\ [WorktreeNext]_worktreeVars => WorktreeInv'
<1> SUFFICES ASSUME WorktreeInv, [WorktreeNext]_worktreeVars PROVE WorktreeInv'
    OBVIOUS
<1>1. /\ WorktreeTypeOK /\ HeadsFollow /\ InstancesNumbered
      /\ \A o \in Owners : SessionCovers(o) /\ RemovalIsSafe(o)
    BY DEF WorktreeInv
<1>2. CASE World
  <2>1. WorktreeTypeOK'
      BY <1>1, <1>2, WorldTypes
  <2>2. ASSUME NEW o \in Owners
        PROVE  SessionCovers(o)' /\ RemovalIsSafe(o)'
      BY <1>1, <1>2, WorldMoves, OthersKeep
  <2>3. HeadsFollow' /\ InstancesNumbered'
      BY <1>1, <1>2, WorldHeads
  <2> QED
      BY <2>1, <2>2, <2>3 DEF WorktreeInv
<1>3. ASSUME NEW p \in Owners, Koder(p) PROVE WorktreeInv'
  <2>1. WorktreeTypeOK' /\ HeadsFollow' /\ InstancesNumbered'
      BY <1>1, <1>3, KoderTypes, KoderHeads
  <2>2. SessionCovers(p)' /\ RemovalIsSafe(p)'
      BY <1>1, <1>3, KoderKeeps
  <2>3. ASSUME NEW o \in Owners, o # p PROVE SessionCovers(o)' /\ RemovalIsSafe(o)'
    <3>1. DiskMoves(o) /\ RuntimeStays(o)
        BY <1>1, <1>3, <2>3, KoderMoves
    <3> QED
        BY <1>1, <3>1, OthersKeep
  <2> QED
      BY <2>1, <2>2, <2>3 DEF WorktreeInv
<1>4. CASE UNCHANGED worktreeVars
    BY <1>4 DEF worktreeVars, worktreeDisk, repository, runtimes, WorktreeInv, WorktreeTypeOK,
                HeadsFollow, InstancesNumbered, SessionCovers, RemovalIsSafe, MadeNothing, Watched
<1> QED
    BY <1>2, <1>3, <1>4 DEF WorktreeNext, World

\* A removal that looked loses neither work nor commits.
LEMMA RemovalLosesNothing ==
    WorktreeInv /\ [WorktreeNext]_worktreeVars => WorkKept /\ CommitsKept
<1> SUFFICES ASSUME WorktreeInv, [WorktreeNext]_worktreeVars PROVE WorkKept /\ CommitsKept
    OBVIOUS
<1>1. /\ WorktreeTypeOK /\ HeadsFollow /\ InstancesNumbered
      /\ \A o \in Owners : SessionCovers(o) /\ RemovalIsSafe(o)
    BY DEF WorktreeInv
<1>2. RuntimesTyped
    BY <1>1, TypedParts
<1>3. WorkKept
    BY <1>1 DEF WorkKept, Removes, RemovalIsSafe, Watched
<1>4. ASSUME NEW o \in Owners, step[o] \in {"unregistering", "deleting"}, step'[o] # step[o],
             ~seen[o].discard, ~seen[o].late
      PROVE  Reachable' = Reachable
  <2>1. Watched(o) /\ RemovalIsSafe(o) /\ SessionCovers(o)
      BY <1>1, <1>4 DEF Watched
  <2>2. session[o].instance # 0
      BY <1>4, <2>1 DEF SessionCovers, ExitSteps
  <2>3. Koder(o)
    <3>1. ~World
        BY <1>1, <1>4, WorldMoves DEF RuntimeStays
    <3>2. \A p \in Owners : Koder(p) => p = o
        BY <1>1, <1>4, KoderMoves DEF RuntimeStays
    <3>3. worktreeVars' # worktreeVars
        BY <1>4 DEF worktreeVars, runtimes
    <3> QED
        BY <3>1, <3>2, <3>3 DEF WorktreeNext, World
  <2>4. Unregister(o) \/ DeleteBranch(o)
      BY <1>4, <2>3 DEF Koder, EnterWorktree, LookForBranch, AddCheckout, AddFails,
         RecordCheckout, Keep, Exit, Preflight, BeginRemoval, RemoveCheckout, RemovalFailed,
         Removed, CheckBranch, Settle
  <2>5. CASE Unregister(o)
    <3>1. /\ UNCHANGED <<branchHas, merged>> /\ step[o] = "unregistering"
          /\ \/ registered = session[o].instance /\ headHas' = {}
             \/ headHas' = headHas
        BY <2>5 DEF Unregister, Unregisters, repository
    <3>2. registered = session[o].instance => headHas = branchHas
        BY <1>1, <2>1, <2>2, <3>1 DEF RemovalIsSafe, HeadsFollow
    <3> QED
        BY <3>1, <3>2 DEF Reachable
  <2>6. CASE DeleteBranch(o)
    <3>1. /\ merged' = merged /\ step[o] = "deleting"
          /\ \/ /\ branchHas = session[o].cleanup.has
                /\ branchHas' = {} /\ headHas' = (IF attached THEN {} ELSE headHas)
             \/ headHas' = headHas /\ branchHas' = branchHas
        BY <2>6 DEF DeleteBranch, repository
    <3>2. session[o].cleanup.has \subseteq merged
        BY <1>4, <2>1, <3>1 DEF RemovalIsSafe
    <3>3. attached => headHas = {} \/ headHas = branchHas
        BY <1>1 DEF HeadsFollow
    <3>4. CASE headHas' = headHas /\ branchHas' = branchHas
        BY <3>1, <3>4 DEF Reachable
    <3>5. CASE /\ branchHas = session[o].cleanup.has
               /\ branchHas' = {} /\ headHas' = (IF attached THEN {} ELSE headHas)
      <4>1. branchHas \subseteq merged /\ merged' = merged
          BY <3>1, <3>2, <3>5
      <4>2. CASE attached
          BY <3>3, <3>5, <4>1, <4>2 DEF Reachable
      <4>3. CASE ~attached
          BY <3>5, <4>1, <4>3 DEF Reachable
      <4> QED
          BY <4>2, <4>3
    <3> QED
        BY <3>1, <3>4, <3>5
  <2> QED
      BY <2>4, <2>5, <2>6
<1> QED
    BY <1>3, <1>4 DEF CommitsKept

\* The checkouts of enter_worktree and exit_worktree: for any number of
\* runtimes, checkouts, commits and disturbances, a removal that looked for
\* work destroys none and loses no commit, and a runtime without a session has
\* left nothing behind (_removal_preflight, remove_owned_worktree,
\* delete_owned_branch, reconcile).
THEOREM WorktreesStaySound == WorktreeSpec => WorktreesAreSound
<1>1. WorktreeInit => WorktreeInv
  BY WorktreeStart
<1>2. WorktreeInv /\ [WorktreeNext]_worktreeVars => WorktreeInv'
  BY WorktreeStep
<1>3. WorktreeInv => NothingLeft
  BY DEF WorktreeInv, SessionCovers, NothingLeft, MadeNothing
<1>4. WorktreeInv /\ [WorktreeNext]_worktreeVars => [WorkKept /\ CommitsKept]_worktreeVars
  BY RemovalLosesNothing
<1> QED
  BY <1>1, <1>2, <1>3, <1>4, PTL DEF WorktreeSpec, WorktreesAreSound
-----------------------------------------------------------------------------
(* Checkpoints.                                                            *)

\* The snapshots of f in S that a rewind to prompt n would consume.
From(S, n, f) == {s \in S : s.path = f /\ s.checkpoint >= n}

\* f has, or the oldest of its snapshots from n on has, content c.
Keeps(S, d, n, f, c) ==
    \/ From(S, n, f) = {} /\ d[f] = c
    \/ \E s \in From(S, n, f) : s.blob = c /\ \A t \in From(S, n, f) : s.taken <= t.taken

Manifests == SUBSET [taken : Nat, checkpoint : Nat, path : Files, blob : Nat]

\* What was taken later is not of an earlier checkpoint.
InOrder(S) ==
    \A s, t \in S : /\ s.taken <= t.taken => s.checkpoint <= t.checkpoint
                    /\ s.taken = t.taken => s = t

CheckpointTypes ==
    /\ disk \in [Files -> Nat] /\ writes \in Nat /\ counter \in Nat
    /\ snapshots \in Manifests /\ prompts \in Seq([Files -> Nat])
    /\ undone \subseteq 1 .. Len(prompts)

\* Prompt m is the last up to n that no restore to an earlier one has passed.
StandsFor(m, n) == m \in 1 .. n \ undone /\ m + 1 .. n \subseteq undone

\* Going back to prompt n would put the files back to what they were when
\* prompt m was sent, but those that are missing.
KeepsPrompt(S, d, n, m) ==
    \A f \in Files \ missing : Keeps(S, d, n, f, prompts[m][f])

\* Each user message has a checkpoint of its own, and the files can be put
\* back to what they were when the message was sent or, if a restore has passed
\* it, to what they were when the one that stands for it was.
Exactly ==
    /\ CheckpointTypes
    /\ counter = Len(prompts)
    /\ \A s \in snapshots : s.taken < writes /\ s.checkpoint <= counter
    /\ InOrder(snapshots)
    /\ \A n \in 1 .. Len(prompts) :
          \E m \in 1 .. n : StandsFor(m, n) /\ KeepsPrompt(snapshots, disk, n, m)

RewindInv == skew = "none" => Exactly

LEMMA LeastTaken ==
    ASSUME NEW S \in Manifests, S # {}
    PROVE  \E s \in S : \A t \in S : s.taken <= t.taken
<1> DEFINE T == {s.taken : s \in S}
<1>1. T \in SUBSET Nat /\ T # {}
    BY DEF Manifests
<1>2. \E x \in T : \A y \in T : <<y, x>> \notin OpToRel(<, Nat)
  <2> HIDE DEF T
  <2> QED
    BY <1>1, WFMin, NatLessThanWellFounded, Zenon
<1>3. PICK x \in T : \A y \in T : <<y, x>> \notin OpToRel(<, Nat)
    BY ONLY <1>2, Zenon
<1>4. \A y \in T : ~(y < x)
  <2> HIDE DEF T
  <2>1. \A y \in T : y \in Nat /\ x \in Nat
    BY <1>1
  <2> QED
    BY ONLY <1>3, <2>1, Zenon DEF OpToRel
<1>5. PICK s \in S : s.taken = x
    BY ONLY x \in T
<1>6. ASSUME NEW t \in S
      PROVE  s.taken <= t.taken
  <2>1. t.taken \in T /\ s.taken \in Nat /\ t.taken \in Nat
    BY DEF Manifests
  <2>2. ~(t.taken < s.taken)
    BY <1>4, <1>5, <2>1
  <2> QED
    BY <2>1, <2>2
<1> QED
    BY <1>6

\* Earliest is an oldest one.
LEMMA EarliestFacts ==
    ASSUME snapshots \in Manifests, NEW f \in Files, NEW k \in Nat, f \in Tracked(k)
    PROVE  /\ Earliest(f, k) \in From(snapshots, k + 1, f)
           /\ \A t \in From(snapshots, k + 1, f) : Earliest(f, k).taken <= t.taken
<1> DEFINE F == From(snapshots, k + 1, f)
<1>1. F = {s \in After(k) : s.path = f}
    BY DEF From, After, Manifests
<1>2. F \in Manifests
    BY DEF From, Manifests
<1>3. F # {}
    BY <1>1 DEF Tracked
<1> HIDE DEF F
<1>4. PICK s \in F : \A t \in F : s.taken <= t.taken
    BY <1>2, <1>3, LeastTaken
<1>5. s \in After(k) /\ s.path = f /\ \A t \in After(k) : t.path = f => s.taken <= t.taken
    BY <1>1, <1>4
<1> DEFINE P(e) == e.path = f /\ \A t \in After(k) : t.path = f => e.taken <= t.taken
<1>6. Earliest(f, k) = CHOOSE e \in After(k) : P(e)
    BY DEF Earliest
<1>7. \E e \in After(k) : P(e)
    BY <1>5
<1>8. Earliest(f, k) \in After(k) /\ P(Earliest(f, k))
  <2> HIDE DEF P
  <2> QED
    BY <1>6, <1>7
<1> QED
    BY <1>1, <1>8 DEF F

\* There is no other.
LEMMA EarliestIsOnly ==
    ASSUME snapshots \in Manifests, InOrder(snapshots), NEW f \in Files, NEW k \in Nat,
           NEW s \in From(snapshots, k + 1, f),
           \A t \in From(snapshots, k + 1, f) : s.taken <= t.taken
    PROVE  f \in Tracked(k) /\ Earliest(f, k) = s
<1>1. f \in Tracked(k)
    BY DEF Tracked, From, After, Manifests
<1>2. /\ Earliest(f, k) \in From(snapshots, k + 1, f)
      /\ \A t \in From(snapshots, k + 1, f) : Earliest(f, k).taken <= t.taken
    BY <1>1, EarliestFacts
<1> DEFINE e == Earliest(f, k)
<1>3. e.taken <= s.taken /\ s.taken <= e.taken /\ e \in snapshots /\ s \in snapshots
    BY <1>2 DEF From
<1>4. e.taken \in Nat /\ s.taken \in Nat
    BY <1>3 DEF Manifests
<1> HIDE DEF e
<1>5. e.taken = s.taken
    BY <1>3, <1>4
<1>6. e = s
    BY <1>3, <1>5 DEF InOrder
<1> QED
    BY <1>1, <1>6 DEF e

\* What restoring makes of a file whose content is kept.
LEMMA RestoredIsKept ==
    ASSUME CheckpointTypes, InOrder(snapshots), NEW f \in Files, NEW k \in Nat, NEW c,
           NEW failed, f \notin failed,
           Keeps(snapshots, disk, k + 1, f, c)
    PROVE  Restored(k, failed)[f] = c
<1>1. CASE From(snapshots, k + 1, f) = {} /\ disk[f] = c
  <2>1. f \notin Tracked(k)
      BY <1>1 DEF Tracked, After, From, CheckpointTypes, Manifests
  <2> QED
      BY <1>1, <2>1 DEF Restored
<1>2. CASE \E s \in From(snapshots, k + 1, f) :
              s.blob = c /\ \A t \in From(snapshots, k + 1, f) : s.taken <= t.taken
  <2>1. PICK s \in From(snapshots, k + 1, f) :
            s.blob = c /\ \A t \in From(snapshots, k + 1, f) : s.taken <= t.taken
      BY <1>2
  <2>2. f \in Tracked(k) /\ Earliest(f, k) = s
      BY <2>1, EarliestIsOnly DEF CheckpointTypes
  <2> QED
      BY <2>1, <2>2 DEF Restored
<1> QED
    BY <1>1, <1>2 DEF Keeps

-----------------------------------------------------------------------------
(* The actions that leave messages and checkpoints counted alike.          *)

LEMMA BeginKeepsExact ==
    ASSUME Exactly, TurnBegins
    PROVE  Exactly'
<1>1. /\ disk \in [Files -> Nat] /\ prompts \in Seq([Files -> Nat]) /\ Len(prompts) \in Nat
      /\ counter = Len(prompts) /\ snapshots \in Manifests
    BY LenProperties DEF Exactly, CheckpointTypes
<1>2. /\ prompts' \in Seq([Files -> Nat]) /\ Len(prompts') = Len(prompts) + 1
      /\ \A n \in 1 .. Len(prompts) : prompts'[n] = prompts[n]
      /\ prompts'[Len(prompts) + 1] = disk
    BY <1>1, AppendProperties DEF TurnBegins
<1>3. counter' = counter + 1 /\ UNCHANGED <<disk, writes, snapshots, undone, missing>>
    BY DEF TurnBegins
<1>4. CheckpointTypes'
    BY <1>1, <1>2, <1>3 DEF Exactly, CheckpointTypes
<1>5. \A s \in snapshots' : s.taken < writes' /\ s.checkpoint <= counter'
    BY <1>1, <1>3 DEF Exactly, Manifests
<1>6. ASSUME NEW n \in 1 .. Len(prompts')
      PROVE  \E m \in 1 .. n : (StandsFor(m, n) /\ KeepsPrompt(snapshots, disk, n, m))'
  <2>1. CASE n \in 1 .. Len(prompts)
    <3>1. PICK m \in 1 .. n : StandsFor(m, n) /\ KeepsPrompt(snapshots, disk, n, m)
        BY <2>1 DEF Exactly
    <3>2. m \in 1 .. Len(prompts)
        BY <1>1, <2>1
    <3>3. prompts'[m] = prompts[m]
        BY <1>2, <3>2
    <3> QED
        BY <1>3, <3>1, <3>3 DEF StandsFor, KeepsPrompt
  <2>2. CASE n = Len(prompts) + 1
    <3>1. ASSUME NEW f \in Files PROVE From(snapshots, n, f) = {}
        BY <1>1, <2>2 DEF Exactly, From, Manifests
    <3>2. n \in 1 .. n \ undone /\ n + 1 .. n = {}
        BY <1>1, <2>2 DEF Exactly, CheckpointTypes
    <3> QED
        BY <1>2, <1>3, <2>2, <3>1, <3>2 DEF Keeps, KeepsPrompt, StandsFor
  <2> QED
      BY <1>1, <1>2, <2>1, <2>2
<1> QED
    BY <1>1, <1>2, <1>3, <1>4, <1>5, <1>6 DEF Exactly

\* With the snapshot of a file that is about to change, or the one there is
\* already, every content is kept although the file changes.
LEMMA RecordedKeeps ==
    ASSUME Exactly, NEW f \in Files, NEW g \in Files, NEW n \in 1 .. Len(prompts),
           NEW c, Keeps(snapshots, disk, n, g, c),
           NEW d, \A h \in Files \ {f} : d[h] = disk[h]
    PROVE  Keeps(Recorded(f), d, n, g, c)
<1> DEFINE new == Snapshot(f)
<1>1. Keeps(snapshots, disk, n, g, c)
    OBVIOUS
<1>2. /\ writes \in Nat /\ snapshots \in Manifests /\ counter \in Nat /\ n \in Nat /\ n <= counter
      /\ \A s \in snapshots : s.taken < writes
    BY LenProperties DEF Exactly, CheckpointTypes
<1>3. new.taken = writes /\ new.checkpoint = counter /\ new.path = f /\ new.blob = disk[f]
    BY DEF Snapshot
<1>4. Recorded(f) = snapshots \/ Recorded(f) = snapshots \cup {new}
    BY DEF Recorded
<1> HIDE DEF new
<1>5. CASE g # f
  <2>1. From(Recorded(f), n, g) = From(snapshots, n, g)
      BY <1>3, <1>4, <1>5 DEF From
  <2>2. d[g] = disk[g]
      BY <1>5
  <2> QED
      BY <1>1, <2>1, <2>2 DEF Keeps
<1>6. CASE g = f /\ From(snapshots, n, g) = {} /\ disk[g] = c
  <2>1. ~ \E s \in snapshots : s.checkpoint = counter /\ s.path = f
      BY <1>2, <1>6 DEF From
  <2>2. Recorded(f) = snapshots \cup {new}
      BY <2>1 DEF Recorded, new
  <2>3. From(Recorded(f), n, g) = {new}
      BY <1>2, <1>3, <1>6, <2>2 DEF From
  <2>4. new.blob = c /\ \A t \in {new} : new.taken <= t.taken
      BY <1>2, <1>3, <1>6
  <2> QED
      BY <2>3, <2>4 DEF Keeps
<1>7. CASE g = f /\ \E s \in From(snapshots, n, g) :
              s.blob = c /\ \A t \in From(snapshots, n, g) : s.taken <= t.taken
  <2>1. PICK s \in From(snapshots, n, g) :
              s.blob = c /\ \A t \in From(snapshots, n, g) : s.taken <= t.taken
      BY <1>7
  <2>2. s \in From(Recorded(f), n, g) /\ s.taken < writes /\ s.taken \in Nat
      BY <1>2, <1>4, <2>1 DEF From, Manifests
  <2>3. \A t \in From(Recorded(f), n, g) : t \in From(snapshots, n, g) \/ t = new
      BY <1>4 DEF From
  <2>4. \A t \in From(Recorded(f), n, g) : s.taken <= t.taken
      BY <1>2, <1>3, <2>1, <2>2, <2>3
  <2> QED
      BY <2>1, <2>2, <2>4 DEF Keeps
<1> QED
    BY <1>1, <1>5, <1>6, <1>7 DEF Keeps

LEMMA EditKeepsExact ==
    ASSUME Exactly, NEW f \in Files, Edits(f)
    PROVE  Exactly'
<1>1. /\ disk \in [Files -> Nat] /\ prompts \in Seq([Files -> Nat]) /\ Len(prompts) \in Nat
      /\ counter = Len(prompts) /\ snapshots \in Manifests /\ writes \in Nat
      /\ InOrder(snapshots) /\ undone \subseteq 1 .. Len(prompts)
      /\ \A s \in snapshots : s.taken < writes /\ s.checkpoint <= counter
    BY LenProperties DEF Exactly, CheckpointTypes
<1>2. /\ writes' = writes + 1 /\ disk' = [disk EXCEPT ![f] = writes + 1]
      /\ UNCHANGED <<counter, prompts, undone, skew>>
    BY DEF Edits
<1>3. disk' \in [Files -> Nat] /\ \A h \in Files \ {f} : disk'[h] = disk[h]
    BY <1>1, <1>2
<1>4. CASE UNCHANGED snapshots /\ missing' = missing \cup {f}
  <2>1. CheckpointTypes'
      BY <1>1, <1>2, <1>3, <1>4 DEF CheckpointTypes
  <2>2. \A s \in snapshots' : s.taken < writes' /\ s.checkpoint <= counter'
      BY <1>1, <1>2, <1>4 DEF Manifests
  <2>3. ASSUME NEW n \in 1 .. Len(prompts)
        PROVE  \E m \in 1 .. n : (StandsFor(m, n) /\ KeepsPrompt(snapshots, disk, n, m))'
    <3>1. PICK m \in 1 .. n : StandsFor(m, n) /\ KeepsPrompt(snapshots, disk, n, m)
        BY DEF Exactly
    <3>2. ASSUME NEW g \in Files \ missing' PROVE Keeps(snapshots', disk', n, g, prompts'[m][g])
      <4>1. Keeps(snapshots, disk, n, g, prompts[m][g]) /\ disk'[g] = disk[g]
          BY <1>3, <1>4, <3>1, <3>2 DEF KeepsPrompt
      <4> QED
          BY <1>2, <1>4, <4>1 DEF Keeps
    <3> QED
        BY <1>2, <3>1, <3>2 DEF StandsFor, KeepsPrompt
  <2> QED
      BY <1>1, <1>2, <1>4, <2>1, <2>2, <2>3 DEF Exactly
<1>5. CASE /\ snapshots' = Pruned(Recorded(f))
           /\ missing' = missing \cup {s.path : s \in Recorded(f) \ snapshots'}
  <2>1. /\ Snapshot(f).taken = writes /\ Snapshot(f).checkpoint = counter
        /\ Snapshot(f) \in [taken : Nat, checkpoint : Nat, path : Files, blob : Nat]
      BY <1>1 DEF Snapshot
  <2>2. /\ Recorded(f) \in Manifests
        /\ \A s \in Recorded(f) : s \in snapshots \/ s = Snapshot(f)
      BY <1>1, <2>1 DEF Recorded, Manifests
  <2>3. /\ InOrder(Recorded(f))
        /\ \A s \in Recorded(f) : s.taken < writes' /\ s.checkpoint <= counter
    <3>1. \A s \in snapshots : s.taken \in Nat /\ s.checkpoint \in Nat
        BY <1>1 DEF Manifests
    <3>2. \A s \in Recorded(f) : s.taken < writes' /\ s.checkpoint <= counter
        BY <1>1, <1>2, <2>1, <2>2, <3>1
    <3>3. ASSUME NEW s \in Recorded(f), NEW t \in Recorded(f)
          PROVE  /\ s.taken <= t.taken => s.checkpoint <= t.checkpoint
                 /\ s.taken = t.taken => s = t
      <4>1. CASE s \in snapshots /\ t \in snapshots
          BY <1>1, <4>1 DEF InOrder
      <4>2. CASE s \in snapshots /\ t = Snapshot(f)
          BY <1>1, <2>1, <3>1, <4>2
      <4>3. CASE s = Snapshot(f) /\ t \in snapshots
          BY <1>1, <2>1, <3>1, <4>3
      <4>4. CASE s = Snapshot(f) /\ t = Snapshot(f)
          BY <1>1, <2>1, <4>4
      <4> QED
          BY <2>2, <4>1, <4>2, <4>3, <4>4
    <3> QED
        BY <3>2, <3>3 DEF InOrder
  <2>4. snapshots' \subseteq Recorded(f)
      BY <1>5 DEF Pruned
  <2>5. CheckpointTypes'
      BY <1>1, <1>2, <1>3, <2>2, <2>4 DEF CheckpointTypes, Manifests
  <2>6. InOrder(snapshots')
      BY <2>3, <2>4 DEF InOrder
  <2>7. ASSUME NEW n \in 1 .. Len(prompts)
        PROVE  \E m \in 1 .. n : (StandsFor(m, n) /\ KeepsPrompt(snapshots, disk, n, m))'
    <3>1. PICK m \in 1 .. n : StandsFor(m, n) /\ KeepsPrompt(snapshots, disk, n, m)
        BY DEF Exactly
    <3>2. ASSUME NEW g \in Files \ missing' PROVE Keeps(snapshots', disk', n, g, prompts'[m][g])
      <4>1. Keeps(snapshots, disk, n, g, prompts[m][g])
          BY <1>5, <3>1, <3>2 DEF KeepsPrompt
      <4>2. Keeps(Recorded(f), disk', n, g, prompts[m][g])
          BY <1>3, <4>1, RecordedKeeps
      <4>3. \A s \in Recorded(f) : s.path = g => s \in snapshots'
          BY <1>5, <3>2
      <4>4. From(snapshots', n, g) = From(Recorded(f), n, g)
          BY <2>4, <4>3 DEF From
      <4> QED
          BY <1>2, <4>2, <4>4 DEF Keeps
    <3> QED
        BY <1>2, <3>1, <3>2 DEF StandsFor, KeepsPrompt
  <2> QED
      BY <1>1, <1>2, <2>3, <2>4, <2>5, <2>6, <2>7 DEF Exactly
<1> QED
    BY <1>4, <1>5 DEF Edits

\* What a restore to prompt n makes of an earlier prompt i, for the content c
\* of a file to which i can be put back.
LEMMA RewindKeepsEarlier ==
    ASSUME CheckpointTypes, InOrder(snapshots), NEW n \in Nat \ {0}, NEW i \in Nat, i < n,
           NEW f \in Files, NEW failed, f \notin failed, NEW c,
           Keeps(snapshots, disk, i, f, c)
    PROVE  Keeps(Remaining(n - 1), Restored(n - 1, failed), i, f, c)
<1> DEFINE left == Remaining(n - 1)
<1>1. left = {s \in snapshots : s.checkpoint <= n - 1}
    BY DEF Remaining
<1>2. \A s \in snapshots : s.checkpoint \in Nat /\ s.taken \in Nat
    BY DEF CheckpointTypes, Manifests
<1> HIDE DEF left
<1>3. CASE From(left, i, f) = {}
  <2>1. From(snapshots, i, f) = From(snapshots, n, f)
      BY <1>1, <1>2, <1>3 DEF From
  <2>2. Keeps(snapshots, disk, (n - 1) + 1, f, c)
    <3>1. (n - 1) + 1 = n
        OBVIOUS
    <3> QED
        BY <2>1, <3>1 DEF Keeps
  <2>3. Restored(n - 1, failed)[f] = c
      BY <2>2, RestoredIsKept
  <2> QED
      BY <1>3, <2>3 DEF Keeps, left
<1>4. CASE From(left, i, f) # {}
  <2>1. PICK t \in From(left, i, f) : TRUE
      BY <1>4
  <2>2. t \in From(snapshots, i, f) /\ t.checkpoint <= n - 1 /\ t \in snapshots
      BY <1>1, <2>1 DEF From
  <2>3. PICK s \in From(snapshots, i, f) :
            s.blob = c /\ \A u \in From(snapshots, i, f) : s.taken <= u.taken
      BY <2>2 DEF Keeps
  <2>4. s \in snapshots /\ s.taken <= t.taken /\ s.path = f /\ s.checkpoint >= i
      BY <2>2, <2>3 DEF From
  <2>5. s.checkpoint <= t.checkpoint
      BY <2>2, <2>4 DEF InOrder
  <2>6. s.checkpoint <= n - 1
      BY <1>2, <2>2, <2>4, <2>5
  <2>7. s \in From(left, i, f)
      BY <1>1, <2>4, <2>6 DEF From
  <2>8. \A u \in From(left, i, f) : u \in From(snapshots, i, f)
      BY <1>1 DEF From
  <2> QED
      BY <2>3, <2>7, <2>8 DEF Keeps, left
<1> QED
    BY <1>3, <1>4

\* Restoring the code alone: the one that stands for prompt n stands for the
\* later ones as well.
LEMMA RewindKeepsExact ==
    ASSUME Exactly, NEW n \in DOMAIN prompts, NEW failed, Rewind(n, FALSE, failed)
    PROVE  Exactly'
<1>1. /\ disk \in [Files -> Nat] /\ prompts \in Seq([Files -> Nat]) /\ Len(prompts) \in Nat
      /\ counter = Len(prompts) /\ snapshots \in Manifests /\ writes \in Nat
      /\ InOrder(snapshots) /\ CheckpointTypes
      /\ \A s \in snapshots : s.taken < writes /\ s.checkpoint <= counter
      /\ DOMAIN prompts = 1 .. Len(prompts) /\ n \in Nat \ {0} /\ n - 1 \in Nat
    BY LenProperties DEF Exactly, CheckpointTypes
<1>2. /\ disk' = Restored(n - 1, failed) /\ snapshots' = Remaining(n - 1)
      /\ missing' = missing \cup failed /\ UNCHANGED <<writes, counter, prompts>>
      /\ undone' = undone \cup {i \in DOMAIN prompts : i > n}
    BY DEF Rewind, RewindCode
<1>3. \A s \in snapshots : s.blob \in Nat
    BY <1>1 DEF Manifests
<1>4. disk' \in [Files -> Nat]
  <2> SUFFICES ASSUME NEW f \in Files PROVE disk'[f] \in Nat
      BY <1>2 DEF Restored
  <2>1. CASE f \in Tracked(n - 1) \ failed
    <3>1. Earliest(f, n - 1) \in snapshots
        BY <1>1, <2>1, EarliestFacts DEF From
    <3> QED
        BY <1>2, <1>3, <2>1, <3>1 DEF Restored
  <2>2. CASE f \notin Tracked(n - 1) \ failed
      BY <1>1, <1>2, <2>2 DEF Restored
  <2> QED
      BY <2>1, <2>2
<1>5. snapshots' = {s \in snapshots : s.checkpoint <= n - 1}
    BY <1>2 DEF Remaining
<1>6. CheckpointTypes' /\ InOrder(snapshots')
    BY <1>1, <1>2, <1>4, <1>5 DEF CheckpointTypes, Manifests, InOrder
<1>7. ASSUME NEW i \in 1 .. Len(prompts)
      PROVE  \E m \in 1 .. i : (StandsFor(m, i) /\ KeepsPrompt(snapshots, disk, i, m))'
  <2>1. CASE i < n
    <3>1. PICK m \in 1 .. i : StandsFor(m, i) /\ KeepsPrompt(snapshots, disk, i, m)
        BY DEF Exactly
    <3>2. StandsFor(m, i)'
        BY <1>1, <1>2, <2>1, <3>1 DEF StandsFor
    <3>3. ASSUME NEW f \in Files \ missing' PROVE Keeps(snapshots', disk', i, f, prompts'[m][f])
      <4>1. f \in Files \ missing /\ f \notin failed /\ Keeps(snapshots, disk, i, f, prompts[m][f])
          BY <1>2, <3>1, <3>3 DEF KeepsPrompt
      <4> QED
          BY <1>1, <1>2, <2>1, <4>1, RewindKeepsEarlier
    <3> QED
        BY <3>2, <3>3 DEF KeepsPrompt
  <2>2. CASE i >= n
    <3>1. PICK m \in 1 .. n : StandsFor(m, n) /\ KeepsPrompt(snapshots, disk, n, m)
        BY <1>1 DEF Exactly
    <3>2. m \in 1 .. i \ undone' /\ m + 1 .. i \subseteq undone'
      <4>1. m \in 1 .. n \ undone /\ m + 1 .. n \subseteq undone
          BY <3>1 DEF StandsFor
      <4>2. m <= n /\ n <= i /\ m \in 1 .. i
          BY <1>1, <2>2
      <4>3. \A k \in m + 1 .. i : k \in m + 1 .. n \/ (k > n /\ k \in DOMAIN prompts)
          BY <1>1, <2>2
      <4> QED
          BY <1>2, <4>1, <4>2, <4>3
    <3>3. ASSUME NEW f \in Files \ missing' PROVE Keeps(snapshots', disk', i, f, prompts'[m][f])
      <4>1. f \in Files \ missing /\ f \notin failed /\ Keeps(snapshots, disk, n, f, prompts[m][f])
          BY <1>2, <3>1, <3>3 DEF KeepsPrompt
      <4>2. (n - 1) + 1 = n
          BY <1>1
      <4>3. disk'[f] = prompts[m][f]
          BY <1>1, <1>2, <4>1, <4>2, RestoredIsKept
      <4>4. From(snapshots', i, f) = {}
        <5>1. \A s \in snapshots : s.checkpoint \in Nat
            BY <1>1 DEF Manifests
        <5> QED
            BY <1>1, <1>5, <2>2, <5>1 DEF From
      <4> QED
          BY <1>2, <4>3, <4>4 DEF Keeps
    <3> QED
        BY <3>2, <3>3 DEF StandsFor, KeepsPrompt
  <2> QED
      BY <1>1, <2>1, <2>2
<1> QED
    BY <1>1, <1>2, <1>5, <1>6, <1>7 DEF Exactly

-----------------------------------------------------------------------------
LEMMA RewindInit == CheckpointInit => RewindInv
<1> SUFFICES ASSUME CheckpointInit PROVE Exactly
    BY DEF RewindInv
<1>1. CheckpointTypes /\ Len(prompts) = 0 /\ counter = 0 /\ snapshots = {}
    BY EmptySeq DEF CheckpointInit, CheckpointTypes, Manifests, Tombstone
<1> QED
    BY <1>1 DEF Exactly, InOrder

LEMMA RewindStep == RewindInv /\ [CheckpointNext]_checkpointVars => RewindInv'
<1> SUFFICES ASSUME RewindInv, [CheckpointNext]_checkpointVars, skew' = "none" PROVE Exactly'
    BY DEF RewindInv
<1>1. CASE TurnBegins
    BY <1>1, BeginKeepsExact DEF RewindInv, TurnBegins
<1>2. CASE TurnEnds \/ UNCHANGED checkpointVars
  <2>1. UNCHANGED <<disk, writes, counter, snapshots, prompts, undone, missing, skew>>
      BY <1>2 DEF TurnEnds, checkpointVars
  <2> QED
      BY <2>1 DEF RewindInv, Exactly, CheckpointTypes, StandsFor, KeepsPrompt
<1>3. ASSUME NEW f \in Files, Edits(f) PROVE Exactly'
  <2>1. skew = "none"
      BY <1>3 DEF Edits
  <2> QED
      BY <1>3, <2>1, EditKeepsExact DEF RewindInv
<1>4. CASE TurnContinues \/ Compacts \/ Restarts \/ \E n \in DOMAIN prompts : RewindConversation(n)
    BY <1>4 DEF TurnContinues, Compacts, Restarts, RewindConversation
<1>5. ASSUME NEW n \in DOMAIN prompts, NEW both \in BOOLEAN, NEW failed, Rewind(n, both, failed)
      PROVE  Exactly'
  <2>1. both = FALSE /\ skew = "none"
      BY <1>5 DEF Rewind
  <2> QED
      BY <1>5, <2>1, RewindKeepsExact DEF RewindInv
<1> QED
    BY <1>1, <1>2, <1>3, <1>4, <1>5 DEF CheckpointNext

LEMMA ExactlyRestores == RewindInv => RewindIsExact
<1> SUFFICES ASSUME Exactly, NEW n \in DOMAIN prompts
             PROVE  \E m \in 1 .. n \ undone : m + 1 .. n \subseteq undone /\ RestoresTo(n, m)
    BY DEF RewindInv, RewindIsExact
<1>1. n \in 1 .. Len(prompts) /\ n - 1 \in Nat /\ (n - 1) + 1 = n
    BY LenProperties DEF Exactly, CheckpointTypes
<1>2. PICK m \in 1 .. n : StandsFor(m, n) /\ KeepsPrompt(snapshots, disk, n, m)
    BY <1>1 DEF Exactly
<1>3. ASSUME NEW f \in Files \ missing PROVE Restored(n - 1, {})[f] = prompts[m][f]
  <2>1. Keeps(snapshots, disk, (n - 1) + 1, f, prompts[m][f])
      BY <1>1, <1>2 DEF KeepsPrompt
  <2> QED
      BY <1>1, <2>1, RestoredIsKept DEF Exactly
<1> QED
    BY <1>2, <1>3 DEF StandsFor, RestoresTo

\* While messages and checkpoints count alike, however many edits, turns and
\* restores of the code there were, each prompt of the list restores every
\* file not reported missing to what it was when the prompt was sent
\* (restore_to).  A restore to an earlier prompt consumes the snapshots of
\* those after it (checkpoint.py): they are still offered, and restore what
\* the last prompt before them that no restore has passed would.
THEOREM RewindStaysExact == CheckpointSpec => []RewindIsExact
<1> QED
    BY RewindInit, RewindStep, ExactlyRestores, PTL DEF CheckpointSpec

(***************************************************************************)
(* Installing and uninstalling a plugin.                                   *)
(***************************************************************************)

PluginJournals ==
    [kind : {"none", "install", "uninstall"}, phase : JournalPhases,
     previous : Absent .. MaxVersions, new : Absent .. MaxVersions, existed : BOOLEAN]

PluginOps ==
    [mode : {"idle", "do", "undo", "recover"}, plan : Seq(PlanSteps),
     journal : PluginJournals, report : SUBSET Payloads]

\* What is left of a transaction that is under way.
InstallRests(existed) ==
    {InstallPlan(existed),
     <<"move_to_backup", "backup_moved", "publish", "target_published", "register",
       "state_written", "remove_backup", "unlink">>,
     <<"backup_moved", "publish", "target_published", "register", "state_written",
       "remove_backup", "unlink">>,
     <<"publish", "target_published", "register", "state_written", "remove_backup", "unlink">>,
     <<"target_published", "register", "state_written", "remove_backup", "unlink">>,
     <<"register", "state_written", "remove_backup", "unlink">>,
     <<"state_written", "remove_backup", "unlink">>,
     <<"remove_backup", "unlink">>,
     <<"unlink">>}

UninstallRests ==
    {UninstallPlan,
     <<"move_to_backup", "backup_moved", "unregister", "state_removed", "remove_backup",
       "unlink">>,
     <<"backup_moved", "unregister", "state_removed", "remove_backup", "unlink">>,
     <<"unregister", "state_removed", "remove_backup", "unlink">>,
     <<"state_removed", "remove_backup", "unlink">>,
     <<"remove_backup", "unlink">>,
     <<"unlink">>}

\* What is on disk before a step of an install or an upgrade, and of an uninstall.
InstallAt(move) ==
    LET v == op.journal.previous  n == op.journal.new  phase == op.journal.phase IN
    \/ /\ move = "prepared" /\ phase = ""
       /\ target = v /\ backup = Absent /\ registry = v /\ stage = n
    \/ /\ move = "move_to_backup" /\ phase = "prepared" /\ v # Absent
       /\ target = v /\ backup = Absent /\ registry = v /\ stage = n
    \/ /\ move = "backup_moved" /\ phase = "prepared" /\ v # Absent
       /\ target = Absent /\ backup = v /\ registry = v /\ stage = n
    \/ /\ move = "publish" /\ phase = (IF v # Absent THEN "backup_moved" ELSE "prepared")
       /\ target = Absent /\ backup = v /\ registry = v /\ stage = n
    \/ /\ move = "target_published"
       /\ phase = (IF v # Absent THEN "backup_moved" ELSE "prepared")
       /\ target = n /\ backup = v /\ registry = v
    \/ /\ move = "register" /\ phase = "target_published"
       /\ target = n /\ backup = v /\ registry = v
    \/ /\ move = "state_written" /\ phase = "target_published"
       /\ target = n /\ backup = v /\ registry = n
    \/ /\ move = "remove_backup" /\ phase = "state_written"
       /\ target = n /\ backup = v /\ registry = n
    \/ /\ move = "unlink" /\ phase = "state_written"
       /\ target = n /\ backup = Absent /\ registry = n

UninstallAt(move) ==
    LET v == op.journal.previous  phase == op.journal.phase IN
    \/ /\ move = "prepared" /\ phase = ""
       /\ target = v /\ backup = Absent /\ registry = v
    \/ /\ move = "move_to_backup" /\ phase = "prepared"
       /\ target = v /\ backup = Absent /\ registry = v
    \/ /\ move = "backup_moved" /\ phase = "prepared"
       /\ target = Absent /\ backup = v /\ registry = v
    \/ /\ move = "unregister" /\ phase = "backup_moved"
       /\ target = Absent /\ backup = v /\ registry = v
    \/ /\ move = "state_removed" /\ phase = "backup_moved"
       /\ target = Absent /\ backup = v /\ registry = Absent
    \/ /\ move = "remove_backup" /\ phase = "state_removed"
       /\ target = Absent /\ backup = v /\ registry = Absent
    \/ /\ move = "unlink" /\ phase = "state_removed"
       /\ target = Absent /\ backup = Absent /\ registry = Absent

Installing ==
    LET v == op.journal.previous  n == op.journal.new IN
    /\ op.journal.kind = "install" /\ n # Absent /\ (op.journal.existed <=> v # Absent)
    /\ told = {v, n} /\ op.report = {n}

Uninstalling ==
    LET v == op.journal.previous  n == op.journal.new IN
    /\ op.journal.kind = "uninstall" /\ n = Absent /\ v # Absent
    /\ told = {v, n} /\ op.report = {n}

\* A transaction that is under way: memory and disk hold the same journal.
Doing ==
    \/ /\ \/ /\ Installing /\ InstallAt(Head(op.plan))
             /\ op.plan \in InstallRests(op.journal.previous # Absent)
          \/ /\ Uninstalling /\ UninstallAt(Head(op.plan))
             /\ op.plan \in UninstallRests
       /\ journal = IF op.journal.phase = "" THEN NoJournal ELSE op.journal
    \/ op.plan = <<>> /\ journal = NoJournal /\ Agrees

\* Whoever finds this on disk can bring the plugin to what the user was told.
Recoverable ==
    LET v == journal.previous  n == journal.new IN
    /\ v \in told /\ n \in told
    /\ \/ /\ journal.kind = "install"
          /\ n # Absent /\ (journal.existed <=> v # Absent)
          /\ \/ /\ journal.phase = "prepared"
                /\ \/ target = v /\ backup = Absent
                   \/ target = Absent /\ backup = v
                   \/ v = Absent /\ backup = Absent
             \/ journal.phase = "backup_moved" /\ backup = v
             \/ journal.phase = "target_published" /\ target = n /\ backup = v
             \/ journal.phase = "state_written" /\ target = n
       \/ /\ journal.kind = "uninstall"
          /\ n = Absent /\ v # Absent
          /\ \/ journal.phase = "state_removed"
             \/ /\ journal.phase \in {"prepared", "backup_moved"}
                /\ \/ target = v /\ backup = Absent
                   \/ target = Absent /\ backup = v

Durable == IF journal = NoJournal THEN Agrees ELSE Recoverable

\* How the plans that undo or recover end.
UndoEnds == {<<"unlink">>, <<"unlink", "remove_stage">>}
RecoveryEnds == {<<"remove_backup", "unlink">>, <<"remove_stage", "remove_backup", "unlink">>}
PlanEnds == UndoEnds \cup RecoveryEnds

Resets(end) == <<"reset_record">> \o end
Restores(end) == <<"restore">> \o Resets(end)
Supplants(end) == <<"remove_target">> \o Restores(end)
Clears(end) == <<"remove_target">> \o Supplants(end)
Empties(end) == <<"remove_target">> \o Resets(end)

\* What is left of a plan that undoes or recovers, and what must be on disk
\* for it to end in agreement.
Promise ==
    LET v == op.journal.previous  n == op.journal.new IN
    \/ op.plan \in {<<>>, <<"remove_stage">>} /\ journal = NoJournal /\ Agrees
    \/ op.plan \in UndoEnds /\ backup = Absent /\ target = registry /\ target \in op.report
    \/ op.plan \in RecoveryEnds /\ target = registry /\ target \in op.report
    \/ /\ v \in op.report
       /\ \E end \in PlanEnds :
            \/ op.plan = Resets(end) /\ target = v /\ backup = Absent
            \/ op.plan \in {Restores(end), Supplants(end), Clears(end)} /\ backup = v
            \/ op.plan = Empties(end) /\ v = Absent /\ backup = Absent
    \/ /\ n \in op.report
       /\ \/ /\ op.plan = <<"register", "remove_stage", "remove_backup", "unlink">>
             /\ target = n /\ op.journal.kind = "install"
          \/ /\ n = Absent /\ journal.phase = "state_removed"
             /\ \/ op.plan = <<"remove_target", "remove_backup", "unregister",
                               "remove_backup", "unlink">>
                \/ /\ op.plan \in {<<"remove_backup", "unregister", "remove_backup", "unlink">>,
                                   <<"unregister", "remove_backup", "unlink">>}
                   /\ target = Absent

\* An uninstall may be undone or recovered again and again.
Resumable ==
    op.journal.kind = "uninstall" =>
        /\ Durable /\ op.journal.previous # Absent
        /\ journal # NoJournal =>
             /\ journal.kind = "uninstall" /\ journal.previous = op.journal.previous
             /\ op.report \subseteq told
             /\ op.plan \in RecoveryEnds => backup = Absent \/ journal.phase = "state_removed"

\* Idle, the disk agrees or can be recovered; under way, memory and disk belong
\* together; undoing or recovering, what is left of the plan ends in agreement.
Sound ==
    /\ op.mode = "idle" => op.plan = <<>> /\ Durable
    /\ op.mode = "do" => Doing
    /\ op.mode \in {"undo", "recover"} =>
          Promise /\ Resumable /\ op.journal.kind \in {"install", "uninstall"}

\* Nothing is said after an exception half-way through removing a backup, nor
\* when undoing or recovering an install was interrupted as well.
PluginInv == PluginTypeOK /\ (torn \/ again \/ Sound)

-----------------------------------------------------------------------------
(* Plans are sequences of the names of steps.                              *)

LEMMA PutFirst ==
    ASSUME NEW Moves, NEW move \in Moves, NEW rest \in Seq(Moves)
    PROVE  /\ <<move>> \o rest \in Seq(Moves)
           /\ <<move>> \o rest # <<>>
           /\ Head(<<move>> \o rest) = move
           /\ Tail(<<move>> \o rest) = rest
<1> DEFINE plan == <<move>> \o rest
<1>1. /\ plan \in Seq(Moves) /\ Len(plan) = Len(rest) + 1 /\ Len(rest) \in Nat
      /\ plan[1] = move /\ \A i \in 1 .. Len(rest) : plan[i + 1] = rest[i]
  BY ConcatProperties, LenProperties
<1> HIDE DEF plan
<1>2. plan # <<>>
  BY <1>1, EmptySeq
<1>3. /\ Head(plan) = move
      /\ Tail(plan) \in Seq(Moves) /\ Len(Tail(plan)) = Len(rest)
      /\ \A i \in 1 .. Len(Tail(plan)) : Tail(plan)[i] = rest[i]
  BY <1>1, <1>2, HeadTailProperties
<1>4. Tail(plan) = rest
  BY <1>3, SeqEqual
<1> QED
  BY <1>1, <1>2, <1>3, <1>4 DEF plan

\* The steps of the plans that undo or recover.
BackSteps ==
    {"remove_target", "restore", "reset_record", "register", "unregister", "remove_stage",
     "remove_backup", "unlink"}

\* What ends an undoing or a recovery is a plan.
LEMMA EndsAreSeqs == PlanEnds \subseteq Seq(BackSteps)
  BY DEF PlanEnds, UndoEnds, RecoveryEnds, BackSteps

\* How the plans that put a payload back go on, step by step.
LEMMA PutBackFacts ==
    ASSUME NEW end \in PlanEnds
    PROVE  /\ {Resets(end), Restores(end), Supplants(end), Clears(end), Empties(end)}
                \subseteq Seq(BackSteps) \ {<<>>}
           /\ Head(Resets(end)) = "reset_record" /\ Tail(Resets(end)) = end
           /\ Head(Restores(end)) = "restore" /\ Tail(Restores(end)) = Resets(end)
           /\ Head(Supplants(end)) = "remove_target" /\ Tail(Supplants(end)) = Restores(end)
           /\ Head(Clears(end)) = "remove_target" /\ Tail(Clears(end)) = Supplants(end)
           /\ Head(Empties(end)) = "remove_target" /\ Tail(Empties(end)) = Resets(end)
<1>1. end \in Seq(BackSteps)
  BY EndsAreSeqs
<1>2. "reset_record" \in BackSteps /\ "restore" \in BackSteps /\ "remove_target" \in BackSteps
  BY DEF BackSteps
<1>3. /\ Resets(end) \in Seq(BackSteps) /\ Resets(end) # <<>>
      /\ Head(Resets(end)) = "reset_record" /\ Tail(Resets(end)) = end
  BY ONLY <1>2, <1>1, PutFirst, Zenon DEF Resets
<1>4. Resets(end) \in Seq(BackSteps)
  BY <1>3
<1>5. /\ Restores(end) \in Seq(BackSteps) /\ Restores(end) # <<>>
      /\ Head(Restores(end)) = "restore" /\ Tail(Restores(end)) = Resets(end)
  BY ONLY <1>2, <1>4, PutFirst, Zenon DEF Restores
<1>6. Restores(end) \in Seq(BackSteps)
  BY <1>5
<1>7. /\ Supplants(end) \in Seq(BackSteps) /\ Supplants(end) # <<>>
      /\ Head(Supplants(end)) = "remove_target" /\ Tail(Supplants(end)) = Restores(end)
  BY ONLY <1>2, <1>6, PutFirst, Zenon DEF Supplants
<1>8. Supplants(end) \in Seq(BackSteps)
  BY <1>7
<1>9. /\ Clears(end) \in Seq(BackSteps) /\ Clears(end) # <<>>
      /\ Head(Clears(end)) = "remove_target" /\ Tail(Clears(end)) = Supplants(end)
  BY ONLY <1>2, <1>8, PutFirst, Zenon DEF Clears
<1>10. /\ Empties(end) \in Seq(BackSteps) /\ Empties(end) # <<>>
      /\ Head(Empties(end)) = "remove_target" /\ Tail(Empties(end)) = Resets(end)
  BY ONLY <1>2, <1>4, PutFirst, Zenon DEF Empties
<1> QED
  BY <1>3, <1>5, <1>7, <1>9, <1>10

\* Putting two plans together.
LEMMA JoinOne == ASSUME NEW a, NEW b PROVE <<a>> \o <<b>> = <<a, b>>
<1> DEFINE S == {a, b}  p == <<a>> \o <<b>>  q == <<a, b>>
<1>1. p \in Seq(S) /\ Len(p) = 2 /\ p[1] = a /\ p[2] = b
  BY ConcatProperties
<1>2. q \in Seq(S) /\ Len(q) = 2 /\ q[1] = a /\ q[2] = b
  OBVIOUS
<1> HIDE DEF S, p, q
<1>3. Len(p) = Len(q) /\ \A i \in 1 .. Len(p) : p[i] = q[i]
  BY <1>1, <1>2
<1>4. p = q
  BY <1>1, <1>2, <1>3, SeqEqual
<1> QED
  BY <1>4 DEF p, q

LEMMA JoinTwo ==
    ASSUME NEW a, NEW b, NEW c
    PROVE  <<a>> \o <<b, c>> = <<a, b, c>>
<1>1. <<a>> \o <<b, c>> = [i \in 1 .. 3 |-> IF i = 1 THEN a ELSE IF i = 2 THEN b ELSE c]
  OBVIOUS
<1>2. <<a, b, c>> = [i \in 1 .. 3 |-> IF i = 1 THEN a ELSE IF i = 2 THEN b ELSE c]
  OBVIOUS
<1> QED
  BY ONLY <1>1, <1>2, Zenon

LEMMA JoinFour ==
    ASSUME NEW a, NEW b, NEW c, NEW d
    PROVE  <<a, b>> \o <<c, d>> = <<a, b, c, d>>
<1>1. <<a, b>> \o <<c, d>> =
        [i \in 1 .. 4 |-> IF i = 1 THEN a ELSE IF i = 2 THEN b ELSE IF i = 3 THEN c ELSE d]
  OBVIOUS
<1>2. <<a, b, c, d>> =
        [i \in 1 .. 4 |-> IF i = 1 THEN a ELSE IF i = 2 THEN b ELSE IF i = 3 THEN c ELSE d]
  OBVIOUS
<1> QED
  BY ONLY <1>1, <1>2, Zenon

LEMMA JoinFive ==
    ASSUME NEW a, NEW b, NEW c, NEW d, NEW e
    PROVE  <<a, b, c>> \o <<d, e>> = <<a, b, c, d, e>>
<1>1. <<a, b, c>> \o <<d, e>> =
        [i \in 1 .. 5 |-> IF i = 1 THEN a ELSE IF i = 2 THEN b ELSE IF i = 3 THEN c
                          ELSE IF i = 4 THEN d ELSE e]
  OBVIOUS
<1>2. <<a, b, c, d, e>> =
        [i \in 1 .. 5 |-> IF i = 1 THEN a ELSE IF i = 2 THEN b ELSE IF i = 3 THEN c
                          ELSE IF i = 4 THEN d ELSE e]
  OBVIOUS
<1> QED
  BY ONLY <1>1, <1>2, Zenon

\* Joining is associative and has a neutral element, whatever the sequences hold.
Linked(s, t) == s \o t
Lists(S) == Seq(S)

LEMMA LinkFacts ==
    /\ \A S : \A a, b, c \in Lists(S) : Linked(Linked(a, b), c) = Linked(a, Linked(b, c))
    /\ \A S : \A a, b \in Lists(S) : Linked(a, b) \in Lists(S)
    /\ \A S : \A a \in Lists(S) : Linked(a, <<>>) = a /\ Linked(<<>>, a) = a
<1>1. \A S : \A a, b, c \in Lists(S) : Linked(Linked(a, b), c) = Linked(a, Linked(b, c))
  BY ConcatAssociative DEF Linked, Lists
<1>2. \A S : \A a, b \in Lists(S) : Linked(a, b) \in Lists(S)
  BY ConcatProperties DEF Linked, Lists
<1>3. \A S : \A a \in Lists(S) : Linked(a, <<>>) = a /\ Linked(<<>>, a) = a
  BY ConcatEmptySeq DEF Linked, Lists
<1> QED
  BY <1>1, <1>2, <1>3

LEMMA Regroup ==
    ASSUME NEW S, NEW a \in Seq(S), NEW b \in Seq(S), NEW c \in Seq(S), NEW d \in Seq(S)
    PROVE  /\ ((a \o b) \o c) \o d = a \o (b \o (c \o d))
           /\ (a \o b) \o c = a \o (b \o c)
           /\ a \o <<>> = a /\ <<>> \o a = a
           /\ a \o b \in Seq(S)
<1>1. a \in Lists(S) /\ b \in Lists(S) /\ c \in Lists(S) /\ d \in Lists(S)
  BY DEF Lists
<1>2. Linked(a, b) \in Lists(S) /\ Linked(c, d) \in Lists(S)
  BY <1>1, LinkFacts
<1>3. Linked(Linked(Linked(a, b), c), d) = Linked(Linked(a, b), Linked(c, d))
  BY <1>1, <1>2, LinkFacts
<1>4. Linked(Linked(a, b), Linked(c, d)) = Linked(a, Linked(b, Linked(c, d)))
  BY <1>1, <1>2, LinkFacts
<1>5. /\ Linked(Linked(a, b), c) = Linked(a, Linked(b, c))
      /\ Linked(a, <<>>) = a /\ Linked(<<>>, a) = a
  BY <1>1, LinkFacts
<1> QED
  BY <1>2, <1>3, <1>4, <1>5, Zenon DEF Linked, Lists

\* Whether an undo or a recovery removes the target before anything is moved back.
RemovesTarget(j) ==
    j.kind = "install" /\ (j.phase \in JournalPhases \ {"", "prepared"} \/ ~j.existed)

\* The four shapes of a plan that puts a payload back (_recover_incomplete_transaction).
LEMMA PutBackForm ==
    ASSUME NEW end \in PlanEnds, NEW j, NEW hasBackup
    PROVE  PutBack(j, hasBackup) \o end =
              IF hasBackup THEN IF RemovesTarget(j) THEN Clears(end) ELSE Supplants(end)
              ELSE IF RemovesTarget(j) THEN Empties(end) ELSE Resets(end)
<1> DEFINE rt == <<"remove_target">>  rs == <<"restore">>  rr == <<"reset_record">>
           first == If(RemovesTarget(j), rt)
           second == If(hasBackup, <<"remove_target", "restore">>)
<1>1. rt \in Seq(BackSteps) /\ rs \in Seq(BackSteps) /\ rr \in Seq(BackSteps)
  BY DEF BackSteps
<1>2. end \in Seq(BackSteps) /\ <<>> \in Seq(BackSteps)
  BY EndsAreSeqs
<1>3. <<"remove_target", "restore">> = rt \o rs
  BY JoinOne
<1>4. PutBack(j, hasBackup) = (first \o second) \o rr
  BY DEF PutBack, RemovesTarget
<1>5. /\ first = IF RemovesTarget(j) THEN rt ELSE <<>>
      /\ second = IF hasBackup THEN rt \o rs ELSE <<>>
  BY <1>3, Zenon DEF If
<1>6. /\ Clears(end) = rt \o (rt \o (rs \o (rr \o end)))
      /\ Supplants(end) = rt \o (rs \o (rr \o end))
      /\ Empties(end) = rt \o (rr \o end) /\ Resets(end) = rr \o end
  BY Zenon DEF Clears, Supplants, Restores, Empties, Resets
<1> HIDE DEF rt, rs, rr, first, second
<1>7. rt \o rs \in Seq(BackSteps) /\ rr \o end \in Seq(BackSteps)
  BY <1>1, <1>2, Regroup
<1>8. first \in Seq(BackSteps) /\ second \in Seq(BackSteps)
  BY <1>1, <1>2, <1>5, <1>7
<1>9. \A s, t, u \in Seq(BackSteps) : (s \o t) \o u = s \o (t \o u)
  BY ConcatAssociative
<1>10. PutBack(j, hasBackup) \o end = first \o (second \o (rr \o end))
  <2>1. first \o second \in Seq(BackSteps)
    BY <1>8, ConcatProperties
  <2>2. ((first \o second) \o rr) \o end = (first \o second) \o (rr \o end)
    BY ONLY <2>1, <1>1, <1>2, <1>9, Zenon
  <2>3. (first \o second) \o (rr \o end) = first \o (second \o (rr \o end))
    BY ONLY <1>7, <1>8, <1>9, Zenon
  <2> QED
    BY <2>2, <2>3, <1>4, Zenon
<1>11. (rt \o rs) \o (rr \o end) = rt \o (rs \o (rr \o end))
  BY ONLY <1>1, <1>7, <1>9, Zenon
<1>12. <<>> \o (rr \o end) = rr \o end
  BY <1>7, Regroup
<1>13. rs \o (rr \o end) \in Seq(BackSteps)
  BY <1>1, <1>7, Regroup
<1>14. rt \o (rs \o (rr \o end)) \in Seq(BackSteps)
  BY <1>1, <1>13, Regroup
<1>15. <<>> \o (rt \o (rs \o (rr \o end))) = rt \o (rs \o (rr \o end))
  BY <1>14, Regroup
<1>16. CASE RemovesTarget(j) /\ hasBackup
  BY <1>5, <1>6, <1>10, <1>11, <1>16, Zenon
<1>17. CASE ~RemovesTarget(j) /\ hasBackup
  BY <1>5, <1>6, <1>10, <1>11, <1>15, <1>17, Zenon
<1>18. CASE RemovesTarget(j) /\ ~hasBackup
  BY <1>5, <1>6, <1>10, <1>12, <1>18, Zenon
<1>19. CASE ~RemovesTarget(j) /\ ~hasBackup
  BY <1>5, <1>6, <1>10, <1>12, <1>19, Zenon
<1> QED
  BY <1>16, <1>17, <1>18, <1>19, Zenon

\* The pieces of such a plan are plans.
LEMMA BackPieces ==
    {<<>>, <<"remove_target">>, <<"remove_target", "restore">>, <<"reset_record">>, <<"unlink">>,
     <<"remove_stage">>, <<"remove_backup", "unlink">>} \subseteq Seq(BackSteps)
<1>1. <<>> \in Seq(BackSteps) /\ <<"remove_target">> \in Seq(BackSteps)
  BY DEF BackSteps
<1>2. <<"remove_target", "restore">> \in Seq(BackSteps) /\ <<"reset_record">> \in Seq(BackSteps)
  BY DEF BackSteps
<1>3. <<"unlink">> \in Seq(BackSteps) /\ <<"remove_stage">> \in Seq(BackSteps)
  BY DEF BackSteps
<1>4. <<"remove_backup", "unlink">> \in Seq(BackSteps)
  BY DEF BackSteps
<1> QED
  BY <1>1, <1>2, <1>3, <1>4, Zenon

LEMMA PutBackIsSeq == ASSUME NEW j, NEW hasBackup PROVE PutBack(j, hasBackup) \in Seq(BackSteps)
<1>1. /\ \A c : If(c, <<"remove_target">>) \in Seq(BackSteps)
      /\ \A c : If(c, <<"remove_target", "restore">>) \in Seq(BackSteps)
      /\ <<"reset_record">> \in Seq(BackSteps)
  BY BackPieces, Zenon DEF If
<1>2. \A s, t \in Seq(BackSteps) : s \o t \in Seq(BackSteps)
  BY ConcatProperties
<1> QED
  BY <1>1, <1>2, Zenon DEF PutBack

\* What the handler of a failed operation does: drop the journal of a finished one, or put back.
LEMMA RollbackForm ==
    ASSUME NEW j, NEW hasBackup
    PROVE  \/ Committed(j, hasBackup) /\ RollbackPlan(j, hasBackup) = <<"unlink">>
           \/ /\ ~Committed(j, hasBackup)
              /\ \E end \in UndoEnds : RollbackPlan(j, hasBackup) = PutBack(j, hasBackup) \o end
                                       /\ (j.kind = "uninstall" => end = <<"unlink">>)
<1>1. CASE Committed(j, hasBackup)
  BY <1>1 DEF RollbackPlan
<1>2. CASE ~Committed(j, hasBackup)
  <2> DEFINE back == PutBack(j, hasBackup)  last == If(j.kind = "install", <<"remove_stage">>)
  <2>1. RollbackPlan(j, hasBackup) = (back \o <<"unlink">>) \o last
    BY <1>2 DEF RollbackPlan
  <2>2. back \in Seq(BackSteps) /\ <<"unlink">> \in Seq(BackSteps) /\ last \in Seq(BackSteps)
    BY PutBackIsSeq, BackPieces, Zenon DEF If
  <2>3. /\ j.kind = "install" => <<"unlink">> \o last = <<"unlink", "remove_stage">>
        /\ j.kind # "install" => <<"unlink">> \o last = <<"unlink">>
    <3>1. <<"unlink">> \o <<>> = <<"unlink">>
      OBVIOUS
    <3>2. <<"unlink">> \o <<"remove_stage">> = <<"unlink", "remove_stage">>
      BY JoinOne, Zenon
    <3> QED
      BY <3>1, <3>2, Zenon DEF If
  <2> HIDE DEF back, last
  <2>4. (back \o <<"unlink">>) \o last = back \o (<<"unlink">> \o last)
    BY <2>2, ConcatAssociative
  <2>5. /\ <<"unlink">> \o last \in UndoEnds
        /\ j.kind = "uninstall" => <<"unlink">> \o last = <<"unlink">>
    BY <2>3 DEF UndoEnds
  <2> QED
    BY <1>2, <2>1, <2>4, <2>5 DEF back
<1> QED
  BY <1>1, <1>2

\* What a recovery does with each journal it may find.
LEMMA RecoveryForm ==
    ASSUME NEW j, NEW hasTarget, NEW hasBackup, j.kind \in {"install", "uninstall"}
    PROVE  LET plan == RecoveryPlan(j, hasTarget, hasBackup)
               finish == hasTarget /\ \/ j.phase = "state_written"
                                      \/ j.phase = "target_published" /\ ~hasBackup
               back == PutBack(j, hasBackup)
           IN  /\ j.kind = "install" /\ finish =>
                     plan = <<"register", "remove_stage", "remove_backup", "unlink">>
               /\ j.kind = "install" /\ ~finish /\ j.phase # "state_written" =>
                     plan = back \o <<"remove_stage", "remove_backup", "unlink">>
               /\ j.kind = "uninstall" /\ j.phase = "state_removed" =>
                     plan = <<"remove_target", "remove_backup", "unregister", "remove_backup",
                              "unlink">>
               /\ j.kind = "uninstall" /\ j.phase # "state_removed" /\ (hasTarget \/ hasBackup) =>
                     plan = back \o <<"remove_backup", "unlink">>
<1> DEFINE plan == RecoveryPlan(j, hasTarget, hasBackup)
           finish == hasTarget /\ \/ j.phase = "state_written"
                                  \/ j.phase = "target_published" /\ ~hasBackup
           nothing == ~hasTarget /\ ~hasBackup
           back == PutBack(j, hasBackup)
           rbul == <<"remove_backup", "unlink">>
<1>1. CASE j.kind = "install" /\ finish
  <2>1. plan = (<<"register">> \o <<"remove_stage">>) \o rbul
    BY <1>1, Zenon DEF RecoveryPlan, If
  <2>2. <<"register">> \o <<"remove_stage">> = <<"register", "remove_stage">>
    BY JoinOne
  <2> QED
    <3>1. <<"register", "remove_stage">> \o <<"remove_backup", "unlink">>
             = <<"register", "remove_stage", "remove_backup", "unlink">>
      BY JoinFour, Zenon
    <3> HIDE DEF plan
    <3> QED
      BY <1>1, <2>1, <2>2, <3>1 DEF plan
<1>2. CASE j.kind = "install" /\ ~finish /\ j.phase # "state_written"
  <2>1. plan = (back \o <<"remove_stage">>) \o rbul
    <3>1. j.kind # "uninstall"
      BY <1>2
    <3> QED
      BY <1>2, <3>1 DEF RecoveryPlan, If
  <2>2. back \in Seq(BackSteps) /\ <<"remove_stage">> \in Seq(BackSteps) /\ rbul \in Seq(BackSteps)
    BY PutBackIsSeq, BackPieces, Zenon
  <2>3. <<"remove_stage">> \o rbul = <<"remove_stage", "remove_backup", "unlink">>
    BY JoinTwo, Zenon
  <2> HIDE DEF plan, back, rbul
  <2>4. (back \o <<"remove_stage">>) \o rbul = back \o (<<"remove_stage">> \o rbul)
    <3>1. \A s, t, u \in Seq(BackSteps) : (s \o t) \o u = s \o (t \o u)
      BY ConcatAssociative
    <3> QED
      BY ONLY <2>2, <3>1, Zenon
  <2> QED
    BY <1>2, <2>1, <2>3, <2>4 DEF plan, back
<1>3. CASE j.kind = "uninstall" /\ j.phase = "state_removed"
  <2> DEFINE drop == <<"remove_target", "remove_backup", "unregister">>
  <2>1. plan = (drop \o <<>>) \o rbul
    <3>1. j.kind # "install"
      BY <1>3
    <3> QED
      BY <1>3, <3>1 DEF RecoveryPlan, If
  <2>2. drop \o <<>> = drop
    OBVIOUS
  <2>3. drop \o rbul = <<"remove_target", "remove_backup", "unregister", "remove_backup", "unlink">>
    BY JoinFive, Zenon
  <2> QED
    BY <1>3, <2>1, <2>2, <2>3 DEF plan
<1>4. CASE j.kind = "uninstall" /\ j.phase # "state_removed" /\ (hasTarget \/ hasBackup)
  <2>1. plan = (back \o <<>>) \o rbul
    <3>1. j.kind # "install"
      BY <1>4
    <3> QED
      BY <1>4, <3>1 DEF RecoveryPlan, If
  <2>2. back \in Seq(BackSteps)
    BY PutBackIsSeq
  <2> HIDE DEF back
  <2>3. back \o <<>> = back
    BY <2>2, ConcatEmptySeq
  <2> QED
    BY <1>4, <2>1, <2>3 DEF plan, back
<1> HIDE DEF plan, back
<1> QED
  BY <1>1, <1>2, <1>3, <1>4 DEF plan, back

LEMMA JoinSeven ==
    ASSUME NEW a, NEW b, NEW c, NEW d, NEW e, NEW f, NEW g
    PROVE  <<a>> \o <<b, c, d, e, f, g>> = <<a, b, c, d, e, f, g>>
<1>1. <<a>> \o <<b, c, d, e, f, g>> =
        [i \in 1 .. 7 |-> IF i = 1 THEN a ELSE IF i = 2 THEN b ELSE IF i = 3 THEN c
                          ELSE IF i = 4 THEN d ELSE IF i = 5 THEN e ELSE IF i = 6 THEN f ELSE g]
  OBVIOUS
<1>2. <<a, b, c, d, e, f, g>> =
        [i \in 1 .. 7 |-> IF i = 1 THEN a ELSE IF i = 2 THEN b ELSE IF i = 3 THEN c
                          ELSE IF i = 4 THEN d ELSE IF i = 5 THEN e ELSE IF i = 6 THEN f ELSE g]
  OBVIOUS
<1> QED
  BY ONLY <1>1, <1>2, Zenon

LEMMA JoinNine ==
    ASSUME NEW a, NEW b, NEW c, NEW d, NEW e, NEW f, NEW g, NEW h, NEW k
    PROVE  <<a, b, c>> \o <<d, e, f, g, h, k>> = <<a, b, c, d, e, f, g, h, k>>
<1>1. <<a, b, c>> \o <<d, e, f, g, h, k>> =
        [i \in 1 .. 9 |-> IF i = 1 THEN a ELSE IF i = 2 THEN b ELSE IF i = 3 THEN c
                          ELSE IF i = 4 THEN d ELSE IF i = 5 THEN e ELSE IF i = 6 THEN f
                          ELSE IF i = 7 THEN g ELSE IF i = 8 THEN h ELSE k]
  OBVIOUS
<1>2. <<a, b, c, d, e, f, g, h, k>> =
        [i \in 1 .. 9 |-> IF i = 1 THEN a ELSE IF i = 2 THEN b ELSE IF i = 3 THEN c
                          ELSE IF i = 4 THEN d ELSE IF i = 5 THEN e ELSE IF i = 6 THEN f
                          ELSE IF i = 7 THEN g ELSE IF i = 8 THEN h ELSE k]
  OBVIOUS
<1> QED
  BY ONLY <1>1, <1>2, Zenon

\* The steps of an install, spelled out.
LEMMA InstallForm ==
    /\ InstallPlan(TRUE) = <<"prepared", "move_to_backup", "backup_moved", "publish",
                             "target_published", "register", "state_written",
                             "remove_backup", "unlink">>
    /\ InstallPlan(FALSE) = <<"prepared", "publish", "target_published", "register",
                              "state_written", "remove_backup", "unlink">>
<1> DEFINE rest == <<"publish", "target_published", "register", "state_written",
                     "remove_backup", "unlink">>
<1>1. /\ InstallPlan(TRUE) = (<<"prepared">> \o <<"move_to_backup", "backup_moved">>) \o rest
      /\ InstallPlan(FALSE) = (<<"prepared">> \o <<>>) \o rest
  BY DEF InstallPlan, If
<1>2. <<"prepared">> \o <<"move_to_backup", "backup_moved">>
        = <<"prepared", "move_to_backup", "backup_moved">>
  BY JoinTwo, Zenon
<1>3. <<"prepared">> \o <<>> = <<"prepared">>
  OBVIOUS
<1> DEFINE Seven(a, b, c, d, e, f, g) ==
             <<a>> \o <<b, c, d, e, f, g>> = <<a, b, c, d, e, f, g>>
           Nine(a, b, c, d, e, f, g, h, k) ==
             <<a, b, c>> \o <<d, e, f, g, h, k>> = <<a, b, c, d, e, f, g, h, k>>
<1>4. \A a, b, c, d, e, f, g : Seven(a, b, c, d, e, f, g)
  BY JoinSeven
<1>5. \A a, b, c, d, e, f, g, h, k : Nine(a, b, c, d, e, f, g, h, k)
  BY JoinNine
<1> HIDE DEF Seven, Nine
<1>6. Seven("prepared", "publish", "target_published", "register", "state_written",
            "remove_backup", "unlink")
  BY <1>4
<1>7. Nine("prepared", "move_to_backup", "backup_moved", "publish", "target_published",
           "register", "state_written", "remove_backup", "unlink")
  BY <1>5
<1>8. <<"prepared">> \o <<"publish", "target_published", "register", "state_written",
                          "remove_backup", "unlink">>
        = <<"prepared", "publish", "target_published", "register",
                                 "state_written", "remove_backup", "unlink">>
  BY <1>6 DEF Seven
<1>9. <<"prepared", "move_to_backup", "backup_moved">>
          \o <<"publish", "target_published", "register", "state_written", "remove_backup", "unlink">>
        = <<"prepared", "move_to_backup", "backup_moved", "publish", "target_published",
            "register", "state_written", "remove_backup", "unlink">>
  BY <1>7 DEF Nine
<1> QED
  BY <1>1, <1>2, <1>3, <1>8, <1>9, Zenon

-----------------------------------------------------------------------------
(* What the variables hold.                                                *)

LEMMA PlanTypes ==
    /\ Seq(BackSteps) \subseteq Seq(PlanSteps)
    /\ \A existed \in BOOLEAN : InstallPlan(existed) \in Seq(PlanSteps)
    /\ UninstallPlan \in Seq(PlanSteps)
    /\ \A j, hasBackup : RollbackPlan(j, hasBackup) \in Seq(PlanSteps)
    /\ \A j, hasTarget, hasBackup : RecoveryPlan(j, hasTarget, hasBackup) \in Seq(PlanSteps)
<1>1. Seq(BackSteps) \subseteq Seq(PlanSteps)
  <2>1. BackSteps \subseteq PlanSteps
    BY DEF BackSteps, PlanSteps
  <2> QED
    BY <2>1, SeqMonotonic
<1>2. \A existed \in BOOLEAN : InstallPlan(existed) \in Seq(PlanSteps)
  <2>1. <<"prepared", "move_to_backup", "backup_moved", "publish", "target_published",
          "register", "state_written", "remove_backup", "unlink">> \in Seq(PlanSteps)
    BY DEF PlanSteps, JournalPhases
  <2>2. <<"prepared", "publish", "target_published", "register", "state_written",
          "remove_backup", "unlink">> \in Seq(PlanSteps)
    BY DEF PlanSteps, JournalPhases
  <2>3. InstallPlan(TRUE) \in Seq(PlanSteps) /\ InstallPlan(FALSE) \in Seq(PlanSteps)
    BY <2>1, <2>2, InstallForm, Zenon
  <2> QED
    BY <2>3
<1>3. UninstallPlan \in Seq(PlanSteps)
  BY DEF UninstallPlan, PlanSteps, JournalPhases
<1>4. \A s, t \in Seq(BackSteps) : s \o t \in Seq(BackSteps)
  BY ConcatProperties
<1>5. \A c : If(c, <<"remove_stage">>) \in Seq(BackSteps)
  BY BackPieces, Zenon DEF If
<1>6. \A j, hasBackup : RollbackPlan(j, hasBackup) \in Seq(BackSteps)
  BY <1>4, <1>5, BackPieces, PutBackIsSeq, Zenon DEF RollbackPlan
<1>7. /\ <<"register">> \in Seq(BackSteps) /\ <<"unregister">> \in Seq(BackSteps)
      /\ <<"remove_target", "remove_backup", "unregister">> \in Seq(BackSteps)
  BY DEF BackSteps
<1>8. ASSUME NEW j, NEW hasTarget, NEW hasBackup
      PROVE  RecoveryPlan(j, hasTarget, hasBackup) \in Seq(BackSteps)
  <2>1. PICK core \in Seq(BackSteps) :
           RecoveryPlan(j, hasTarget, hasBackup)
             = (core \o If(j.kind = "install", <<"remove_stage">>)) \o <<"remove_backup", "unlink">>
    BY <1>7, PutBackIsSeq, Zenon DEF RecoveryPlan
  <2>2. core \o If(j.kind = "install", <<"remove_stage">>) \in Seq(BackSteps)
    BY <2>1, <1>4, <1>5, Zenon
  <2>3. <<"remove_backup", "unlink">> \in Seq(BackSteps)
    BY BackPieces, Zenon
  <2>4. (core \o If(j.kind = "install", <<"remove_stage">>)) \o <<"remove_backup", "unlink">>
          \in Seq(BackSteps)
    BY ONLY <2>2, <2>3, <1>4, Zenon
  <2> QED
    BY <2>1, <2>4, Zenon
<1> QED
  BY <1>1, <1>2, <1>3, <1>6, <1>8

\* Taking a step leaves an operation well-formed.
LEMMA JournalMoves ==
    ASSUME NEW o, NEW plan, NEW phase,
           o \in [mode : {"idle", "do", "undo", "recover"}, plan : Seq(PlanSteps),
                  journal : PluginJournals, report : SUBSET Payloads],
           plan \in Seq(PlanSteps), phase \in JournalPhases
    PROVE  /\ [o EXCEPT !.plan = plan, !.journal.phase = phase] \in PluginOps
           /\ [o.journal EXCEPT !.phase = phase] \in PluginJournals
<1>1. o.journal \in PluginJournals
  OBVIOUS
<1>2. [o.journal EXCEPT !.phase = phase] \in PluginJournals
  BY <1>1 DEF PluginJournals
<1>3. [o EXCEPT !.plan = plan, !.journal.phase = phase]
        = [o EXCEPT !.plan = plan, !.journal = [o.journal EXCEPT !.phase = phase]]
  OBVIOUS
<1> QED
  BY <1>2, <1>3 DEF PluginOps

\* The types, as the proofs below cite them.
LEMMA PluginTyped ==
    PluginTypeOK <=>
      /\ target \in Payloads /\ backup \in Payloads /\ stage \in Payloads
      /\ registry \in Absent .. MaxVersions
      /\ journal \in PluginJournals /\ op \in PluginOps
      /\ staged \in 0 .. MaxVersions /\ faults \in 0 .. MaxFaults
      /\ torn \in BOOLEAN /\ again \in BOOLEAN /\ told \subseteq Payloads
  BY Zenon DEF PluginTypeOK, PluginJournals, PluginOps

LEMMA VersionsDiffer ==
    /\ Absent .. MaxVersions \subseteq Payloads /\ Absent \in Absent .. MaxVersions
    /\ Torn \in Payloads /\ Torn \notin Absent .. MaxVersions
  BY PluginConstants DEF Payloads, Absent, Torn

\* What a step of a plan, done, half done or not done at all, leaves on disk.
Leaves(move, j) == UNCHANGED pluginDisk \/ Effect(move, j) \/ Tears(move)

\* Whatever a step leaves on disk, whole or in part, is well-formed.
LEMMA DiskTypes ==
    ASSUME PluginTypeOK, NEW move, NEW j, j \in PluginJournals, Leaves(move, j)
    PROVE  /\ target' \in Payloads /\ backup' \in Payloads /\ stage' \in Payloads
           /\ registry' \in Absent .. MaxVersions /\ journal' \in PluginJournals
<1>1. /\ target \in Payloads /\ backup \in Payloads /\ stage \in Payloads
      /\ registry \in Absent .. MaxVersions /\ journal \in PluginJournals
  BY PluginTyped
<1>2. CASE UNCHANGED pluginDisk
  BY <1>1, <1>2, Zenon DEF pluginDisk
<1>3. CASE Tears(move)
  <2>1. Torn \in Payloads
    BY VersionsDiffer
  <2> QED
    BY <1>1, <1>3, <2>1, Zenon DEF Tears, Half
<1>4. CASE Effect(move, j)
  <2>1. /\ Absent \in Absent .. MaxVersions /\ Absent \in Payloads
        /\ j.new \in Absent .. MaxVersions /\ j.previous \in Absent .. MaxVersions
    BY VersionsDiffer DEF PluginJournals
  <2>2. NoJournal \in PluginJournals
    BY <2>1 DEF NoJournal, PluginJournals, JournalPhases
  <2>3. \A p \in JournalPhases : [j EXCEPT !.phase = p] \in PluginJournals
    BY DEF PluginJournals
  <2>4. journal' \in PluginJournals
    BY <1>1, <1>4, <2>2, <2>3, Zenon DEF Effect
  <2>5. target' \in Payloads /\ backup' \in Payloads /\ stage' \in Payloads
    BY <1>1, <1>4, <2>1, Zenon DEF Effect
  <2>6. registry' \in Absent .. MaxVersions
    BY <1>1, <1>4, <2>1, Zenon DEF Effect
  <2> QED
    BY <2>4, <2>5, <2>6
<1> QED
  BY <1>2, <1>3, <1>4 DEF Leaves

\* Every step of the process keeps the types.
LEMMA PluginTypes == PluginTypeOK /\ [PluginNext]_pluginVars => PluginTypeOK'
<1> SUFFICES ASSUME PluginTypeOK, [PluginNext]_pluginVars PROVE PluginTypeOK'
  OBVIOUS
<1>1. /\ target \in Payloads /\ backup \in Payloads /\ stage \in Payloads
      /\ registry \in Absent .. MaxVersions /\ journal \in PluginJournals /\ op \in PluginOps
      /\ staged \in 0 .. MaxVersions /\ faults \in 0 .. MaxFaults
      /\ torn \in BOOLEAN /\ again \in BOOLEAN /\ told \subseteq Payloads
  BY PluginTyped
<1>2. /\ op.mode \in {"idle", "do", "undo", "recover"} /\ op.plan \in Seq(PlanSteps)
      /\ op.journal \in PluginJournals /\ op.report \subseteq Payloads
      /\ op.journal.new \in Absent .. MaxVersions /\ op.journal.previous \in Absent .. MaxVersions
  BY <1>1 DEF PluginOps, PluginJournals
<1>3. IdleOp \in PluginOps /\ NoJournal \in PluginJournals
  <2>1. NoJournal \in PluginJournals
    BY VersionsDiffer DEF NoJournal, PluginJournals, JournalPhases
  <2> QED
    BY <2>1 DEF IdleOp, PluginOps
<1>4. ASSUME NEW plan, NEW j, Begins(plan, j), plan \in Seq(PlanSteps), j \in PluginJournals,
             staged' \in 0 .. MaxVersions, stage' \in Payloads
      PROVE  PluginTypeOK'
  <2>1. j.new \in Payloads
    BY <1>4, VersionsDiffer DEF PluginJournals
  <2>2. op' \in PluginOps
    BY <1>4, <2>1 DEF Begins, PluginOps
  <2>3. told' \subseteq Payloads
    BY <1>1, <1>4, <2>1 DEF Begins
  <2>4. faults' \in 0 .. MaxFaults
    BY <1>1, <1>4, PluginConstants DEF Begins
  <2>5. torn' \in BOOLEAN /\ again' \in BOOLEAN
    BY <1>4, Zenon DEF Begins
  <2>6. /\ target' = target /\ backup' = backup /\ registry' = registry /\ journal' = journal
    BY <1>4 DEF Begins
  <2> QED
    BY <1>1, <1>4, <2>2, <2>3, <2>4, <2>5, <2>6 DEF PluginTypeOK, PluginOps, PluginJournals
<1>5. CASE Install
  <2>1. staged + 1 \in Absent .. MaxVersions /\ staged + 1 \in 0 .. MaxVersions
    <3>1. staged < MaxVersions
      BY <1>5 DEF Install
    <3> QED
      BY <1>1, <3>1, PluginConstants DEF Absent
  <2>2. staged + 1 \in Payloads
    BY <2>1, VersionsDiffer
  <2> DEFINE j == [kind |-> "install", phase |-> "", previous |-> registry, new |-> staged + 1,
                   existed |-> target # Absent]
  <2>3. j \in PluginJournals
    BY <1>1, <2>1 DEF PluginJournals, JournalPhases
  <2>4. InstallPlan(target # Absent) \in Seq(PlanSteps)
    BY PlanTypes
  <2> QED
    BY <1>4, <1>5, <2>1, <2>2, <2>3, <2>4 DEF Install
<1>6. CASE Uninstall
  <2> DEFINE j == [kind |-> "uninstall", phase |-> "", previous |-> registry, new |-> Absent,
                   existed |-> TRUE]
  <2>1. j \in PluginJournals
    BY <1>1, VersionsDiffer DEF PluginJournals, JournalPhases
  <2> QED
    BY <1>1, <1>4, <1>6, <2>1, PlanTypes DEF Uninstall
<1>7. CASE Recover
  <2>1. op' \in PluginOps
    BY <1>1, <1>7, PlanTypes DEF Recover, PluginOps
  <2> QED
    BY <1>1, <1>7, <2>1 DEF Recover, PluginTypeOK, PluginOps, PluginJournals, pluginDisk
<1>8. CASE Does
  <2>1. Leaves(Head(op.plan), op.journal)
    BY <1>8 DEF Does, Leaves
  <2>2. Tail(op.plan) \in Seq(PlanSteps)
    BY <1>2, <1>8, HeadTailProperties DEF Does
  <2> DEFINE phase == IF Head(op.plan) \in JournalPhases /\ op.mode = "do"
                      THEN Head(op.plan) ELSE op.journal.phase
  <2>3. phase \in JournalPhases
    BY <1>2 DEF PluginJournals
  <2>4. op' = [op EXCEPT !.plan = Tail(op.plan), !.journal.phase = phase]
    BY <1>8 DEF Does
  <2> HIDE DEF phase
  <2>5. op' \in PluginOps
    BY <1>1, <2>2, <2>3, <2>4, JournalMoves DEF PluginOps
  <2>6. told' \subseteq Payloads
    BY <1>1, <1>2, <1>8 DEF Does
  <2>7. UNCHANGED <<staged, faults, torn, again>>
    BY <1>8 DEF Does
  <2> QED
    BY <1>1, <1>2, <2>1, <2>5, <2>6, <2>7, DiskTypes DEF PluginTypeOK, PluginOps, PluginJournals
<1>9. CASE OpEnds
  BY <1>1, <1>3, <1>9 DEF OpEnds, PluginTypeOK, PluginOps, PluginJournals, pluginDisk
<1>10. ASSUME Leaves(Head(op.plan), op.journal), faults < MaxFaults, faults' = faults + 1,
              op' \in PluginOps, torn' \in BOOLEAN, Interrupted, UNCHANGED <<staged, told>>
       PROVE  PluginTypeOK'
  <2>1. faults' \in 0 .. MaxFaults
    BY <1>1, <1>10, PluginConstants
  <2>2. again' \in BOOLEAN
    BY <1>10, Zenon DEF Interrupted
  <2> QED
    BY <1>1, <1>2, <1>10, <2>1, <2>2, DiskTypes DEF PluginTypeOK, PluginOps, PluginJournals
<1>11. CASE Raises
  <2>1. op' \in PluginOps
    <3> DEFINE told1 == IF Committed(op.journal, backup' # Absent) THEN op.journal.new
                        ELSE op.journal.previous
    <3>1. told1 \in Payloads
      BY <1>2, VersionsDiffer
    <3>2. RollbackPlan(op.journal, backup' # Absent) \in Seq(PlanSteps)
      BY PlanTypes
    <3>3. op' = IF op.mode = "do"
                THEN [mode |-> "undo", journal |-> op.journal,
                      plan |-> RollbackPlan(op.journal, backup' # Absent), report |-> {told1}]
                ELSE IdleOp
      BY <1>11 DEF Raises
    <3> HIDE DEF told1
    <3> QED
      BY <1>2, <1>3, <3>1, <3>2, <3>3 DEF PluginOps
  <2>2. torn' \in BOOLEAN
    BY <1>11, Zenon DEF Raises
  <2> QED
    BY <1>10, <1>11, <2>1, <2>2 DEF Raises, Leaves
<1>12. CASE Dies
  BY <1>1, <1>3, <1>10, <1>12 DEF Dies, Leaves
<1>13. CASE UNCHANGED pluginVars
  BY <1>1, <1>13 DEF pluginVars, pluginDisk, PluginTypeOK, PluginOps, PluginJournals
<1> QED
  BY <1>5, <1>6, <1>7, <1>8, <1>9, <1>11, <1>12, <1>13 DEF PluginNext, PluginStep

-----------------------------------------------------------------------------
(* A transaction that is under way.                                        *)

InstallNext(existed) ==
    {<<"prepared", IF existed THEN "move_to_backup" ELSE "publish">>,
     <<"move_to_backup", "backup_moved">>, <<"backup_moved", "publish">>,
     <<"publish", "target_published">>, <<"target_published", "register">>,
     <<"register", "state_written">>, <<"state_written", "remove_backup">>,
     <<"remove_backup", "unlink">>}

UninstallNext ==
    {<<"prepared", "move_to_backup">>, <<"move_to_backup", "backup_moved">>,
     <<"backup_moved", "unregister">>, <<"unregister", "state_removed">>,
     <<"state_removed", "remove_backup">>, <<"remove_backup", "unlink">>}

\* No plan of an install or an upgrade has a step twice: its head says what is left.
LEMMA InstallHeads ==
    Head(InstallPlan(TRUE)) = "prepared" /\ Head(InstallPlan(FALSE)) = "prepared"
<1>1. Head(<<"prepared", "move_to_backup", "backup_moved", "publish", "target_published",
             "register", "state_written", "remove_backup", "unlink">>) = "prepared"
  OBVIOUS
<1>2. Head(<<"prepared", "publish", "target_published", "register", "state_written",
             "remove_backup", "unlink">>) = "prepared"
  OBVIOUS
<1> QED
  BY <1>1, <1>2, InstallForm, Zenon

\* One step of a plan after the other.
LEMMA InstallMoves ==
    ASSUME NEW existed \in BOOLEAN, NEW plan \in InstallRests(existed)
    PROVE  /\ plan # <<>>
           /\ \/ Head(plan) = "unlink" /\ Tail(plan) = <<>>
              \/ /\ Tail(plan) \in InstallRests(existed)
                 /\ <<Head(plan), Head(Tail(plan))>> \in InstallNext(existed)
<1> DEFINE p1 == <<"move_to_backup", "backup_moved", "publish", "target_published", "register",
                   "state_written", "remove_backup", "unlink">>
           p2 == <<"backup_moved", "publish", "target_published", "register", "state_written",
                   "remove_backup", "unlink">>
           p3 == <<"publish", "target_published", "register", "state_written",
                   "remove_backup", "unlink">>
           p4 == <<"target_published", "register", "state_written", "remove_backup", "unlink">>
           p5 == <<"register", "state_written", "remove_backup", "unlink">>
           p6 == <<"state_written", "remove_backup", "unlink">>
           p7 == <<"remove_backup", "unlink">>
           p8 == <<"unlink">>
           t0 == InstallPlan(TRUE)  f0 == InstallPlan(FALSE)
<1>1. /\ t0 # <<>> /\ Head(t0) = "prepared" /\ Tail(t0) = p1
      /\ f0 # <<>> /\ Head(f0) = "prepared" /\ Tail(f0) = p3
  <2> DEFINE t == <<"prepared", "move_to_backup", "backup_moved", "publish",
                    "target_published", "register", "state_written", "remove_backup", "unlink">>
             f == <<"prepared", "publish", "target_published", "register", "state_written",
                    "remove_backup", "unlink">>
  <2>1. t # <<>> /\ Head(t) = "prepared" /\ Tail(t) = p1
    OBVIOUS
  <2>2. f # <<>> /\ Head(f) = "prepared" /\ Tail(f) = p3
    OBVIOUS
  <2>3. t0 = t /\ f0 = f
    BY InstallForm
  <2> QED
    BY ONLY <2>1, <2>2, <2>3, Zenon
<1>2. p1 # <<>> /\ Head(p1) = "move_to_backup" /\ Tail(p1) = p2
  OBVIOUS
<1>3. p2 # <<>> /\ Head(p2) = "backup_moved" /\ Tail(p2) = p3
  OBVIOUS
<1>4. p3 # <<>> /\ Head(p3) = "publish" /\ Tail(p3) = p4
  OBVIOUS
<1>5. p4 # <<>> /\ Head(p4) = "target_published" /\ Tail(p4) = p5
  OBVIOUS
<1>6. p5 # <<>> /\ Head(p5) = "register" /\ Tail(p5) = p6
  OBVIOUS
<1>7. p6 # <<>> /\ Head(p6) = "state_written" /\ Tail(p6) = p7
  OBVIOUS
<1>8. p7 # <<>> /\ Head(p7) = "remove_backup" /\ Tail(p7) = p8
  OBVIOUS
<1>9. p8 # <<>> /\ Head(p8) = "unlink" /\ Tail(p8) = <<>>
  OBVIOUS
<1>10. InstallRests(existed) = {InstallPlan(existed), p1, p2, p3, p4, p5, p6, p7, p8}
  BY Zenon DEF InstallRests
<1> HIDE DEF p1, p2, p3, p4, p5, p6, p7, p8, t0, f0
<1>11. CASE plan = InstallPlan(existed)
  <2>1. \/ existed /\ plan = t0
        \/ ~existed /\ plan = f0
    BY <1>11 DEF t0, f0
  <2> QED
    BY <1>1, <1>2, <1>4, <1>10, <2>1 DEF InstallNext
<1>12. CASE plan = p1
  BY <1>2, <1>3, <1>10, <1>12 DEF InstallNext
<1>13. CASE plan = p2
  BY <1>3, <1>4, <1>10, <1>13 DEF InstallNext
<1>14. CASE plan = p3
  BY <1>4, <1>5, <1>10, <1>14 DEF InstallNext
<1>15. CASE plan = p4
  BY <1>5, <1>6, <1>10, <1>15 DEF InstallNext
<1>16. CASE plan \in {p5, p6, p7, p8}
  BY <1>6, <1>7, <1>8, <1>9, <1>10, <1>16 DEF InstallNext
<1> QED
  BY <1>10, <1>11, <1>12, <1>13, <1>14, <1>15, <1>16

\* After a step of an uninstall, the disk is as the next step expects it.
LEMMA UninstallMoves ==
    ASSUME NEW plan \in UninstallRests
    PROVE  /\ plan # <<>>
           /\ \/ Head(plan) = "unlink" /\ Tail(plan) = <<>>
              \/ /\ Tail(plan) \in UninstallRests
                 /\ <<Head(plan), Head(Tail(plan))>> \in UninstallNext
<1> DEFINE p1 == <<"move_to_backup", "backup_moved", "unregister", "state_removed",
                   "remove_backup", "unlink">>
           p2 == <<"backup_moved", "unregister", "state_removed", "remove_backup", "unlink">>
           p3 == <<"unregister", "state_removed", "remove_backup", "unlink">>
           p4 == <<"state_removed", "remove_backup", "unlink">>
           p5 == <<"remove_backup", "unlink">>
           p6 == <<"unlink">>
           p0 == UninstallPlan
<1>1. p0 # <<>> /\ Head(p0) = "prepared" /\ Tail(p0) = p1
  BY DEF UninstallPlan
<1>2. p1 # <<>> /\ Head(p1) = "move_to_backup" /\ Tail(p1) = p2
  OBVIOUS
<1>3. p2 # <<>> /\ Head(p2) = "backup_moved" /\ Tail(p2) = p3
  OBVIOUS
<1>4. p3 # <<>> /\ Head(p3) = "unregister" /\ Tail(p3) = p4
  OBVIOUS
<1>5. p4 # <<>> /\ Head(p4) = "state_removed" /\ Tail(p4) = p5
  OBVIOUS
<1>6. p5 # <<>> /\ Head(p5) = "remove_backup" /\ Tail(p5) = p6
  OBVIOUS
<1>7. p6 # <<>> /\ Head(p6) = "unlink" /\ Tail(p6) = <<>>
  OBVIOUS
<1>8. UninstallRests = {p0, p1, p2, p3, p4, p5, p6}
  BY Zenon DEF UninstallRests
<1> HIDE DEF p0, p1, p2, p3, p4, p5, p6
<1>9. CASE plan \in {p0, p1, p2}
  BY <1>1, <1>2, <1>3, <1>4, <1>8, <1>9 DEF UninstallNext
<1>10. CASE plan \in {p3, p4, p5, p6}
  BY <1>4, <1>5, <1>6, <1>7, <1>8, <1>10 DEF UninstallNext
<1> QED
  BY <1>8, <1>9, <1>10

\* The handler of an exception can undo, or keep, what the transaction did.
Reversible(j) ==
    \/ Committed(j, backup # Absent) /\ backup = Absent /\ target = j.new /\ registry = j.new
    \/ /\ ~Committed(j, backup # Absent)
       /\ \/ backup # Absent /\ backup = j.previous
          \/ backup = Absent /\ RemovesTarget(j) /\ j.previous = Absent
          \/ backup = Absent /\ ~RemovesTarget(j) /\ target = j.previous

\* An empty journal is of no kind.
LEMMA NoJournalKind == NoJournal.kind = "none"
  BY DEF NoJournal

\* Wherever an install breaks off, what it leaves can be recovered and undone.
LEMMA InstallLeaves ==
    ASSUME PluginTypeOK, Installing, NEW move, InstallAt(move), NEW j, j = op.journal,
           journal = IF j.phase = "" THEN NoJournal ELSE j,
           Leaves(move, j), told' = told
    PROVE  Durable' /\ (backup' = Torn \/ Reversible(j)')
<1> DEFINE v == j.previous  n == j.new  k == [j EXCEPT !.phase = move]
<1>1. /\ j \in PluginJournals /\ v \in Absent .. MaxVersions /\ n \in Absent .. MaxVersions
      /\ j.kind = "install" /\ n # Absent /\ (j.existed <=> v # Absent) /\ told = {v, n}
      /\ j.phase \in JournalPhases
  BY PluginTyped DEF PluginOps, PluginJournals, Installing
<1>2. /\ k.phase = move /\ k.kind = "install" /\ k.previous = v /\ k.new = n
      /\ (k.existed <=> v # Absent) /\ k # NoJournal /\ j # NoJournal
  <2>1. j.kind \in {"install", "uninstall"}
    BY <1>1
  <2>2. /\ k.phase = move /\ k.kind = j.kind /\ k.previous = j.previous /\ k.new = j.new
        /\ k.existed = j.existed
    <3>1. j \in PluginJournals
      BY <1>1
    <3> QED
      BY ONLY <3>1 DEF PluginJournals
  <2> HIDE DEF k
  <2>3. j # NoJournal /\ k # NoJournal
    <3>1. k.kind \in {"install", "uninstall"}
      BY <2>1, <2>2, Zenon
    <3>2. k # NoJournal
      BY <3>1, NoJournalKind
    <3>3. j # NoJournal
      BY <2>1, NoJournalKind
    <3> QED
      BY <3>2, <3>3
  <2> QED
    BY <1>1, <2>2, <2>3
<1>3. v # Torn /\ n # Torn /\ Absent # Torn
  BY <1>1, VersionsDiffer
<1>4. told' = {v, n}
  BY <1>1
<1> HIDE DEF k
<1>5. ASSUME journal' = NoJournal, target' = registry', target' \in {v, n}, backup' = Absent
      PROVE  Durable'
  BY <1>3, <1>4, <1>5 DEF Durable, Agrees
<1>6. ASSUME journal' \in {j, k}, NEW phase, phase = journal'.phase,
             \/ phase = "prepared" /\ target' = v /\ backup' = Absent
             \/ phase = "prepared" /\ target' = Absent /\ backup' = v
             \/ phase = "prepared" /\ v = Absent /\ backup' = Absent
             \/ phase = "backup_moved" /\ backup' = v
             \/ phase = "target_published" /\ target' = n /\ backup' = v
             \/ phase = "state_written" /\ target' = n
      PROVE  Durable'
  <2>1. /\ journal' # NoJournal /\ journal'.previous = v /\ journal'.new = n
        /\ journal'.kind = "install" /\ (journal'.existed <=> v # Absent)
    BY <1>1, <1>2, <1>6
  <2>2. Recoverable'
    BY <1>1, <1>4, <1>6, <2>1 DEF Recoverable
  <2> QED
    BY <2>1, <2>2 DEF Durable
<1>7. CASE move = "prepared"
  <2>1. j.phase = "" /\ target = v /\ backup = Absent /\ registry = v /\ journal = NoJournal
    BY <1>7 DEF InstallAt
  <2>2. UNCHANGED <<target, backup, registry>> /\ journal' \in {NoJournal, k}
    BY <1>7, <2>1 DEF Leaves, Effect, Tears, Half, pluginDisk, JournalPhases, k
  <2>3. Durable'
    BY <1>1, <1>2, <1>5, <1>6, <1>7, <2>1, <2>2
  <2>4. backup' = Torn \/ Reversible(j)'
    BY <1>1, <2>1, <2>2 DEF Reversible, Committed, RemovesTarget, JournalPhases
  <2> QED
    BY <2>3, <2>4
<1>8. CASE move = "move_to_backup"
  <2>1. j.phase = "prepared" /\ v # Absent /\ target = v /\ backup = Absent /\ journal = j
    BY <1>8 DEF InstallAt
  <2>2. /\ journal' = j
        /\ \/ target' = v /\ backup' = Absent
           \/ target' = Absent /\ backup' = v
    BY <1>8, <2>1 DEF Leaves, Effect, Tears, Half, pluginDisk, JournalPhases, k
  <2>3. Durable'
    BY <1>1, <1>2, <1>5, <1>6, <1>8, <2>1, <2>2
  <2>4. backup' = Torn \/ Reversible(j)'
    BY <1>1, <2>1, <2>2 DEF Reversible, Committed, RemovesTarget, JournalPhases
  <2> QED
    BY <2>3, <2>4
<1>9. CASE move = "backup_moved"
  <2>1. j.phase = "prepared" /\ v # Absent /\ target = Absent /\ backup = v /\ journal = j
    BY <1>9 DEF InstallAt
  <2>2. journal' \in {j, k} /\ target' = Absent /\ backup' = v
    BY <1>9, <2>1 DEF Leaves, Effect, Tears, Half, pluginDisk, JournalPhases, k
  <2>3. Durable'
    BY <1>1, <1>2, <1>5, <1>6, <1>9, <2>1, <2>2
  <2>4. backup' = Torn \/ Reversible(j)'
    BY <1>1, <2>1, <2>2 DEF Reversible, Committed, RemovesTarget, JournalPhases
  <2> QED
    BY <2>3, <2>4
<1>10. CASE move = "publish"
  <2>1. /\ j.phase = (IF v # Absent THEN "backup_moved" ELSE "prepared")
        /\ target = Absent /\ backup = v /\ stage = n /\ journal = j
    BY <1>10 DEF InstallAt
  <2>2. journal' = j /\ target' \in {Absent, n} /\ backup' = v
    BY <1>10, <2>1 DEF Leaves, Effect, Tears, Half, pluginDisk, JournalPhases, k
  <2>3. Durable'
    BY <1>1, <1>2, <1>5, <1>6, <1>10, <2>1, <2>2
  <2>4. backup' = Torn \/ Reversible(j)'
    BY <1>1, <2>1, <2>2 DEF Reversible, Committed, RemovesTarget, JournalPhases
  <2> QED
    BY <2>3, <2>4
<1>11. CASE move = "target_published"
  <2>1. /\ j.phase = (IF v # Absent THEN "backup_moved" ELSE "prepared")
        /\ target = n /\ backup = v /\ journal = j
    BY <1>11 DEF InstallAt
  <2>2. journal' \in {j, k} /\ target' = n /\ backup' = v
    BY <1>11, <2>1 DEF Leaves, Effect, Tears, Half, pluginDisk, JournalPhases, k
  <2>3. Durable'
    BY <1>1, <1>2, <1>5, <1>6, <1>11, <2>1, <2>2
  <2>4. backup' = Torn \/ Reversible(j)'
    BY <1>1, <2>1, <2>2 DEF Reversible, Committed, RemovesTarget, JournalPhases
  <2> QED
    BY <2>3, <2>4
<1>12. CASE move = "register"
  <2>1. j.phase = "target_published" /\ target = n /\ backup = v /\ journal = j
    BY <1>12 DEF InstallAt
  <2>2. journal' = j /\ target' = n /\ backup' = v
    BY <1>12, <2>1 DEF Leaves, Effect, Tears, Half, pluginDisk, JournalPhases, k
  <2>3. Durable'
    BY <1>1, <1>2, <1>5, <1>6, <1>12, <2>1, <2>2
  <2>4. backup' = Torn \/ Reversible(j)'
    BY <1>1, <2>1, <2>2 DEF Reversible, Committed, RemovesTarget, JournalPhases
  <2> QED
    BY <2>3, <2>4
<1>13. CASE move = "state_written"
  <2>1. j.phase = "target_published" /\ target = n /\ backup = v /\ registry = n /\ journal = j
    BY <1>13 DEF InstallAt
  <2>2. journal' \in {j, k} /\ target' = n /\ backup' = v
    BY <1>13, <2>1 DEF Leaves, Effect, Tears, Half, pluginDisk, JournalPhases, k
  <2>3. Durable'
    BY <1>1, <1>2, <1>5, <1>6, <1>13, <2>1, <2>2
  <2>4. backup' = Torn \/ Reversible(j)'
    BY <1>1, <2>1, <2>2 DEF Reversible, Committed, RemovesTarget, JournalPhases
  <2> QED
    BY <2>3, <2>4
<1>14. CASE move = "remove_backup"
  <2>1. j.phase = "state_written" /\ target = n /\ backup = v /\ registry = n /\ journal = j
    BY <1>14 DEF InstallAt
  <2>2. /\ journal' = j /\ target' = n /\ registry' = n
        /\ backup' \in {v, Absent, Torn}
    BY <1>14, <2>1 DEF Leaves, Effect, Tears, Half, pluginDisk, JournalPhases, k
  <2>3. Durable'
    BY <1>1, <1>2, <1>5, <1>6, <1>14, <2>1, <2>2
  <2>4. backup' = Torn \/ Reversible(j)'
    BY <1>1, <2>1, <2>2 DEF Reversible, Committed, RemovesTarget, JournalPhases
  <2> QED
    BY <2>3, <2>4
<1>15. CASE move = "unlink"
  <2>1. j.phase = "state_written" /\ target = n /\ backup = Absent /\ registry = n /\ journal = j
    BY <1>15 DEF InstallAt
  <2>2. journal' \in {j, NoJournal} /\ target' = n /\ backup' = Absent /\ registry' = n
    BY <1>15, <2>1 DEF Leaves, Effect, Tears, Half, pluginDisk, JournalPhases, k
  <2>3. Durable'
    BY <1>1, <1>2, <1>5, <1>6, <1>15, <2>1, <2>2
  <2>4. backup' = Torn \/ Reversible(j)'
    BY <1>1, <2>1, <2>2 DEF Reversible, Committed, RemovesTarget, JournalPhases
  <2> QED
    BY <2>3, <2>4
<1> QED
  BY <1>7, <1>8, <1>9, <1>10, <1>11, <1>12, <1>13, <1>14, <1>15 DEF InstallAt

\* Wherever an uninstall breaks off, what it leaves can be recovered and undone.
LEMMA UninstallLeaves ==
    ASSUME PluginTypeOK, Uninstalling, NEW move, UninstallAt(move), NEW j, j = op.journal,
           journal = IF j.phase = "" THEN NoJournal ELSE j,
           Leaves(move, j), told' = told
    PROVE  /\ Durable' /\ (backup' = Torn \/ Reversible(j)')
           /\ journal' # NoJournal => journal'.kind = "uninstall" /\ journal'.previous = j.previous
<1> DEFINE v == j.previous  k == [j EXCEPT !.phase = move]
<1>1. /\ j \in PluginJournals /\ v \in Absent .. MaxVersions /\ v # Absent
      /\ j.kind = "uninstall" /\ j.new = Absent /\ told = {v, Absent}
      /\ j.phase \in JournalPhases
  BY PluginTyped DEF PluginOps, PluginJournals, Uninstalling
<1>2. /\ k.phase = move /\ k.kind = "uninstall" /\ k.previous = v /\ k.new = Absent
      /\ k # NoJournal /\ j # NoJournal
  <2>1. /\ k.phase = move /\ k.kind = j.kind /\ k.previous = j.previous /\ k.new = j.new
    <3>1. j \in PluginJournals
      BY <1>1
    <3> QED
      BY ONLY <3>1 DEF PluginJournals
  <2> HIDE DEF k
  <2>2. k.kind = "uninstall" /\ j.kind = "uninstall"
    BY <1>1, <2>1, Zenon
  <2>3. k # NoJournal
    BY <2>2, NoJournalKind
  <2>4. j # NoJournal
    BY <2>2, NoJournalKind
  <2> QED
    BY <1>1, <2>1, <2>3, <2>4
<1>3. v # Torn /\ Absent # Torn
  BY <1>1, VersionsDiffer
<1>4. told' = {v, Absent}
  BY <1>1
<1> HIDE DEF k
<1>5. ASSUME journal' = NoJournal, target' = registry', target' \in {v, Absent}, backup' = Absent
      PROVE  Durable'
  BY <1>3, <1>4, <1>5 DEF Durable, Agrees
<1>6. ASSUME journal' \in {j, k}, NEW phase, phase = journal'.phase,
             \/ phase \in {"prepared", "backup_moved"} /\ target' = v /\ backup' = Absent
             \/ phase \in {"prepared", "backup_moved"} /\ target' = Absent /\ backup' = v
             \/ phase = "state_removed"
      PROVE  Durable'
  <2>1. /\ journal' # NoJournal /\ journal'.previous = v /\ journal'.new = Absent
        /\ journal'.kind = "uninstall"
    BY <1>1, <1>2, <1>6
  <2>2. Recoverable'
    BY <1>1, <1>4, <1>6, <2>1 DEF Recoverable
  <2> QED
    BY <2>1, <2>2 DEF Durable
<1>7. ASSUME journal' \in {NoJournal, j, k}
      PROVE  journal' # NoJournal => journal'.kind = "uninstall" /\ journal'.previous = v
  BY <1>1, <1>2, <1>7
<1>8. CASE move = "prepared"
  <2>1. j.phase = "" /\ target = v /\ backup = Absent /\ registry = v /\ journal = NoJournal
    BY <1>8 DEF UninstallAt
  <2>2. UNCHANGED <<target, backup, registry>> /\ journal' \in {NoJournal, k}
    BY <1>8, <2>1 DEF Leaves, Effect, Tears, Half, pluginDisk, JournalPhases, k
  <2>3. Durable'
    BY <1>1, <1>2, <1>5, <1>6, <1>8, <2>1, <2>2
  <2>4. backup' = Torn \/ Reversible(j)'
    BY <1>1, <2>1, <2>2 DEF Reversible, Committed, RemovesTarget, JournalPhases
  <2> QED
    BY <1>7, <2>2, <2>3, <2>4
<1>9. CASE move = "move_to_backup"
  <2>1. j.phase = "prepared" /\ target = v /\ backup = Absent /\ journal = j
    BY <1>9 DEF UninstallAt
  <2>2. /\ journal' = j
        /\ \/ target' = v /\ backup' = Absent
           \/ target' = Absent /\ backup' = v
    BY <1>9, <2>1 DEF Leaves, Effect, Tears, Half, pluginDisk, JournalPhases, k
  <2>3. Durable'
    BY <1>1, <1>2, <1>5, <1>6, <1>9, <2>1, <2>2
  <2>4. backup' = Torn \/ Reversible(j)'
    BY <1>1, <2>1, <2>2 DEF Reversible, Committed, RemovesTarget, JournalPhases
  <2> QED
    BY <1>7, <2>2, <2>3, <2>4
<1>10. CASE move = "backup_moved"
  <2>1. j.phase = "prepared" /\ target = Absent /\ backup = v /\ journal = j
    BY <1>10 DEF UninstallAt
  <2>2. journal' \in {j, k} /\ target' = Absent /\ backup' = v
    BY <1>10, <2>1 DEF Leaves, Effect, Tears, Half, pluginDisk, JournalPhases, k
  <2>3. Durable'
    BY <1>1, <1>2, <1>5, <1>6, <1>10, <2>1, <2>2
  <2>4. backup' = Torn \/ Reversible(j)'
    BY <1>1, <2>1, <2>2 DEF Reversible, Committed, RemovesTarget, JournalPhases
  <2> QED
    BY <1>7, <2>2, <2>3, <2>4
<1>11. CASE move = "unregister"
  <2>1. j.phase = "backup_moved" /\ target = Absent /\ backup = v /\ journal = j
    BY <1>11 DEF UninstallAt
  <2>2. journal' = j /\ target' = Absent /\ backup' = v
    BY <1>11, <2>1 DEF Leaves, Effect, Tears, Half, pluginDisk, JournalPhases, k
  <2>3. Durable'
    BY <1>1, <1>2, <1>5, <1>6, <1>11, <2>1, <2>2
  <2>4. backup' = Torn \/ Reversible(j)'
    BY <1>1, <2>1, <2>2 DEF Reversible, Committed, RemovesTarget, JournalPhases
  <2> QED
    BY <1>7, <2>2, <2>3, <2>4
<1>12. CASE move = "state_removed"
  <2>1. j.phase = "backup_moved" /\ target = Absent /\ backup = v /\ journal = j
    BY <1>12 DEF UninstallAt
  <2>2. journal' \in {j, k} /\ target' = Absent /\ backup' = v
    BY <1>12, <2>1 DEF Leaves, Effect, Tears, Half, pluginDisk, JournalPhases, k
  <2>3. Durable'
    BY <1>1, <1>2, <1>5, <1>6, <1>12, <2>1, <2>2
  <2>4. backup' = Torn \/ Reversible(j)'
    BY <1>1, <2>1, <2>2 DEF Reversible, Committed, RemovesTarget, JournalPhases
  <2> QED
    BY <1>7, <2>2, <2>3, <2>4
<1>13. CASE move = "remove_backup"
  <2>1. /\ j.phase = "state_removed" /\ target = Absent /\ backup = v /\ registry = Absent
        /\ journal = j
    BY <1>13 DEF UninstallAt
  <2>2. /\ journal' = j /\ target' = Absent /\ registry' = Absent
        /\ backup' \in {v, Absent, Torn}
    BY <1>13, <2>1 DEF Leaves, Effect, Tears, Half, pluginDisk, JournalPhases, k
  <2>3. Durable'
    BY <1>1, <1>2, <1>5, <1>6, <1>13, <2>1, <2>2
  <2>4. backup' = Torn \/ Reversible(j)'
    BY <1>1, <2>1, <2>2 DEF Reversible, Committed, RemovesTarget, JournalPhases
  <2> QED
    BY <1>7, <2>2, <2>3, <2>4
<1>14. CASE move = "unlink"
  <2>1. /\ j.phase = "state_removed" /\ target = Absent /\ backup = Absent
        /\ registry = Absent /\ journal = j
    BY <1>14 DEF UninstallAt
  <2>2. /\ journal' \in {j, NoJournal}
        /\ target' = Absent /\ backup' = Absent /\ registry' = Absent
    BY <1>14, <2>1 DEF Leaves, Effect, Tears, Half, pluginDisk, JournalPhases, k
  <2>3. Durable'
    BY <1>1, <1>2, <1>5, <1>6, <1>14, <2>1, <2>2
  <2>4. backup' = Torn \/ Reversible(j)'
    BY <1>1, <2>1, <2>2 DEF Reversible, Committed, RemovesTarget, JournalPhases
  <2> QED
    BY <1>7, <2>2, <2>3, <2>4
<1> QED
  BY <1>8, <1>9, <1>10, <1>11, <1>12, <1>13, <1>14 DEF UninstallAt

\* How the last steps of an undoing or a recovery follow each other.
LEMMA EndHeads ==
    /\ \A end \in RecoveryEnds : Head(end) \in {"remove_backup", "remove_stage"}
    /\ \A end \in UndoEnds : Head(end) = "unlink"
    /\ \A end \in PlanEnds : end # <<>>
<1>1. Head(<<"remove_backup", "unlink">>) = "remove_backup" /\ <<"remove_backup", "unlink">> # <<>>
  OBVIOUS
<1>2. /\ Head(<<"remove_stage", "remove_backup", "unlink">>) = "remove_stage"
      /\ <<"remove_stage", "remove_backup", "unlink">> # <<>>
  OBVIOUS
<1>3. Head(<<"unlink">>) = "unlink" /\ <<"unlink">> # <<>>
  OBVIOUS
<1>4. Head(<<"unlink", "remove_stage">>) = "unlink" /\ <<"unlink", "remove_stage">> # <<>>
  OBVIOUS
<1> QED
  BY <1>1, <1>2, <1>3, <1>4, Zenon DEF RecoveryEnds, UndoEnds, PlanEnds

\* Whatever step raised, what the handler then does ends in agreement.
LEMMA RollbackPromises ==
    ASSUME NEW j, Reversible(j)', op'.journal = j,
           op'.plan = RollbackPlan(j, backup' # Absent),
           op'.report = {IF Committed(j, backup' # Absent) THEN j.new ELSE j.previous}
    PROVE  /\ Promise'
           /\ op'.plan \in RecoveryEnds => backup' = Absent
<1>1. CASE Committed(j, backup' # Absent)
  <2>1. RollbackPlan(j, backup' # Absent) = <<"unlink">>
    BY <1>1 DEF RollbackPlan
  <2>2. backup' = Absent /\ target' = j.new /\ registry' = j.new
    BY <1>1 DEF Reversible
  <2>3. <<"unlink">> \in UndoEnds
    BY DEF UndoEnds
  <2>4. op'.report = {j.new}
    BY <1>1
  <2> QED
    BY <2>1, <2>2, <2>3, <2>4 DEF Promise
<1>2. CASE ~Committed(j, backup' # Absent)
  <2>1. PICK end \in UndoEnds : op'.plan = PutBack(j, backup' # Absent) \o end
    BY <1>2, RollbackForm
  <2>2. end \in PlanEnds
    BY <2>1 DEF PlanEnds
  <2>3. op'.plan = IF backup' # Absent
                   THEN IF RemovesTarget(j) THEN Clears(end) ELSE Supplants(end)
                   ELSE IF RemovesTarget(j) THEN Empties(end) ELSE Resets(end)
    BY <2>1, <2>2, PutBackForm
  <2>4. /\ op'.report = {j.previous}
        /\ \/ backup' # Absent /\ backup' = j.previous
           \/ backup' = Absent /\ RemovesTarget(j) /\ j.previous = Absent
           \/ backup' = Absent /\ ~RemovesTarget(j) /\ target' = j.previous
    BY <1>2 DEF Reversible
  <2>5. CASE backup' # Absent
    <3>1. op'.plan \in {Clears(end), Supplants(end)} /\ backup' = j.previous
      BY <2>3, <2>4, <2>5
    <3>2. Promise'
      BY <2>2, <2>4, <3>1 DEF Promise
    <3>3. Head(op'.plan) = "remove_target"
      BY <2>2, <3>1, PutBackFacts
    <3>4. op'.plan \notin RecoveryEnds
      BY <3>3, EndHeads
    <3> QED
      BY <3>2, <3>4
  <2>6. CASE backup' = Absent /\ RemovesTarget(j)
    BY <2>2, <2>3, <2>4, <2>6 DEF Promise
  <2>7. CASE backup' = Absent /\ ~RemovesTarget(j)
    BY <2>2, <2>3, <2>4, <2>7 DEF Promise
  <2> QED
    BY <2>5, <2>6, <2>7
<1> QED
  BY <1>1, <1>2

\* When a step of an operation raises, the handler that takes over keeps its promise.
LEMMA DoingRaises ==
    ASSUME PluginTypeOK, op.mode = "do", Doing, Raises
    PROVE  /\ op'.mode = "undo" /\ op'.journal.kind \in {"install", "uninstall"}
           /\ torn' \/ (Promise' /\ Resumable')
<1> DEFINE move == Head(op.plan)  j == op.journal
<1>1. /\ op.plan # <<>> /\ Leaves(move, j) /\ told' = told
      /\ op' = [mode |-> "undo", journal |-> j, plan |-> RollbackPlan(j, backup' # Absent),
                report |-> {IF Committed(j, backup' # Absent) THEN j.new ELSE j.previous}]
      /\ torn' = (torn \/ backup' = Torn)
  BY DEF Raises, Leaves
<1>2. /\ \/ Installing /\ InstallAt(move)
         \/ Uninstalling /\ UninstallAt(move)
      /\ journal = IF j.phase = "" THEN NoJournal ELSE j
  BY <1>1 DEF Doing
<1>3. op'.mode = "undo" /\ op'.journal.kind \in {"install", "uninstall"}
  BY <1>1, <1>2 DEF Installing, Uninstalling
<1>4. CASE backup' = Torn
  BY <1>3, <1>1, <1>4
<1>5. CASE backup' # Torn
  <2>1. PICK d : d = j
    OBVIOUS
  <2>2. PICK s : s = move
    OBVIOUS
  <2>3. /\ Reversible(d)' /\ Durable'
        /\ Uninstalling => (journal' # NoJournal => /\ journal'.kind = "uninstall"
                                                    /\ journal'.previous = d.previous)
    <3>1. CASE Installing /\ InstallAt(move)
      <4>1. ~Uninstalling
        BY <3>1 DEF Installing, Uninstalling
      <4> HIDE DEF move, j
      <4> QED
        BY <1>1, <1>2, <1>5, <2>1, <2>2, <3>1, <4>1, InstallLeaves DEF j
    <3>2. CASE Uninstalling /\ UninstallAt(move)
      BY <1>1, <1>2, <1>5, <2>1, <2>2, <3>2, UninstallLeaves
    <3> QED
      BY <1>2, <3>1, <3>2
  <2>4. /\ op'.journal = d /\ op'.plan = RollbackPlan(d, backup' # Absent) /\ op'.mode = "undo"
        /\ op'.report = {IF Committed(d, backup' # Absent) THEN d.new ELSE d.previous}
    BY <1>1, <2>1
  <2>5. Promise' /\ (op'.plan \in RecoveryEnds => backup' = Absent)
    BY <2>3, <2>4, RollbackPromises
  <2>6. Resumable'
    <3>1. CASE d.kind = "uninstall"
      <4>1. Uninstalling
        BY <1>2, <2>1, <3>1 DEF Installing
      <4>2. d.previous # Absent /\ told = {d.previous, d.new}
        BY <2>1, <4>1 DEF Uninstalling
      <4>3. op'.report \subseteq told'
        BY <1>1, <2>4, <4>2
      <4> QED
        BY <2>3, <2>4, <2>5, <4>1, <4>2, <4>3 DEF Resumable
    <3>2. CASE d.kind # "uninstall"
      BY <2>4, <3>2 DEF Resumable
    <3> QED
      BY <3>1, <3>2
  <2> QED
    BY <1>3, <2>4, <2>5, <2>6
<1> QED
  BY <1>4, <1>5

\* When the process dies in an operation, the next one can recover.
LEMMA DoingDies ==
    ASSUME PluginTypeOK, op.mode = "do", Doing, Dies
    PROVE  Durable'
<1> DEFINE move == Head(op.plan)  j == op.journal
<1>1. op.plan # <<>> /\ Leaves(move, j) /\ told' = told
  BY DEF Dies, Leaves
<1>2. /\ \/ Installing /\ InstallAt(move)
         \/ Uninstalling /\ UninstallAt(move)
      /\ journal = IF j.phase = "" THEN NoJournal ELSE j
  BY <1>1 DEF Doing
<1>3. PICK d : d = j
  OBVIOUS
<1>4. PICK s : s = move
  OBVIOUS
<1> HIDE DEF move, j
<1>5. CASE Installing /\ InstallAt(move)
  BY <1>1, <1>2, <1>3, <1>4, <1>5, InstallLeaves DEF j
<1>6. CASE Uninstalling /\ UninstallAt(move)
  BY <1>1, <1>2, <1>3, <1>4, <1>6, UninstallLeaves DEF j
<1> QED
  BY <1>2, <1>5, <1>6

\* What a step does to the operation in memory.
LEMMA DoneOp ==
    ASSUME PluginTypeOK, op.mode = "do", Does, NEW move, move = Head(op.plan)
    PROVE  /\ op'.mode = "do" /\ op'.plan = Tail(op.plan) /\ op'.report = op.report
           /\ op'.journal.kind = op.journal.kind /\ op'.journal.previous = op.journal.previous
           /\ op'.journal.new = op.journal.new /\ op'.journal.existed = op.journal.existed
           /\ op'.journal.phase = IF move \in JournalPhases THEN move ELSE op.journal.phase
           /\ op'.journal = IF move \in JournalPhases THEN [op.journal EXCEPT !.phase = move]
                            ELSE op.journal
<1>1. op \in PluginOps /\ op.journal \in PluginJournals
  BY PluginTyped DEF PluginOps
<1> DEFINE phase == IF move \in JournalPhases THEN move ELSE op.journal.phase
<1>2. op' = [op EXCEPT !.plan = Tail(op.plan), !.journal.phase = phase]
  BY DEF Does
<1> HIDE DEF phase
<1>3. op'.journal = [op.journal EXCEPT !.phase = phase]
  BY <1>1, <1>2 DEF PluginOps
<1>4. [op.journal EXCEPT !.phase = op.journal.phase] = op.journal
  BY <1>1 DEF PluginJournals
<1>5. op'.mode = "do" /\ op'.plan = Tail(op.plan) /\ op'.report = op.report
  BY <1>1, <1>2 DEF PluginOps
<1>6. /\ op'.journal.kind = op.journal.kind /\ op'.journal.previous = op.journal.previous
      /\ op'.journal.new = op.journal.new /\ op'.journal.existed = op.journal.existed
      /\ op'.journal.phase = phase
  BY <1>1, <1>3 DEF PluginJournals
<1> QED
  BY <1>3, <1>4, <1>5, <1>6 DEF phase

\* A step of an install that succeeds leaves it under way.
LEMMA InstallDoes ==
    ASSUME PluginTypeOK, op.mode = "do", Installing, Does, InstallAt(Head(op.plan)),
           op.plan \in InstallRests(op.journal.previous # Absent),
           journal = IF op.journal.phase = "" THEN NoJournal ELSE op.journal
    PROVE  Doing'
<1> DEFINE j == op.journal  v == j.previous  n == j.new
<1>1. PICK move : move = Head(op.plan)
  OBVIOUS
<1>2. PICK following : following = Head(Tail(op.plan))
  OBVIOUS
<1>3. /\ op'.mode = "do" /\ op'.plan = Tail(op.plan) /\ op'.report = op.report
      /\ op'.journal.kind = j.kind /\ op'.journal.previous = v /\ op'.journal.new = n
      /\ op'.journal.existed = j.existed
      /\ op'.journal.phase = IF move \in JournalPhases THEN move ELSE j.phase
      /\ op'.journal = IF move \in JournalPhases THEN [j EXCEPT !.phase = move] ELSE j
  BY <1>1, DoneOp
<1>4. Effect(move, j) /\ told' = IF move = "unlink" THEN op.report ELSE told
  BY <1>1 DEF Does
<1>5. InstallAt(move)
  BY <1>1
<1>6. /\ \/ move = "unlink" /\ Tail(op.plan) = <<>>
         \/ /\ Tail(op.plan) \in InstallRests(v # Absent)
            /\ <<move, following>> \in InstallNext(v # Absent)
  BY <1>1, <1>2, InstallMoves
<1>7. v # Torn /\ n # Torn /\ Absent # Torn
  BY PluginTyped, VersionsDiffer DEF PluginOps, PluginJournals
<1>8. j.kind = "install" /\ n # Absent /\ (j.existed <=> v # Absent) /\ told = {v, n}
      /\ op.report = {n}
  BY DEF Installing
<1>9. CASE move = "unlink" /\ Tail(op.plan) = <<>>
  <2>1. target = n /\ backup = Absent /\ registry = n
    BY <1>5, <1>9 DEF InstallAt
  <2>2. target' = n /\ backup' = Absent /\ registry' = n /\ journal' = NoJournal
    BY <1>4, <1>9, <2>1 DEF Effect, JournalPhases
  <2>3. Agrees'
    BY <1>4, <1>7, <1>8, <1>9, <2>2 DEF Agrees
  <2> QED
    BY <1>3, <1>9, <2>2, <2>3 DEF Doing
<1>10. CASE /\ Tail(op.plan) \in InstallRests(v # Absent)
            /\ <<move, following>> \in InstallNext(v # Absent)
  <2>1. \/ move = "prepared" /\ following = IF v # Absent THEN "move_to_backup" ELSE "publish"
        \/ move = "move_to_backup" /\ following = "backup_moved"
        \/ move = "backup_moved" /\ following = "publish"
        \/ move = "publish" /\ following = "target_published"
        \/ move = "target_published" /\ following = "register"
        \/ move = "register" /\ following = "state_written"
        \/ move = "state_written" /\ following = "remove_backup"
        \/ move = "remove_backup" /\ following = "unlink"
    BY <1>10 DEF InstallNext
  <2>2. told' = {v, n} /\ move # "unlink"
    BY <1>4, <1>8, <2>1
  <2>3. Installing'
    BY <1>3, <1>8, <2>2 DEF Installing
  <2>4. journal' = IF op'.journal.phase = "" THEN NoJournal ELSE op'.journal
    <3>1. CASE move \in JournalPhases
      <4>1. move # ""
        BY <2>1
      <4>2. journal' = [j EXCEPT !.phase = move]
        BY <1>4, <2>2, <3>1 DEF Effect
      <4>3. op'.journal = [j EXCEPT !.phase = move] /\ op'.journal.phase = move
        BY <1>3, <3>1, Zenon
      <4> QED
        BY <4>1, <4>2, <4>3, Zenon
    <3>2. CASE move \notin JournalPhases
      BY <1>3, <1>4, <2>2, <3>2 DEF Effect
    <3> QED
      BY <3>1, <3>2
  <2> HIDE DEF j, v, n
  <2>5. InstallAt(following)'
    <3> USE <1>3, <1>4, <1>5 DEF InstallAt, Effect, JournalPhases
    <3>1. CASE move = "prepared"
      BY <2>1, <3>1 DEF j, v, n
    <3>2. CASE move = "move_to_backup"
      BY <2>1, <3>2 DEF j, v, n
    <3>3. CASE move = "backup_moved"
      BY <2>1, <3>3 DEF j, v, n
    <3>4. CASE move = "publish"
      BY <2>1, <3>4 DEF j, v, n
    <3>5. CASE move = "target_published"
      BY <2>1, <3>5 DEF j, v, n
    <3>6. CASE move = "register"
      BY <2>1, <3>6 DEF j, v, n
    <3>7. CASE move = "state_written"
      BY <2>1, <3>7 DEF j, v, n
    <3>8. CASE move = "remove_backup"
      BY <2>1, <3>8 DEF j, v, n
    <3> QED
      BY ONLY <2>1, <3>1, <3>2, <3>3, <3>4, <3>5, <3>6, <3>7, <3>8
  <2>6. Head(op'.plan) = following /\ op'.plan \in InstallRests(op'.journal.previous # Absent)
    BY <1>2, <1>3, <1>10 DEF v
  <2> QED
    BY <2>3, <2>4, <2>5, <2>6 DEF Doing
<1> QED
  BY <1>6, <1>9, <1>10

\* A step of an uninstall that succeeds leaves it under way.
LEMMA UninstallDoes ==
    ASSUME PluginTypeOK, op.mode = "do", Uninstalling, Does, UninstallAt(Head(op.plan)),
           op.plan \in UninstallRests,
           journal = IF op.journal.phase = "" THEN NoJournal ELSE op.journal
    PROVE  Doing'
<1> DEFINE j == op.journal  v == j.previous
<1>1. PICK move : move = Head(op.plan)
  OBVIOUS
<1>2. PICK following : following = Head(Tail(op.plan))
  OBVIOUS
<1>3. /\ op'.mode = "do" /\ op'.plan = Tail(op.plan) /\ op'.report = op.report
      /\ op'.journal.kind = j.kind /\ op'.journal.previous = v /\ op'.journal.new = j.new
      /\ op'.journal.phase = IF move \in JournalPhases THEN move ELSE j.phase
      /\ op'.journal = IF move \in JournalPhases THEN [j EXCEPT !.phase = move] ELSE j
  BY <1>1, DoneOp
<1>4. Effect(move, j) /\ told' = IF move = "unlink" THEN op.report ELSE told
  BY <1>1 DEF Does
<1>5. UninstallAt(move)
  BY <1>1
<1>6. /\ \/ move = "unlink" /\ Tail(op.plan) = <<>>
         \/ Tail(op.plan) \in UninstallRests /\ <<move, following>> \in UninstallNext
  BY <1>1, <1>2, UninstallMoves
<1>7. v # Torn /\ Absent # Torn
  BY PluginTyped, VersionsDiffer DEF PluginOps, PluginJournals
<1>8. j.kind = "uninstall" /\ j.new = Absent /\ v # Absent /\ told = {v, Absent}
      /\ op.report = {Absent}
  BY DEF Uninstalling
<1>9. CASE move = "unlink" /\ Tail(op.plan) = <<>>
  <2>1. target = Absent /\ backup = Absent /\ registry = Absent
    BY <1>5, <1>9 DEF UninstallAt
  <2>2. target' = Absent /\ backup' = Absent /\ registry' = Absent /\ journal' = NoJournal
    BY <1>4, <1>9, <2>1 DEF Effect, JournalPhases
  <2>3. Agrees'
    BY <1>4, <1>7, <1>8, <1>9, <2>2 DEF Agrees
  <2> QED
    BY <1>3, <1>9, <2>2, <2>3 DEF Doing
<1>10. CASE Tail(op.plan) \in UninstallRests /\ <<move, following>> \in UninstallNext
  <2>1. \/ move = "prepared" /\ following = "move_to_backup"
        \/ move = "move_to_backup" /\ following = "backup_moved"
        \/ move = "backup_moved" /\ following = "unregister"
        \/ move = "unregister" /\ following = "state_removed"
        \/ move = "state_removed" /\ following = "remove_backup"
        \/ move = "remove_backup" /\ following = "unlink"
    BY <1>10 DEF UninstallNext
  <2>2. told' = {v, Absent} /\ move # "unlink"
    BY <1>4, <1>8, <2>1
  <2>3. Uninstalling'
    BY <1>3, <1>8, <2>2 DEF Uninstalling
  <2>4. journal' = IF op'.journal.phase = "" THEN NoJournal ELSE op'.journal
    <3>1. CASE move \in JournalPhases
      <4>1. move # ""
        BY <2>1
      <4>2. journal' = [j EXCEPT !.phase = move]
        BY <1>4, <2>2, <3>1 DEF Effect
      <4>3. op'.journal = [j EXCEPT !.phase = move] /\ op'.journal.phase = move
        BY <1>3, <3>1, Zenon
      <4> QED
        BY <4>1, <4>2, <4>3, Zenon
    <3>2. CASE move \notin JournalPhases
      BY <1>3, <1>4, <2>2, <3>2 DEF Effect
    <3> QED
      BY <3>1, <3>2
  <2> HIDE DEF j, v
  <2>5. UninstallAt(following)'
    BY <1>3, <1>4, <1>5, <2>1 DEF UninstallAt, Effect, JournalPhases, j, v
  <2>6. Head(op'.plan) = following /\ op'.plan \in UninstallRests
    BY <1>2, <1>3, <1>10
  <2> QED
    BY <2>3, <2>4, <2>5, <2>6 DEF Doing
<1> QED
  BY <1>6, <1>9, <1>10

\* A step that succeeds leaves the operation under way, or done and in agreement.
LEMMA DoingDoes ==
    ASSUME PluginTypeOK, op.mode = "do", Doing, Does
    PROVE  Doing' /\ op'.mode = "do"
<1>1. op.plan # <<>>
  BY DEF Does
<1>2. /\ \/ /\ Installing /\ InstallAt(Head(op.plan))
            /\ op.plan \in InstallRests(op.journal.previous # Absent)
         \/ /\ Uninstalling /\ UninstallAt(Head(op.plan)) /\ op.plan \in UninstallRests
      /\ journal = IF op.journal.phase = "" THEN NoJournal ELSE op.journal
  BY <1>1 DEF Doing
<1>3. op'.mode = "do"
  BY DoneOp
<1> QED
  BY <1>2, <1>3, InstallDoes, UninstallDoes

\* A transaction starts when payload, record and user agree.
LEMMA DoingStarts ==
    ASSUME PluginTypeOK, Agrees, Install \/ Uninstall
    PROVE  Doing' /\ op'.mode = "do"
<1>1. /\ target = registry /\ backup = Absent /\ target # Torn
      /\ registry \in Absent .. MaxVersions
  BY PluginTyped DEF Agrees
<1>2. CASE Install
  <2> DEFINE j == [kind |-> "install", phase |-> "", previous |-> registry, new |-> staged + 1,
                   existed |-> target # Absent]
             plan == InstallPlan(target # Absent)
  <2>1. /\ Quiet /\ op' = [mode |-> "do", plan |-> plan, journal |-> j, report |-> {j.new}]
        /\ told' = {target, j.new} /\ UNCHANGED <<target, backup, registry, journal>>
        /\ stage' = staged + 1
    BY <1>2 DEF Install, Begins
  <2>2. j.kind = "install" /\ j.phase = "" /\ j.previous = registry /\ j.new = staged + 1
        /\ j.existed = (target # Absent)
    OBVIOUS
  <2>3. staged + 1 # Absent
    BY PluginTyped DEF Absent
  <2>4. Head(plan) = "prepared"
    BY InstallHeads
  <2> HIDE DEF j, plan
  <2>5. op'.mode = "do" /\ op'.plan = plan /\ op'.journal = j /\ op'.report = {j.new}
    BY <2>1
  <2>6. Installing' /\ InstallAt("prepared")'
    BY <1>1, <2>1, <2>2, <2>3, <2>5 DEF Installing, InstallAt
  <2>7. op'.plan \in InstallRests(op'.journal.previous # Absent)
    BY <1>1, <2>2, <2>5 DEF InstallRests, plan
  <2>8. journal' = IF op'.journal.phase = "" THEN NoJournal ELSE op'.journal
    BY <2>1, <2>2, <2>5 DEF Quiet
  <2> QED
    BY <2>4, <2>5, <2>6, <2>7, <2>8 DEF Doing
<1>3. CASE Uninstall
  <2> DEFINE j == [kind |-> "uninstall", phase |-> "", previous |-> registry, new |-> Absent,
                   existed |-> TRUE]
  <2>1. /\ Quiet /\ op' = [mode |-> "do", plan |-> UninstallPlan, journal |-> j,
                           report |-> {j.new}]
        /\ told' = {target, j.new} /\ UNCHANGED <<target, backup, registry, journal>>
        /\ target # Absent
    BY <1>3 DEF Uninstall, Begins
  <2>2. j.kind = "uninstall" /\ j.phase = "" /\ j.previous = registry /\ j.new = Absent
    OBVIOUS
  <2>3. Head(UninstallPlan) = "prepared" /\ UninstallPlan \in UninstallRests
    BY DEF UninstallPlan, UninstallRests
  <2> HIDE DEF j
  <2>4. op'.mode = "do" /\ op'.plan = UninstallPlan /\ op'.journal = j /\ op'.report = {j.new}
    BY <2>1
  <2>5. Uninstalling' /\ UninstallAt("prepared")'
    BY <1>1, <2>1, <2>2, <2>4 DEF Uninstalling, UninstallAt
  <2>6. journal' = IF op'.journal.phase = "" THEN NoJournal ELSE op'.journal
    BY <2>1, <2>2, <2>4 DEF Quiet
  <2> QED
    BY <2>3, <2>4, <2>5, <2>6 DEF Doing
<1> QED
  BY <1>2, <1>3

-----------------------------------------------------------------------------
(* Undoing and recovering.                                                 *)

\* The next step of a plan that undoes or recovers, what comes after it, and
\* what is on disk before it.
BackAt(move, rest) ==
    LET v == op.journal.previous  n == op.journal.new  report == op.report IN
    \/ move = "remove_stage" /\ rest = <<>> /\ journal = NoJournal /\ Agrees
    \/ /\ move = "unlink" /\ rest \in {<<>>, <<"remove_stage">>}
       /\ backup = Absent /\ target = registry /\ target \in report
    \/ /\ target = registry /\ target \in report /\ op.plan \in RecoveryEnds
       /\ \/ move = "remove_backup" /\ rest = <<"unlink">>
          \/ move = "remove_stage" /\ rest = <<"remove_backup", "unlink">>
    \/ /\ v \in report
       /\ \E end \in PlanEnds :
            \/ move = "reset_record" /\ rest = end /\ target = v /\ backup = Absent
            \/ move = "restore" /\ rest = Resets(end) /\ backup = v
            \/ move = "remove_target" /\ rest \in {Restores(end), Supplants(end)} /\ backup = v
            \/ move = "remove_target" /\ rest = Resets(end) /\ v = Absent /\ backup = Absent
    \/ /\ move = "register" /\ rest = <<"remove_stage", "remove_backup", "unlink">>
       /\ target = n /\ n \in report /\ op.journal.kind = "install"
    \/ /\ n = Absent /\ n \in report /\ journal.phase = "state_removed"
       /\ \/ /\ move = "remove_target"
             /\ rest = <<"remove_backup", "unregister", "remove_backup", "unlink">>
          \/ /\ move = "remove_backup" /\ rest = <<"unregister", "remove_backup", "unlink">>
             /\ target = Absent
          \/ /\ move = "unregister" /\ rest = <<"remove_backup", "unlink">>
             /\ target = Absent

\* What a promise says of the step that comes next.
LEMMA BackMoves ==
    ASSUME Promise, op.plan # <<>>
    PROVE  BackAt(Head(op.plan), Tail(op.plan))
<1> DEFINE v == op.journal.previous  n == op.journal.new
<1>1. CASE op.plan \in {<<>>, <<"remove_stage">>} /\ journal = NoJournal /\ Agrees
  <2>1. op.plan = <<"remove_stage">>
    BY <1>1
  <2>2. Head(<<"remove_stage">>) = "remove_stage" /\ Tail(<<"remove_stage">>) = <<>>
    OBVIOUS
  <2> QED
    BY <1>1, <2>1, <2>2 DEF BackAt
<1>2. CASE op.plan \in UndoEnds /\ backup = Absent /\ target = registry /\ target \in op.report
  <2>1. Head(<<"unlink">>) = "unlink" /\ Tail(<<"unlink">>) = <<>>
    OBVIOUS
  <2>2. /\ Head(<<"unlink", "remove_stage">>) = "unlink"
        /\ Tail(<<"unlink", "remove_stage">>) = <<"remove_stage">>
    OBVIOUS
  <2>3. Head(op.plan) = "unlink" /\ Tail(op.plan) \in {<<>>, <<"remove_stage">>}
    BY <1>2, <2>1, <2>2, Zenon DEF UndoEnds
  <2> QED
    BY <1>2, <2>3 DEF BackAt
<1>3. CASE op.plan \in RecoveryEnds /\ target = registry /\ target \in op.report
  <2>1. /\ Head(<<"remove_backup", "unlink">>) = "remove_backup"
        /\ Tail(<<"remove_backup", "unlink">>) = <<"unlink">>
    OBVIOUS
  <2>2. /\ Head(<<"remove_stage", "remove_backup", "unlink">>) = "remove_stage"
        /\ Tail(<<"remove_stage", "remove_backup", "unlink">>) = <<"remove_backup", "unlink">>
    OBVIOUS
  <2>3. \/ Head(op.plan) = "remove_backup" /\ Tail(op.plan) = <<"unlink">>
        \/ Head(op.plan) = "remove_stage" /\ Tail(op.plan) = <<"remove_backup", "unlink">>
    BY <1>3, <2>1, <2>2, Zenon DEF RecoveryEnds
  <2> QED
    BY <1>3, <2>3 DEF BackAt
<1>4. CASE /\ v \in op.report
           /\ \E end \in PlanEnds :
                \/ op.plan = Resets(end) /\ target = v /\ backup = Absent
                \/ op.plan \in {Restores(end), Supplants(end), Clears(end)} /\ backup = v
                \/ op.plan = Empties(end) /\ v = Absent /\ backup = Absent
  <2>1. PICK end \in PlanEnds :
                \/ op.plan = Resets(end) /\ target = v /\ backup = Absent
                \/ op.plan \in {Restores(end), Supplants(end), Clears(end)} /\ backup = v
                \/ op.plan = Empties(end) /\ v = Absent /\ backup = Absent
    BY <1>4
  <2>2. /\ Head(Resets(end)) = "reset_record" /\ Tail(Resets(end)) = end
        /\ Head(Restores(end)) = "restore" /\ Tail(Restores(end)) = Resets(end)
        /\ Head(Supplants(end)) = "remove_target" /\ Tail(Supplants(end)) = Restores(end)
        /\ Head(Clears(end)) = "remove_target" /\ Tail(Clears(end)) = Supplants(end)
        /\ Head(Empties(end)) = "remove_target" /\ Tail(Empties(end)) = Resets(end)
    BY PutBackFacts
  <2> QED
    BY <1>4, <2>1, <2>2 DEF BackAt
<1>5. CASE /\ n \in op.report
           /\ op.plan = <<"register", "remove_stage", "remove_backup", "unlink">>
           /\ target = n /\ op.journal.kind = "install"
  <2> DEFINE p == <<"register", "remove_stage", "remove_backup", "unlink">>
  <2>1. Head(p) = "register" /\ Tail(p) = <<"remove_stage", "remove_backup", "unlink">>
    OBVIOUS
  <2> HIDE DEF p
  <2>2. op.plan = p
    BY <1>5 DEF p
  <2> QED
    BY <1>5, <2>1, <2>2 DEF BackAt
<1>6. CASE /\ n \in op.report /\ n = Absent /\ journal.phase = "state_removed"
           /\ \/ op.plan = <<"remove_target", "remove_backup", "unregister",
                             "remove_backup", "unlink">>
              \/ /\ op.plan \in {<<"remove_backup", "unregister", "remove_backup", "unlink">>,
                                 <<"unregister", "remove_backup", "unlink">>}
                 /\ target = Absent
  <2> DEFINE p == <<"remove_target", "remove_backup", "unregister", "remove_backup", "unlink">>
             q == <<"remove_backup", "unregister", "remove_backup", "unlink">>
             r == <<"unregister", "remove_backup", "unlink">>
  <2>1. Head(p) = "remove_target" /\ Tail(p) = q
    OBVIOUS
  <2>2. Head(q) = "remove_backup" /\ Tail(q) = r
    OBVIOUS
  <2>3. Head(r) = "unregister" /\ Tail(r) = <<"remove_backup", "unlink">>
    OBVIOUS
  <2> HIDE DEF p, q, r
  <2>4. op.plan = p \/ (op.plan \in {q, r} /\ target = Absent)
    BY <1>6 DEF p, q, r
  <2>5. \/ Head(op.plan) = "remove_target" /\ Tail(op.plan) = q
        \/ Head(op.plan) = "remove_backup" /\ Tail(op.plan) = r /\ target = Absent
        \/ /\ Head(op.plan) = "unregister" /\ Tail(op.plan) = <<"remove_backup", "unlink">>
           /\ target = Absent
    BY <2>1, <2>2, <2>3, <2>4
  <2> QED
    BY <1>6, <2>5 DEF BackAt, q, r
<1> QED
  BY <1>1, <1>2, <1>3, <1>4, <1>5, <1>6 DEF Promise

\* Undoing or recovering an uninstall, done or interrupted, stays recoverable.
LEMMA BackLeaves ==
    ASSUME PluginTypeOK, op.journal.kind = "uninstall", Resumable,
           NEW move, NEW rest, BackAt(move, rest), Leaves(move, op.journal),
           \/ told' = told
           \/ move = "unlink" /\ Effect(move, op.journal) /\ told' = op.report
    PROVE  Durable' /\ journal' \in {journal, NoJournal}
<1> DEFINE j == op.journal  v == j.previous
<1>1. /\ Durable /\ v # Absent
      /\ journal # NoJournal => /\ journal.kind = "uninstall" /\ journal.previous = v
                                /\ op.report \subseteq told
                                /\ (op.plan \in RecoveryEnds => backup = Absent
                                                               \/ journal.phase = "state_removed")
  BY DEF Resumable
<1>2. registry # Torn /\ Absent # Torn
  BY PluginTyped, VersionsDiffer
<1>3. journal # NoJournal =>
        /\ v \in told /\ Absent \in told /\ journal.kind = "uninstall" /\ journal.new = Absent
        /\ journal.previous = v
        /\ \/ journal.phase = "state_removed"
           \/ /\ journal.phase \in {"prepared", "backup_moved"}
              /\ \/ target = v /\ backup = Absent
                 \/ target = Absent /\ backup = v
  BY <1>1 DEF Durable, Recoverable
<1>4. journal = NoJournal => Agrees
  BY <1>1 DEF Durable
<1> HIDE DEF j, v
<1>5. ASSUME journal # NoJournal, journal' = journal, told' = told,
             \/ journal.phase = "state_removed"
             \/ target' = v /\ backup' = Absent
             \/ target' = Absent /\ backup' = v
      PROVE  Durable'
  BY <1>1, <1>3, <1>5 DEF Durable, Recoverable
<1>6. ASSUME journal' = NoJournal, target' = registry', target' # Torn, target' \in told',
             backup' = Absent
      PROVE  Durable'
  BY <1>6 DEF Durable, Agrees
<1>7. CASE move = "unlink"
  <2>1. backup = Absent /\ target = registry /\ target \in op.report
    BY <1>7 DEF BackAt
  <2>2. /\ UNCHANGED <<target, backup, registry>>
        /\ journal' = NoJournal \/ (journal' = journal /\ told' = told)
    BY <1>7, <2>1 DEF Leaves, Effect, Tears, Half, pluginDisk, JournalPhases
  <2>3. CASE journal' = NoJournal
    <3>1. target' \in told'
      BY <1>1, <1>4, <2>1, <2>2 DEF Agrees
    <3> QED
      BY <1>2, <1>6, <2>1, <2>2, <2>3, <3>1
  <2>4. CASE journal' = journal /\ told' = told
    BY <1>1, <2>2, <2>4 DEF Durable, Agrees, Recoverable
  <2> QED
    BY <2>2, <2>3, <2>4
<1>8. ASSUME move # "unlink", move \notin JournalPhases
      PROVE  journal' = journal /\ told' = told
  BY <1>8 DEF Leaves, Effect, Tears, pluginDisk
<1>9. CASE move = "remove_stage"
  <2>1. UNCHANGED <<target, backup, registry>>
    BY <1>9 DEF Leaves, Effect, Tears, Half, pluginDisk, JournalPhases
  <2>2. journal' = journal /\ told' = told
    BY <1>8, <1>9 DEF JournalPhases
  <2> QED
    BY <1>1, <2>1, <2>2 DEF Durable, Agrees, Recoverable
<1>10. CASE move = "remove_backup"
  <2>1. target' = target /\ registry' = registry /\ (backup = Absent => backup' = Absent)
    BY <1>10 DEF Leaves, Effect, Tears, Half, pluginDisk, JournalPhases
  <2>2. journal' = journal /\ told' = told
    BY <1>8, <1>10 DEF JournalPhases
  <2>3. journal = NoJournal \/ backup = Absent \/ journal.phase = "state_removed"
    BY <1>1, <1>10 DEF BackAt
  <2>4. CASE journal = NoJournal
    BY <1>4, <1>6, <2>1, <2>2, <2>4 DEF Agrees
  <2>5. CASE journal # NoJournal
    BY <1>3, <1>5, <2>1, <2>2, <2>3, <2>5
  <2> QED
    BY <2>2, <2>4, <2>5
<1>11. CASE move \in {"reset_record", "register", "unregister"}
  <2>1. /\ target' = target /\ backup' = backup
        /\ registry' \in {registry, IF move = "reset_record" THEN v
                                    ELSE IF move = "register" THEN op.journal.new ELSE Absent}
    BY <1>11 DEF Leaves, Effect, Tears, Half, pluginDisk, JournalPhases, j, v
  <2>2. journal' = journal /\ told' = told
    BY <1>8, <1>11 DEF JournalPhases
  <2>3. CASE journal = NoJournal
    <3>1. /\ move = "reset_record" => target = v
          /\ move # "register"
          /\ move = "unregister" => target = Absent
      BY <1>11 DEF BackAt, v, j
    <3>2. target' = registry'
      BY <1>4, <1>11, <2>1, <2>3, <3>1 DEF Agrees
    <3> QED
      BY <1>4, <1>6, <2>1, <2>2, <2>3, <3>2 DEF Agrees
  <2>4. CASE journal # NoJournal
    BY <1>3, <1>5, <2>1, <2>2, <2>4
  <2> QED
    BY <2>2, <2>3, <2>4
<1>12. CASE move = "restore"
  <2>1. backup = v
    BY <1>12 DEF BackAt, v, j
  <2>2. journal # NoJournal
    BY <1>1, <1>4, <2>1 DEF Agrees
  <2>3. \/ target' = target /\ backup' = backup
        \/ target' = v /\ backup' = Absent
    BY <1>12, <2>1 DEF Leaves, Effect, Tears, Half, pluginDisk, JournalPhases
  <2>4. journal' = journal /\ told' = told
    BY <1>8, <1>12 DEF JournalPhases
  <2> QED
    BY <1>3, <1>5, <2>2, <2>3, <2>4
<1>13. CASE move = "remove_target"
  <2>1. backup = v \/ journal.phase = "state_removed"
    BY <1>1, <1>13 DEF BackAt, v, j
  <2>2. journal # NoJournal
    <3>1. NoJournal.phase = ""
      BY DEF NoJournal
    <3> QED
      BY <1>1, <1>4, <2>1, <3>1 DEF Agrees
  <2>3. backup' = backup /\ (target = Absent => target' = Absent)
    BY <1>13 DEF Leaves, Effect, Tears, Half, pluginDisk, JournalPhases
  <2>4. journal' = journal /\ told' = told
    BY <1>8, <1>13 DEF JournalPhases
  <2> QED
    BY <1>1, <1>3, <1>5, <2>1, <2>2, <2>3, <2>4
<1> QED
  BY <1>7, <1>9, <1>10, <1>11, <1>12, <1>13 DEF BackAt

\* A step back that succeeds keeps the promise.
LEMMA BackDoes ==
    ASSUME PluginTypeOK, op.mode \in {"undo", "recover"}, Promise, Resumable, Does
    PROVE  Promise' /\ Resumable' /\ op'.mode = op.mode /\ op'.journal = op.journal
<1> DEFINE j == op.journal  v == j.previous  n == j.new
<1>1. PICK move : move = Head(op.plan)
  OBVIOUS
<1>2. PICK rest : rest = Tail(op.plan)
  OBVIOUS
<1>3. BackAt(move, rest)
  BY <1>1, <1>2, BackMoves DEF Does
<1>4. op'.plan = rest /\ op'.journal = j /\ op'.report = op.report /\ op'.mode = op.mode
  <2>1. op \in PluginOps /\ j \in PluginJournals
    BY PluginTyped DEF PluginOps
  <2>2. op' = [op EXCEPT !.plan = rest, !.journal.phase = j.phase]
    BY <1>2 DEF Does
  <2>3. [j EXCEPT !.phase = j.phase] = j
    BY <2>1 DEF PluginJournals
  <2> QED
    BY <2>1, <2>2, <2>3 DEF PluginOps
<1>5. Effect(move, j) /\ told' = IF move = "unlink" THEN op.report ELSE told
  BY <1>1 DEF Does
<1>6. registry # Torn /\ Absent # Torn
  BY PluginTyped, VersionsDiffer
<1> HIDE DEF j, v, n
<1>7. Promise'
  <2>1. CASE move = "remove_stage" /\ rest = <<>> /\ journal = NoJournal /\ Agrees
    <3>1. UNCHANGED <<target, backup, registry, journal, told>>
      BY <1>5, <2>1 DEF Effect, JournalPhases
    <3> QED
      BY <1>4, <2>1, <3>1 DEF Promise, Agrees
  <2>2. CASE /\ move = "unlink" /\ rest \in {<<>>, <<"remove_stage">>}
             /\ backup = Absent /\ target = registry /\ target \in op.report
    <3>1. UNCHANGED <<target, backup, registry>> /\ journal' = NoJournal /\ told' = op.report
      BY <1>5, <2>2 DEF Effect, JournalPhases
    <3>2. Agrees'
      BY <1>6, <2>2, <3>1 DEF Agrees
    <3> QED
      BY <1>4, <2>2, <3>1, <3>2 DEF Promise
  <2>3. CASE /\ target = registry /\ target \in op.report
             /\ move = "remove_backup" /\ rest = <<"unlink">>
    <3>1. target' = target /\ registry' = registry /\ backup' = Absent
      BY <1>5, <2>3 DEF Effect, JournalPhases
    <3>2. op'.plan \in UndoEnds
      BY <1>4, <2>3 DEF UndoEnds
    <3> QED
      BY <1>4, <2>3, <3>1, <3>2 DEF Promise
  <2>4. CASE /\ target = registry /\ target \in op.report
             /\ move = "remove_stage" /\ rest = <<"remove_backup", "unlink">>
    <3>1. target' = target /\ registry' = registry
      BY <1>5, <2>4 DEF Effect, JournalPhases
    <3>2. op'.plan \in RecoveryEnds
      BY <1>4, <2>4 DEF RecoveryEnds
    <3> QED
      BY <1>4, <2>4, <3>1, <3>2 DEF Promise
  <2>5. CASE /\ v \in op.report /\ move = "reset_record" /\ rest \in PlanEnds
             /\ target = v /\ backup = Absent
    <3>1. target' = target /\ registry' = v /\ backup' = Absent
      BY <1>5, <2>5 DEF Effect, JournalPhases, v
    <3>2. op'.plan \in UndoEnds \/ op'.plan \in RecoveryEnds
      BY <1>4, <2>5 DEF PlanEnds
    <3> QED
      BY <1>4, <2>5, <3>1, <3>2 DEF Promise
  <2>6. ASSUME NEW end \in PlanEnds, v \in op.report, move = "restore", rest = Resets(end),
               backup = v
        PROVE  Promise'
    <3>1. target' = v /\ backup' = Absent
      BY <1>5, <2>6 DEF Effect, JournalPhases
    <3> QED
      BY <1>4, <2>6, <3>1 DEF Promise, v
  <2>7. ASSUME NEW end \in PlanEnds, v \in op.report, move = "remove_target",
               rest \in {Restores(end), Supplants(end)}, backup = v
        PROVE  Promise'
    <3>1. backup' = v
      BY <1>5, <2>7 DEF Effect, JournalPhases
    <3> QED
      BY <1>4, <2>7, <3>1 DEF Promise, v
  <2>8. ASSUME NEW end \in PlanEnds, v \in op.report, move = "remove_target",
               rest = Resets(end), v = Absent, backup = Absent
        PROVE  Promise'
    <3>1. target' = Absent /\ backup' = Absent
      BY <1>5, <2>8 DEF Effect, JournalPhases
    <3> QED
      BY <1>4, <2>8, <3>1 DEF Promise, v
  <2>9. CASE /\ move = "register" /\ rest = <<"remove_stage", "remove_backup", "unlink">>
             /\ target = n /\ n \in op.report
    <3>1. target' = n /\ registry' = n
      BY <1>5, <2>9 DEF Effect, JournalPhases, n
    <3>2. op'.plan \in RecoveryEnds
      BY <1>4, <2>9 DEF RecoveryEnds
    <3> QED
      BY <1>4, <2>9, <3>1, <3>2 DEF Promise
  <2>10. CASE /\ n = Absent /\ n \in op.report /\ journal.phase = "state_removed"
              /\ move = "remove_target"
              /\ rest = <<"remove_backup", "unregister", "remove_backup", "unlink">>
    <3>1. target' = Absent /\ journal' = journal
      BY <1>5, <2>10 DEF Effect, JournalPhases
    <3> QED
      BY <1>4, <2>10, <3>1 DEF Promise, n
  <2>11. CASE /\ n = Absent /\ n \in op.report /\ journal.phase = "state_removed"
              /\ move = "remove_backup" /\ rest = <<"unregister", "remove_backup", "unlink">>
              /\ target = Absent
    <3>1. target' = Absent /\ journal' = journal
      BY <1>5, <2>11 DEF Effect, JournalPhases
    <3> QED
      BY <1>4, <2>11, <3>1 DEF Promise, n
  <2>12. CASE /\ n = Absent /\ n \in op.report
              /\ move = "unregister" /\ rest = <<"remove_backup", "unlink">> /\ target = Absent
    <3>1. target' = Absent /\ registry' = Absent
      BY <1>5, <2>12 DEF Effect, JournalPhases
    <3>2. op'.plan \in RecoveryEnds
      BY <1>4, <2>12 DEF RecoveryEnds
    <3> QED
      BY <1>4, <2>12, <3>1, <3>2 DEF Promise
  <2> QED
    BY <1>3, <2>1, <2>2, <2>3, <2>4, <2>5, <2>6, <2>7, <2>8, <2>9, <2>10, <2>11, <2>12
       DEF BackAt, j, v, n
<1>8. Resumable'
  <2>1. CASE j.kind # "uninstall"
    BY <1>4, <2>1 DEF Resumable
  <2>2. CASE j.kind = "uninstall"
    <3>1. /\ Leaves(move, j)
          /\ told' = told \/ (move = "unlink" /\ Effect(move, j) /\ told' = op.report)
      BY <1>5 DEF Leaves
    <3>2. Durable' /\ journal' \in {journal, NoJournal}
      BY <1>3, <2>2, <3>1, BackLeaves DEF j
    <3>3. /\ v # Absent
          /\ journal # NoJournal => /\ journal.kind = "uninstall" /\ journal.previous = v
                                    /\ op.report \subseteq told
                                    /\ (op.plan \in RecoveryEnds => backup = Absent
                                                               \/ journal.phase = "state_removed")
      BY <2>2 DEF Resumable, j, v
    <3>4. ASSUME journal' # NoJournal
          PROVE  /\ journal'.kind = "uninstall" /\ journal'.previous = v
                 /\ op'.report \subseteq told'
      <4>1. move # "unlink"
        BY <1>5, <3>4 DEF Effect, JournalPhases
      <4>2. journal' = journal /\ told' = told
        BY <1>5, <3>2, <3>4, <4>1
      <4> QED
        BY <1>4, <3>3, <3>4, <4>2
    <3>5. ASSUME journal' # NoJournal, op'.plan \in RecoveryEnds
          PROVE  backup' = Absent \/ journal'.phase = "state_removed"
      <4>1. journal' = journal
        BY <3>2, <3>5
      <4>2. Head(rest) \in {"remove_backup", "remove_stage"}
        BY <1>4, <3>5, EndHeads
      <4>3. \A end \in PlanEnds : Head(Resets(end)) = "reset_record"
                                  /\ Head(Restores(end)) = "restore"
                                  /\ Head(Supplants(end)) = "remove_target"
        BY PutBackFacts
      <4>4. Head(<<"unlink">>) = "unlink"
        OBVIOUS
      <4>5. \/ op.plan \in RecoveryEnds /\ move = "remove_stage"
            \/ move = "reset_record" /\ backup = Absent
            \/ journal.phase = "state_removed"
        <5>1. move # "unlink" /\ ~(move = "remove_stage" /\ journal = NoJournal)
          BY <1>5, <3>5, <4>1 DEF Effect, JournalPhases
        <5> QED
          BY <1>3, <2>2, <4>2, <4>3, <4>4, <5>1 DEF BackAt, j
      <4>6. move \in {"remove_stage", "reset_record"} => backup' = backup
        BY <1>5 DEF Effect, JournalPhases
      <4> QED
        BY <3>3, <3>5, <4>1, <4>5, <4>6
    <3> QED
      BY <1>4, <2>2, <3>2, <3>3, <3>4, <3>5 DEF Resumable, v
  <2> QED
    BY <2>1, <2>2
<1> QED
  BY <1>4, <1>7, <1>8 DEF j

\* An operation that only undoes or recovers an uninstall may break off.
LEMMA BackInterrupted ==
    ASSUME PluginTypeOK, op.journal.kind = "uninstall", Promise, Resumable, op.plan # <<>>,
           Leaves(Head(op.plan), op.journal), told' = told
    PROVE  Durable'
<1>1. PICK move : move = Head(op.plan)
  OBVIOUS
<1>2. PICK rest : rest = Tail(op.plan)
  OBVIOUS
<1>3. BackAt(move, rest)
  BY <1>1, <1>2, BackMoves
<1> QED
  BY <1>1, <1>3, BackLeaves

\* What is on disk tells the recovery what to do.
LEMMA RecoverStarts ==
    ASSUME PluginTypeOK, Durable, Recover
    PROVE  /\ Promise' /\ Resumable'
           /\ op'.mode = "recover" /\ op'.journal.kind \in {"install", "uninstall"}
<1>1. /\ journal # NoJournal /\ UNCHANGED <<target, backup, registry, journal, told>>
      /\ op' = [mode |-> "recover", journal |-> journal, report |-> told,
                plan |-> RecoveryPlan(journal, target # Absent, backup # Absent)]
  BY DEF Recover, pluginDisk
<1> DEFINE plan == RecoveryPlan(journal, target # Absent, backup # Absent)
<1>2. PICK j : j = journal
  OBVIOUS
<1>3. op'.mode = "recover" /\ op'.journal = j /\ op'.report = told /\ op'.plan = plan
  BY <1>1, <1>2
<1> DEFINE v == j.previous  n == j.new
<1>4. /\ v \in told /\ n \in told
      /\ \/ /\ j.kind = "install" /\ n # Absent /\ (j.existed <=> v # Absent)
            /\ \/ /\ j.phase = "prepared"
                  /\ \/ target = v /\ backup = Absent
                     \/ target = Absent /\ backup = v
                     \/ v = Absent /\ backup = Absent
               \/ j.phase = "backup_moved" /\ backup = v
               \/ j.phase = "target_published" /\ target = n /\ backup = v
               \/ j.phase = "state_written" /\ target = n
         \/ /\ j.kind = "uninstall" /\ n = Absent /\ v # Absent
            /\ \/ j.phase = "state_removed"
               \/ /\ j.phase \in {"prepared", "backup_moved"}
                  /\ \/ target = v /\ backup = Absent
                     \/ target = Absent /\ backup = v
  BY <1>1, <1>2 DEF Durable, Recoverable
<1> DEFINE hasTarget == target # Absent  hasBackup == backup # Absent
           finish == hasTarget /\ \/ j.phase = "state_written"
                                  \/ j.phase = "target_published" /\ ~hasBackup
<1>5. /\ j.kind = "install" /\ finish =>
            plan = <<"register", "remove_stage", "remove_backup", "unlink">>
      /\ j.kind = "install" /\ ~finish /\ j.phase # "state_written" =>
            plan = PutBack(j, hasBackup) \o <<"remove_stage", "remove_backup", "unlink">>
      /\ j.kind = "uninstall" /\ j.phase = "state_removed" =>
            plan = <<"remove_target", "remove_backup", "unregister", "remove_backup", "unlink">>
      /\ j.kind = "uninstall" /\ j.phase # "state_removed" /\ (hasTarget \/ hasBackup) =>
            plan = PutBack(j, hasBackup) \o <<"remove_backup", "unlink">>
  <2>1. j.kind \in {"install", "uninstall"}
    BY <1>4
  <2>2. plan = RecoveryPlan(j, hasTarget, hasBackup)
    BY <1>2
  <2>3. PICK ht : ht = hasTarget
    OBVIOUS
  <2>4. PICK hb : hb = hasBackup
    OBVIOUS
  <2> HIDE DEF plan, hasTarget, hasBackup
  <2> QED
    BY <2>1, <2>2, <2>3, <2>4, RecoveryForm
<1> HIDE DEF v, n, plan
<1>6. ASSUME NEW end \in PlanEnds, plan = PutBack(j, backup # Absent) \o end,
             backup # Absent => backup = v,
             backup = Absent => IF RemovesTarget(j) THEN v = Absent ELSE target = v
      PROVE  /\ Promise'
             /\ op'.plan \notin RecoveryEnds
  <2>1. plan = IF backup # Absent
               THEN IF RemovesTarget(j) THEN Clears(end) ELSE Supplants(end)
               ELSE IF RemovesTarget(j) THEN Empties(end) ELSE Resets(end)
    BY <1>6, PutBackForm
  <2>2. Head(plan) \in {"remove_target", "reset_record"}
    BY <2>1, PutBackFacts
  <2>3. op'.plan \notin RecoveryEnds
    BY <1>3, <2>2, EndHeads
  <2>4. v \in op'.report /\ target' = target /\ backup' = backup
    BY <1>1, <1>3, <1>4
  <2>5. CASE backup # Absent
    <3>1. op'.plan \in {Clears(end), Supplants(end)} /\ backup' = v
      BY <1>1, <1>3, <1>6, <2>1, <2>5
    <3> QED
      BY <1>3, <2>3, <2>4, <3>1 DEF Promise, v
  <2>6. CASE backup = Absent
    <3>1. \/ op'.plan = Empties(end) /\ v = Absent /\ backup' = Absent
          \/ op'.plan = Resets(end) /\ target' = v /\ backup' = Absent
      BY <1>3, <1>6, <2>1, <2>4, <2>6
    <3> QED
      BY <1>3, <2>3, <2>4, <3>1 DEF Promise, v
  <2> QED
    BY <2>5, <2>6
<1>7. CASE j.kind = "install"
  <2>1. n # Absent /\ (j.existed <=> v # Absent)
    BY <1>4, <1>7
  <2>2. CASE finish
    <3>1. plan = <<"register", "remove_stage", "remove_backup", "unlink">>
      BY <1>2, <1>7, <2>2, <1>5, Zenon DEF plan
    <3>2. target' = n
      BY <1>1, <1>4, <1>7, <2>2
    <3>3. n \in op'.report
      BY <1>3, <1>4
    <3> QED
      BY <1>3, <1>7, <3>1, <3>2, <3>3 DEF Promise, Resumable, n
  <2>3. CASE ~finish
    <3>1. j.phase # "state_written"
      BY <1>4, <1>7, <2>1, <2>3
    <3>2. plan = PutBack(j, backup # Absent) \o <<"remove_stage", "remove_backup", "unlink">>
      BY <1>2, <1>7, <2>3, <3>1, <1>5, Zenon DEF plan
    <3>3. /\ backup # Absent => backup = v
          /\ backup = Absent => IF RemovesTarget(j) THEN v = Absent ELSE target = v
      BY <1>4, <1>7, <2>1, <2>3, <3>1 DEF RemovesTarget, JournalPhases
    <3>4. <<"remove_stage", "remove_backup", "unlink">> \in PlanEnds
      BY DEF PlanEnds, RecoveryEnds
    <3> QED
      BY <1>3, <1>6, <1>7, <3>2, <3>3, <3>4 DEF Resumable
  <2> QED
    BY <2>2, <2>3
<1>8. CASE j.kind = "uninstall"
  <2>1. /\ Durable' /\ op'.report \subseteq told' /\ journal' = j
    BY <1>1, <1>2, <1>3 DEF Durable, Agrees, Recoverable
  <2>2. v # Absent /\ n = Absent
    BY <1>4, <1>8
  <2>3. CASE j.phase = "state_removed"
    <3>1. plan = <<"remove_target", "remove_backup", "unregister", "remove_backup", "unlink">>
      BY <1>2, <1>8, <2>3, <1>5, Zenon DEF plan
    <3>2. n \in op'.report
      BY <1>3, <1>4
    <3>3. Promise'
      BY <1>3, <2>1, <2>2, <2>3, <3>1, <3>2 DEF Promise, n
    <3> QED
      BY <1>3, <1>8, <2>1, <2>2, <2>3, <3>3 DEF Resumable, v
  <2>4. CASE j.phase # "state_removed"
    <3>1. /\ \/ target = v /\ backup = Absent
             \/ target = Absent /\ backup = v
          /\ target # Absent \/ backup # Absent
      BY <1>4, <1>8, <2>2, <2>4
    <3>2. plan = PutBack(j, backup # Absent) \o <<"remove_backup", "unlink">>
      BY <1>2, <1>8, <2>4, <3>1, <1>5, Zenon DEF plan
    <3>3. <<"remove_backup", "unlink">> \in PlanEnds
      BY DEF PlanEnds, RecoveryEnds
    <3>4. ~RemovesTarget(j)
      BY <1>8 DEF RemovesTarget
    <3>5. Promise' /\ op'.plan \notin RecoveryEnds
      BY <1>6, <2>2, <3>1, <3>2, <3>3, <3>4
    <3> QED
      BY <1>3, <1>8, <2>1, <2>2, <3>5 DEF Resumable, v
  <2> QED
    BY <2>3, <2>4
<1> QED
  BY <1>3, <1>4, <1>7, <1>8

\* The invariant holds before anything was installed.
LEMMA PluginStart == PluginInit => PluginInv
<1> SUFFICES ASSUME PluginInit PROVE PluginInv
  OBVIOUS
<1>1. NoJournal \in PluginJournals
  BY VersionsDiffer DEF NoJournal, PluginJournals, JournalPhases
<1>2. IdleOp \in PluginOps
  BY <1>1 DEF IdleOp, PluginOps
<1>3. PluginTypeOK
  <2>1. 0 \in 0 .. MaxVersions /\ 0 \in 0 .. MaxFaults
    BY PluginConstants
  <2>2. {Absent} \subseteq Payloads /\ Absent \in Payloads
    BY VersionsDiffer
  <2> QED
    BY <1>1, <1>2, <2>1, <2>2, PluginTyped, VersionsDiffer, Zenon DEF PluginInit
<1>4. Sound
  BY VersionsDiffer DEF PluginInit, Sound, Durable, Agrees, IdleOp
<1> QED
  BY <1>3, <1>4 DEF PluginInv

\* Every step of the process keeps the invariant.
LEMMA PluginKept == PluginInv /\ [PluginNext]_pluginVars => PluginInv'
<1> SUFFICES ASSUME PluginInv, [PluginNext]_pluginVars PROVE PluginInv'
  OBVIOUS
<1>1. PluginTypeOK /\ (torn \/ again \/ Sound)
  BY DEF PluginInv
<1>2. PluginTypeOK'
  BY <1>1, PluginTypes
<1>3. ASSUME op' = IdleOp, Durable' PROVE Sound'
  <2>1. op'.mode = "idle" /\ op'.plan = <<>>
    BY <1>3 DEF IdleOp
  <2> QED
    BY <1>3, <2>1 DEF Sound
<1>4. CASE Install \/ Uninstall
  <2>1. /\ Quiet /\ torn' = (torn /\ ~Agrees) /\ again' = (again /\ ~Agrees)
    BY <1>4 DEF Install, Uninstall, Begins
  <2>2. CASE Agrees
    <3>1. Sound'
      BY <1>1, <1>4, <2>2, DoingStarts DEF Sound
    <3> QED
      BY <1>2, <3>1 DEF PluginInv
  <2>3. CASE ~Agrees
    <3>1. torn \/ again
      BY <1>1, <2>1, <2>3 DEF Sound, Durable, Quiet
    <3> QED
      BY <1>2, <2>1, <2>3, <3>1, Zenon DEF PluginInv
  <2> QED
    BY <2>2, <2>3
<1>5. CASE torn \/ again
  <2>1. CASE Install \/ Uninstall
    BY <1>4, <2>1
  <2>2. CASE Recover \/ Does \/ OpEnds \/ Raises \/ Dies \/ UNCHANGED pluginVars
    <3>1. (torn => torn') /\ (again => again')
      <4>1. CASE Recover \/ Does \/ OpEnds \/ UNCHANGED pluginVars
        BY <4>1 DEF Recover, Does, OpEnds, pluginVars
      <4>2. CASE Raises
        <5>1. torn' = (torn \/ (op.mode = "do" /\ backup' = Torn)) /\ Interrupted
          BY <4>2 DEF Raises
        <5> QED
          BY <5>1, Zenon DEF Interrupted
      <4>3. CASE Dies
        <5>1. torn' = torn /\ Interrupted
          BY <4>3 DEF Dies
        <5> QED
          BY <5>1, Zenon DEF Interrupted
      <4> QED
        BY <2>2, <4>1, <4>2, <4>3
    <3> QED
      BY <1>2, <1>5, <3>1, Zenon DEF PluginInv
  <2> QED
    BY <2>1, <2>2 DEF PluginNext, PluginStep
<1>6. CASE ~torn /\ ~again /\ Sound
  <2>1. CASE Recover
    <3>1. Durable
      BY <1>6, <2>1 DEF Recover, Sound
    <3>2. Sound'
      BY <1>1, <2>1, <3>1, RecoverStarts DEF Sound
    <3> QED
      BY <1>2, <3>2 DEF PluginInv
  <2>2. op.mode \in {"idle", "do", "undo", "recover"} /\ (op.plan # <<>> => op.mode # "idle")
    BY <1>1, <1>6, PluginTyped DEF PluginOps, Sound
  <2>3. CASE Does
    <3>1. op.mode # "idle"
      BY <2>2, <2>3 DEF Does
    <3>2. CASE op.mode = "do"
      BY <1>1, <1>2, <1>6, <2>3, <3>2, DoingDoes DEF Sound, PluginInv
    <3>3. CASE op.mode \in {"undo", "recover"}
      BY <1>1, <1>2, <1>6, <2>3, <3>3, BackDoes DEF Sound, PluginInv
    <3> QED
      BY <1>2, <2>2, <3>1, <3>2, <3>3 DEF PluginInv
  <2>4. CASE OpEnds
    <3>1. op.mode # "idle" /\ op.plan = <<>> /\ op' = IdleOp
          /\ UNCHANGED <<target, backup, registry, journal, told>>
      BY <2>4 DEF OpEnds, pluginDisk
    <3>2. journal = NoJournal /\ Agrees
      <4>1. CASE op.mode = "do"
        <5>1. \A plan \in InstallRests(op.journal.previous # Absent) : plan # <<>>
          BY InstallMoves
        <5>2. \A plan \in UninstallRests : plan # <<>>
          BY UninstallMoves
        <5> QED
          BY <1>6, <3>1, <4>1, <5>1, <5>2 DEF Sound, Doing
      <4>2. CASE op.mode \in {"undo", "recover"}
        <5>1. \A end \in PlanEnds : /\ Resets(end) # <<>> /\ Restores(end) # <<>>
                                    /\ Supplants(end) # <<>> /\ Clears(end) # <<>>
                                    /\ Empties(end) # <<>>
          BY PutBackFacts
        <5>2. \A end \in UndoEnds \cup RecoveryEnds : end # <<>>
          BY EndHeads DEF PlanEnds
        <5>3. /\ <<"register", "remove_stage", "remove_backup", "unlink">> # <<>>
              /\ <<"remove_target", "remove_backup", "unregister", "remove_backup", "unlink">> # <<>>
              /\ <<"remove_backup", "unregister", "remove_backup", "unlink">> # <<>>
              /\ <<"unregister", "remove_backup", "unlink">> # <<>>
          OBVIOUS
        <5>4. Promise
          BY <1>6, <4>2 DEF Sound
        <5> QED
          BY <3>1, <5>1, <5>2, <5>3, <5>4 DEF Promise
      <4> QED
        BY <2>2, <3>1, <4>1, <4>2
    <3>3. Durable'
      BY <3>1, <3>2 DEF Durable, Agrees
    <3> QED
      BY <1>2, <1>3, <3>1, <3>3 DEF PluginInv
  <2>5. ASSUME op.mode \in {"undo", "recover"}, op.plan # <<>>, op' = IdleOp,
               Leaves(Head(op.plan), op.journal), Interrupted, told' = told
        PROVE  again' \/ Sound'
    <3>1. /\ Promise /\ Resumable /\ op.journal.kind \in {"install", "uninstall"}
      BY <1>6, <2>5 DEF Sound
    <3>2. CASE op.journal.kind = "install"
      BY <2>5, <3>2 DEF Interrupted
    <3>3. CASE op.journal.kind = "uninstall"
      BY <1>1, <1>3, <2>5, <3>1, <3>3, BackInterrupted
    <3> QED
      BY <3>1, <3>2, <3>3
  <2>6. CASE Raises
    <3>1. op.plan # <<>> /\ op.mode # "idle" /\ told' = told
      BY <2>2, <2>6 DEF Raises
    <3>2. CASE op.mode = "do"
      <4>1. Doing
        BY <1>6, <3>2 DEF Sound
      <4>2. /\ op'.mode = "undo" /\ op'.journal.kind \in {"install", "uninstall"}
            /\ torn' \/ (Promise' /\ Resumable')
        BY <1>1, <2>6, <3>2, <4>1, DoingRaises
      <4>3. torn' \/ Sound'
        BY <4>2 DEF Sound
      <4> QED
        BY <1>2, <4>3 DEF PluginInv
    <3>3. CASE op.mode \in {"undo", "recover"}
      <4>1. op' = IdleOp /\ Leaves(Head(op.plan), op.journal) /\ Interrupted
        BY <2>6, <3>3 DEF Raises, Leaves
      <4> QED
        BY <1>2, <2>5, <3>1, <3>3, <4>1 DEF PluginInv
    <3> QED
      BY <2>2, <3>1, <3>2, <3>3
  <2>7. CASE Dies
    <3>1. /\ op.plan # <<>> /\ op.mode # "idle" /\ told' = told /\ op' = IdleOp
          /\ Leaves(Head(op.plan), op.journal) /\ Interrupted
      BY <2>2, <2>7 DEF Dies, Leaves
    <3>2. CASE op.mode = "do"
      <4>1. Durable'
        BY <1>1, <1>6, <2>7, <3>2, DoingDies DEF Sound
      <4> QED
        BY <1>2, <1>3, <3>1, <4>1 DEF PluginInv
    <3>3. CASE op.mode \in {"undo", "recover"}
      BY <1>2, <2>5, <3>1, <3>3 DEF PluginInv
    <3> QED
      BY <2>2, <3>1, <3>2, <3>3
  <2>8. CASE UNCHANGED pluginVars
    <3>1. /\ target' = target /\ backup' = backup /\ stage' = stage /\ registry' = registry
          /\ journal' = journal /\ op' = op /\ told' = told
      BY <2>8 DEF pluginVars, pluginDisk
    <3>2. Durable' <=> Durable
      BY <3>1 DEF Durable, Recoverable, Agrees
    <3>3. Doing' <=> Doing
      <4>1. (Agrees' <=> Agrees) /\ (Installing' <=> Installing) /\ (Uninstalling' <=> Uninstalling)
        BY <3>1 DEF Agrees, Installing, Uninstalling
      <4>2. InstallAt(Head(op.plan))' <=> InstallAt(Head(op.plan))
        BY <3>1 DEF InstallAt
      <4>3. UninstallAt(Head(op.plan))' <=> UninstallAt(Head(op.plan))
        BY <3>1 DEF UninstallAt
      <4> QED
        BY <3>1, <4>1, <4>2, <4>3 DEF Doing
    <3>4. Promise' <=> Promise
      BY <3>1 DEF Promise, Agrees
    <3>5. Resumable' <=> Resumable
      BY <3>1, <3>2 DEF Resumable
    <3>6. Sound'
      BY <1>6, <3>1, <3>2, <3>3, <3>4, <3>5 DEF Sound
    <3> QED
      BY <1>2, <3>6 DEF PluginInv
  <2> QED
    BY <1>4, <2>1, <2>3, <2>4, <2>6, <2>7, <2>8 DEF PluginNext, PluginStep
<1> QED
  BY <1>1, <1>5, <1>6

\* One exception or death anywhere in an install or an upgrade and the recovery
\* after it, and any number of them in an uninstall and its recoveries, leave
\* payload, registry record and the user's belief in agreement: for any number
\* of versions and of faults.
THEOREM PluginsStayAgreed == PluginSpec => []PluginsAgree
<1>1. PluginInv => PluginsAgree
  BY DEF PluginInv, PluginsAgree, Sound, Durable, Quiet
<1> QED
  BY <1>1, PluginStart, PluginKept, PTL DEF PluginSpec

=============================================================================
