------------------------- MODULE ControlPlaneProofs -------------------------
(***************************************************************************)
(* Proofs about ControlPlane, for any administrators, any number of        *)
(* requests in service and any bounds.                                     *)
(*                                                                         *)
(* Configurations and release sets form chains in the same way: a          *)
(* publication or a rollback supersedes the last link and becomes the      *)
(* next.  That is said, and its preservation is proved, once, for any      *)
(* records with a state and a predecessor.                                 *)
(***************************************************************************)
EXTENDS ControlPlane, SequenceTheorems, TLAPS

-----------------------------------------------------------------------------
(* Chains.                                                                 *)

LastOf(h) == h[Len(h)]

\* Records that were not published yet.
Drafting == {"draft", "awaiting_approval", "validation"}

\* The records ids, the state and the predecessor of each: who was superseded,
\* and nobody else, has a successor, and one only.
Chain(ids, state, previous) ==
    /\ 0 \notin ids
    /\ \A c \in ids : previous[c] \in ids \cup {0}
    /\ \A c \in ids : state[c] \in Drafting => previous[c] = 0
    /\ \A p \in ids : state[p] = "superseded" <=> \E c \in ids : previous[c] = p
    /\ \A c, d \in ids : previous[c] = previous[d] /\ previous[c] # 0 => c = d

StatesOf(h) == [c \in DOMAIN h |-> LastOf(h[c]).state]
PreviousOf(h) == [c \in DOMAIN h |-> LastOf(h[c]).previous]
ReleaseStates(rs) == [r \in DOMAIN rs |-> rs[r].state]
ReleasePrevious(rs) == [r \in DOMAIN rs |-> rs[r].previous]

-----------------------------------------------------------------------------
(* The invariant.                                                          *)

\* A configuration has at least one revision.
Histories == {h \in Seq(Seq(Revisions)) : \A c \in DOMAIN h : Len(h[c]) > 0}

\* What was published as content was reviewed as it stands.
Reviewed(decisions, h, content) ==
    \E a \in decisions :
        /\ a.decision = "approved"
        /\ a.config \in DOMAIN h /\ a.revision \in DOMAIN h[a.config]
        /\ h[a.config][a.revision].content = content
        /\ a.reviewer # h[a.config][a.revision].author

\* A revision that is or was published; a high-impact one was reviewed.
Effective(record) == record.state \in {"published", "superseded"}
ReviewedHistory(decisions, h) ==
    \A c \in DOMAIN h : \A i \in DOMAIN h[c] :
        Effective(h[c][i]) /\ h[c][i].impact = "high" => Reviewed(decisions, h, h[c][i].content)

Resolved(h, ref) ==
    /\ ref[1] \in DOMAIN h /\ ref[2] \in DOMAIN h[ref[1]]
    /\ h[ref[1]][ref[2]].state = "published"

ReleasesResolve(h, rs) == \A r \in DOMAIN rs : rs[r].state # "draft" => Resolved(h, rs[r].ref)

\* A scope that has had a release set has one.
OnePublished(rs) ==
    (\E r \in DOMAIN rs : rs[r].state = "superseded") => \E r \in DOMAIN rs : rs[r].state = "published"

\* What a request has read of configurations stays written, of release sets it
\* holds while the revision is the same.
RevisionRead(h, c, i) == c \in DOMAIN h /\ i \in DOMAIN h[c]

ConfigWork(w, decisions, h) ==
    /\ RevisionRead(h, w.id, w.revision)
    /\ h[w.id][w.revision].state \in Drafting
    /\ h[w.id][w.revision].impact = "high" => Reviewed(decisions, h, h[w.id][w.revision].content)
    /\ w.previous # 0 =>
         RevisionRead(h, w.previous, w.seen) /\ h[w.previous][w.seen].state = "published"

ReleaseRead(rs, r, revision, state) ==
    /\ r \in DOMAIN rs
    /\ revision <= rs[r].revision
    /\ rs[r].revision = revision => rs[r].state = state

ReleaseWork(w, rs) ==
    /\ ReleaseRead(rs, w.id, w.revision, "validation")
    /\ w.previous # 0 => ReleaseRead(rs, w.previous, w.seen, "published")

RollbackWork(w, h) ==
    /\ RevisionRead(h, w.id, w.revision) /\ h[w.id][w.revision].state = "published"
    /\ RevisionRead(h, w.target, w.seen) /\ Effective(h[w.target][w.seen])

WorkOK(w, decisions, h, rs) ==
    /\ w.pc \in {"active", "replace"} =>
         IF w.of = "config" THEN ConfigWork(w, decisions, h) ELSE ReleaseWork(w, rs)
    /\ w.pc = "rollback" => RollbackWork(w, h)

TypeInv ==
    /\ configs \in Histories
    /\ approvals \subseteq Approvals
    /\ \A a, b \in approvals : a.config = b.config /\ a.revision = b.revision => a = b
    /\ releases \in Seq(ReleaseSets)
    /\ req \in [Requests -> Work \cup {Idle}]
    /\ begun \in 0..MaxBegun

ConfigsInv ==
    /\ Chain(DOMAIN configs, StatesOf(configs), PreviousOf(configs))
    /\ ReviewedHistory(approvals, configs)

ReleasesInv ==
    /\ Chain(DOMAIN releases, ReleaseStates(releases), ReleasePrevious(releases))
    /\ ReleasesResolve(configs, releases)
    /\ OnePublished(releases)

RequestsInv == \A q \in Requests : WorkOK(req[q], approvals, configs, releases)

IInv == TypeInv /\ ConfigsInv /\ ReleasesInv /\ RequestsInv

-----------------------------------------------------------------------------
(* Chains are kept.                                                        *)

LEMMA ChainKept ==
  ASSUME NEW ids, NEW state, NEW previous, NEW next, NEW before,
         Chain(ids, state, previous),
         \A c \in ids : before[c] = previous[c],
         \A c \in ids : next[c] = "superseded" <=> state[c] = "superseded",
         \A c \in ids : next[c] \in Drafting => state[c] \in Drafting
  PROVE  Chain(ids, next, before)
BY DEF Chain

\* A new draft.
LEMMA ChainBegins ==
  ASSUME NEW ids, NEW state, NEW previous, NEW next, NEW before, NEW n,
         Chain(ids, state, previous), n # 0, n \notin ids,
         \A c \in ids : before[c] = previous[c] /\ next[c] = state[c],
         before[n] = 0, next[n] \in Drafting
  PROVE  Chain(ids \cup {n}, next, before)
BY DEF Chain, Drafting

\* n takes the place of the published p.
LEMMA ChainContinues ==
  ASSUME NEW ids, NEW state, NEW previous, NEW next, NEW before, NEW n, NEW p \in ids,
         Chain(ids, state, previous), n # 0, n # p,
         n \in ids => state[n] \in Drafting,
         state[p] = "published",
         \A c \in ids \ {n} : before[c] = previous[c],
         \A c \in ids \ {n, p} : next[c] = state[c],
         before[n] = p, next[n] = "published", next[p] = "superseded"
  PROVE  Chain(ids \cup {n}, next, before)
<1>1. \A c \in ids : previous[c] # p
  BY DEF Chain
<1>2. \A c \in ids : previous[c] # n
  BY DEF Chain, Drafting
<1>3. \A c \in ids \cup {n} : before[c] = IF c = n THEN p ELSE previous[c]
  OBVIOUS
<1>4. \A c \in ids \cup {n} : next[c] = IF c = n THEN "published"
                                       ELSE IF c = p THEN "superseded" ELSE state[c]
  OBVIOUS
<1>5. \A c \in ids \cup {n} : next[c] \in Drafting => before[c] = 0
  BY <1>3, <1>4 DEF Chain, Drafting
<1>6. \A q \in ids \cup {n} : next[q] = "superseded" <=> \E c \in ids \cup {n} : before[c] = q
  <2>1. ASSUME NEW q \in ids \cup {n}
        PROVE  (\E c \in ids \cup {n} : before[c] = q) <=> q = p \/ \E c \in ids \ {n} : previous[c] = q
    BY <1>3
  <2>2. n \in ids => previous[n] = 0
    BY DEF Chain
  <2>3. ASSUME NEW q \in ids PROVE (\E c \in ids \ {n} : previous[c] = q) <=> state[q] = "superseded"
    BY <2>2 DEF Chain
  <2>4. QED
    BY <1>2, <1>4, <2>1, <2>3 DEF Drafting
<1>7. \A c, d \in ids \cup {n} : before[c] = before[d] /\ before[c] # 0 => c = d
  BY <1>1, <1>3 DEF Chain
<1>8. QED
  BY <1>3, <1>5, <1>6, <1>7 DEF Chain

-----------------------------------------------------------------------------
(* Histories only grow.                                                    *)

Grown(h, n) ==
    \A c \in DOMAIN h :
        /\ c \in DOMAIN n
        /\ \A i \in DOMAIN h[c] : i \in DOMAIN n[c] /\ n[c][i] = h[c][i]

LEMMA History ==
  ASSUME NEW h \in Histories
  PROVE  /\ Len(h) \in Nat /\ DOMAIN h = 1..Len(h)
         /\ \A c \in DOMAIN h :
              /\ h[c] \in Seq(Revisions) /\ Len(h[c]) \in Nat \ {0}
              /\ DOMAIN h[c] = 1..Len(h[c])
              /\ Len(h[c]) \in DOMAIN h[c] /\ LastOf(h[c]) \in Revisions
              /\ \A i \in DOMAIN h[c] : h[c][i] \in Revisions
<1>1. h \in Seq(Seq(Revisions)) /\ \A c \in DOMAIN h : Len(h[c]) > 0
  BY DEF Histories
<1>2. Len(h) \in Nat /\ DOMAIN h = 1..Len(h)
  BY <1>1, LenProperties
<1>3. ASSUME NEW c \in DOMAIN h
      PROVE  /\ h[c] \in Seq(Revisions) /\ Len(h[c]) \in Nat \ {0}
             /\ DOMAIN h[c] = 1..Len(h[c])
             /\ Len(h[c]) \in DOMAIN h[c] /\ LastOf(h[c]) \in Revisions
             /\ \A i \in DOMAIN h[c] : h[c][i] \in Revisions
  <2>1. h[c] \in Seq(Revisions)
    BY <1>1, <1>2, ElementOfSeq
  <2>2. Len(h[c]) \in Nat /\ DOMAIN h[c] = 1..Len(h[c])
    BY <2>1, LenProperties
  <2>3. Len(h[c]) \in 1..Len(h[c])
    BY <1>1, <2>2
  <2>4. \A i \in 1..Len(h[c]) : h[c][i] \in Revisions
    BY <2>1, ElementOfSeq
  <2>5. QED
    BY <2>1, <2>2, <2>3, <2>4 DEF LastOf
<1>4. QED
  BY <1>2, <1>3

LEMMA AddRevision ==
  ASSUME NEW h \in Histories, NEW c \in DOMAIN h, NEW r \in Revisions
  PROVE  LET n == With(h, c, r)
         IN /\ n \in Histories /\ DOMAIN n = DOMAIN h /\ Grown(h, n)
            /\ \A d \in DOMAIN h \ {c} : n[d] = h[d]
            /\ LastOf(n[c]) = r
            /\ \A i \in DOMAIN n[c] : i \in DOMAIN h[c] \/ n[c][i] = r
<1> DEFINE t == Append(h[c], r)
<1> DEFINE n == [h EXCEPT ![c] = t]
<1>1. /\ h \in Seq(Seq(Revisions)) /\ h[c] \in Seq(Revisions) /\ Len(h[c]) \in Nat
      /\ DOMAIN h = 1..Len(h) /\ DOMAIN h[c] = 1..Len(h[c])
  BY History DEF Histories
<1>2. /\ t \in Seq(Revisions) /\ Len(t) = Len(h[c]) + 1
      /\ \A i \in 1..Len(h[c]) : t[i] = h[c][i]
      /\ t[Len(h[c]) + 1] = r
  BY <1>1, AppendProperties
<1>3. DOMAIN t = 1..Len(h[c]) + 1
  BY <1>2, LenProperties
<1> HIDE DEF t
<1>4. /\ n \in Seq(Seq(Revisions)) /\ DOMAIN n = DOMAIN h
      /\ n[c] = t /\ \A d \in DOMAIN h \ {c} : n[d] = h[d]
  BY <1>1, <1>2, ExceptSeq
<1>5. With(h, c, r) = n
  BY DEF With, t
<1> HIDE DEF n
<1>6. n \in Histories
  <2>1. ASSUME NEW d \in DOMAIN n PROVE Len(n[d]) > 0
    BY <1>1, <1>2, <1>4, History
  <2>2. QED
    BY <1>4, <2>1 DEF Histories
<1>7. Grown(h, n)
  <2>1. \A i \in DOMAIN h[c] : i \in DOMAIN t /\ t[i] = h[c][i]
    BY <1>1, <1>2, <1>3
  <2>2. \A d \in DOMAIN h : d \in DOMAIN n /\ \A i \in DOMAIN h[d] : i \in DOMAIN n[d] /\ n[d][i] = h[d][i]
    BY <1>4, <2>1
  <2>3. QED
    BY <2>2 DEF Grown
<1>8. LastOf(n[c]) = r
  BY <1>2, <1>4 DEF LastOf
<1>9. \A i \in DOMAIN n[c] : i \in DOMAIN h[c] \/ n[c][i] = r
  BY <1>1, <1>2, <1>3, <1>4
<1>10. QED
  BY <1>4, <1>5, <1>6, <1>7, <1>8, <1>9

LEMMA AddConfiguration ==
  ASSUME NEW h \in Histories, NEW r \in Revisions
  PROVE  LET n == Append(h, <<r>>)
             c == Len(h) + 1
         IN /\ n \in Histories /\ DOMAIN n = DOMAIN h \cup {c} /\ Grown(h, n)
            /\ c \notin DOMAIN h /\ c # 0
            /\ \A d \in DOMAIN h : n[d] = h[d]
            /\ DOMAIN n[c] = {1} /\ n[c][1] = r /\ LastOf(n[c]) = r
<1> DEFINE t == <<r>>
<1> DEFINE n == Append(h, t)
<1> DEFINE c == Len(h) + 1
<1>1. h \in Seq(Seq(Revisions)) /\ Len(h) \in Nat /\ DOMAIN h = 1..Len(h)
  BY History DEF Histories
<1>2. t \in Seq(Revisions) /\ Len(t) = 1 /\ t[1] = r /\ DOMAIN t = {1}
  OBVIOUS
<1> HIDE DEF t
<1>3. /\ n \in Seq(Seq(Revisions)) /\ Len(n) = Len(h) + 1
      /\ \A d \in 1..Len(h) : n[d] = h[d]
      /\ n[c] = t
  BY <1>1, <1>2, AppendProperties
<1>4. DOMAIN n = 1..Len(h) + 1
  BY <1>3, LenProperties
<1> HIDE DEF n
<1>5. DOMAIN n = DOMAIN h \cup {c} /\ c \notin DOMAIN h /\ c # 0
  BY <1>1, <1>4
<1>6. n \in Histories
  <2> HIDE DEF c
  <2>1. n[c] = t /\ Len(t) > 0
    BY <1>2, <1>3
  <2>2. \A d \in DOMAIN h : Len(h[d]) > 0 /\ n[d] = h[d]
    BY <1>1, <1>3 DEF Histories
  <2>3. \A d \in DOMAIN n : Len(n[d]) > 0
    BY <1>5, <2>1, <2>2
  <2>4. QED
    BY <1>3, <2>3 DEF Histories
<1>7. Grown(h, n)
  BY <1>1, <1>3, <1>5 DEF Grown
<1>8. QED
  BY <1>1, <1>2, <1>3, <1>5, <1>6, <1>7 DEF LastOf, n, t

LEMMA GrownTwice ==
  ASSUME NEW h, NEW m, NEW n, Grown(h, m), Grown(m, n)
  PROVE  Grown(h, n)
BY DEF Grown

LEMMA ReviewedGrows ==
  ASSUME NEW decisions, NEW more, decisions \subseteq more, NEW h, NEW n, Grown(h, n), NEW content,
         Reviewed(decisions, h, content)
  PROVE  Reviewed(more, n, content)
BY DEF Reviewed, Grown

LEMMA ResolvedGrows ==
  ASSUME NEW h, NEW n, Grown(h, n), NEW ref, Resolved(h, ref)
  PROVE  Resolved(n, ref)
BY DEF Resolved, Grown

\* One more revision that, if effective, says what was reviewed.
LEMMA ReviewedRevision ==
  ASSUME NEW decisions, NEW h \in Histories, ReviewedHistory(decisions, h),
         NEW c \in DOMAIN h, NEW r \in Revisions,
         Effective(r) /\ r.impact = "high" => Reviewed(decisions, h, r.content)
  PROVE  ReviewedHistory(decisions, With(h, c, r))
<1> DEFINE n == With(h, c, r)
<1>1. /\ DOMAIN n = DOMAIN h /\ Grown(h, n)
      /\ \A d \in DOMAIN h \ {c} : n[d] = h[d]
      /\ \A i \in DOMAIN n[c] : i \in DOMAIN h[c] \/ n[c][i] = r
  BY AddRevision
<1> HIDE DEF n
<1>2. ASSUME NEW d \in DOMAIN n, NEW i \in DOMAIN n[d], Effective(n[d][i]), n[d][i].impact = "high"
      PROVE  Reviewed(decisions, n, n[d][i].content)
  <2>1. CASE i \in DOMAIN h[d]
    <3>1. n[d][i] = h[d][i]
      BY <1>1, <2>1 DEF Grown
    <3>2. Reviewed(decisions, h, n[d][i].content)
      BY <1>1, <1>2, <2>1, <3>1 DEF ReviewedHistory
    <3>3. QED
      BY <1>1, <3>2, ReviewedGrows
  <2>2. CASE i \notin DOMAIN h[d]
    <3>1. n[d][i] = r
      BY <1>1, <1>2, <2>2
    <3>2. QED
      BY <1>1, <1>2, <3>1, ReviewedGrows
  <2>3. QED
    BY <2>1, <2>2
<1>3. QED
  BY <1>2 DEF ReviewedHistory, n

LEMMA ReviewedConfiguration ==
  ASSUME NEW decisions, NEW h \in Histories, ReviewedHistory(decisions, h), NEW r \in Revisions,
         Effective(r) /\ r.impact = "high" => Reviewed(decisions, h, r.content)
  PROVE  ReviewedHistory(decisions, Append(h, <<r>>))
<1> DEFINE n == Append(h, <<r>>)
<1> DEFINE c == Len(h) + 1
<1>1. /\ DOMAIN n = DOMAIN h \cup {c} /\ Grown(h, n)
      /\ \A d \in DOMAIN h : n[d] = h[d]
      /\ DOMAIN n[c] = {1} /\ n[c][1] = r
  BY AddConfiguration
<1> HIDE DEF n, c
<1>2. ASSUME NEW d \in DOMAIN n, NEW i \in DOMAIN n[d], Effective(n[d][i]), n[d][i].impact = "high"
      PROVE  Reviewed(decisions, n, n[d][i].content)
  <2>1. CASE d \in DOMAIN h
    BY <1>1, <1>2, <2>1, ReviewedGrows DEF ReviewedHistory
  <2>2. CASE d \notin DOMAIN h
    BY <1>1, <1>2, <2>2, ReviewedGrows
  <2>3. QED
    BY <2>1, <2>2
<1>3. QED
  BY <1>2 DEF ReviewedHistory, n

-----------------------------------------------------------------------------
(* What a request has read.                                                *)

\* Every release set is as it was, or has a later revision.
Moved(rs, ns) ==
    \A r \in DOMAIN rs :
        r \in DOMAIN ns /\ (ns[r] = rs[r] \/ ns[r].revision > rs[r].revision)

LEMMA ReadStays ==
  ASSUME NEW rs \in Seq(ReleaseSets), NEW ns \in Seq(ReleaseSets), Moved(rs, ns),
         NEW r, NEW revision \in Nat, NEW state, ReleaseRead(rs, r, revision, state)
  PROVE  ReleaseRead(ns, r, revision, state)
<1>1. r \in DOMAIN rs /\ r \in DOMAIN ns /\ (ns[r] = rs[r] \/ ns[r].revision > rs[r].revision)
  BY DEF Moved, ReleaseRead
<1>2. rs[r] \in ReleaseSets /\ ns[r] \in ReleaseSets
  BY <1>1, LenProperties, ElementOfSeq
<1>3. rs[r].revision \in Nat /\ ns[r].revision \in Nat
  BY <1>2 DEF ReleaseSets
<1>4. QED
  BY <1>1, <1>3 DEF ReleaseRead

LEMMA WorkStays ==
  ASSUME NEW w \in Work \cup {Idle},
         NEW decisions, NEW more, decisions \subseteq more,
         NEW h, NEW n, Grown(h, n),
         NEW rs \in Seq(ReleaseSets), NEW ns \in Seq(ReleaseSets), Moved(rs, ns),
         WorkOK(w, decisions, h, rs)
  PROVE  WorkOK(w, more, n, ns)
<1>1. CASE w.pc \in {"active", "replace"} /\ w.of = "config"
  <2>1. ConfigWork(w, decisions, h)
    BY <1>1 DEF WorkOK
  <2>2. RevisionRead(n, w.id, w.revision) /\ n[w.id][w.revision] = h[w.id][w.revision]
    BY <2>1 DEF ConfigWork, RevisionRead, Grown
  <2>3. w.previous # 0 =>
          /\ RevisionRead(n, w.previous, w.seen)
          /\ n[w.previous][w.seen] = h[w.previous][w.seen]
    BY <2>1 DEF ConfigWork, RevisionRead, Grown
  <2>4. ConfigWork(w, more, n)
    BY <2>1, <2>2, <2>3, ReviewedGrows DEF ConfigWork
  <2>5. QED
    BY <1>1, <2>4 DEF WorkOK
<1>2. CASE w.pc \in {"active", "replace"} /\ w.of # "config"
  <2>1. w.revision \in Nat /\ w.seen \in Nat
    BY <1>2 DEF Work, Idle
  <2>2. ReleaseWork(w, ns)
    BY <1>2, <2>1, ReadStays DEF WorkOK, ReleaseWork
  <2>3. QED
    BY <1>2, <2>2 DEF WorkOK
<1>3. CASE w.pc \notin {"active", "replace"}
  BY <1>3 DEF WorkOK, RollbackWork, RevisionRead, Grown
<1>4. QED
  BY <1>1, <1>2, <1>3

LEMMA IdleWork ==
  ASSUME NEW decisions, NEW h, NEW rs
  PROVE  WorkOK(Idle, decisions, h, rs)
BY DEF WorkOK, Idle

LEMMA NothingMoves ==
  ASSUME NEW h, NEW rs
  PROVE  Grown(h, h) /\ Moved(rs, rs)
BY DEF Grown, Moved

\* Requests go on, or one of them w to a state that is right about what is stored.
LEMMA RequestsStep ==
  ASSUME TypeInv, RequestsInv, approvals \subseteq approvals', Grown(configs, configs'),
         releases' \in Seq(ReleaseSets), Moved(releases, releases'),
         \/ req' = req
         \/ \E q \in Requests, w \in Work \cup {Idle} :
              req' = [req EXCEPT ![q] = w] /\ WorkOK(w, approvals', configs', releases')
  PROVE  RequestsInv' /\ req' \in [Requests -> Work \cup {Idle}]
<1>1. \A q \in Requests : req[q] \in Work \cup {Idle} /\ WorkOK(req[q], approvals', configs', releases')
  BY WorkStays DEF TypeInv, RequestsInv
<1>2. CASE req' = req
  BY <1>1, <1>2 DEF RequestsInv, TypeInv
<1>3. ASSUME NEW q \in Requests, NEW w \in Work \cup {Idle}, req' = [req EXCEPT ![q] = w],
             WorkOK(w, approvals', configs', releases')
      PROVE  RequestsInv' /\ req' \in [Requests -> Work \cup {Idle}]
  <2>1. \A s \in Requests : req'[s] = IF s = q THEN w ELSE req[s]
    BY <1>3 DEF TypeInv
  <2>2. req' \in [Requests -> Work \cup {Idle}]
    BY <1>3 DEF TypeInv
  <2>3. QED
    BY <1>1, <1>3, <2>1, <2>2 DEF RequestsInv
<1>4. QED
  BY <1>2, <1>3

-----------------------------------------------------------------------------
(* The steps of configurations.                                            *)

\* A step that writes configurations or approvals.
LEMMA ConfigStep ==
  ASSUME IInv, configs' \in Histories, Grown(configs, configs'),
         Chain(DOMAIN configs', StatesOf(configs'), PreviousOf(configs')),
         ReviewedHistory(approvals', configs'),
         approvals \subseteq approvals', approvals' \subseteq Approvals,
         \A a, b \in approvals' : a.config = b.config /\ a.revision = b.revision => a = b,
         releases' = releases, begun' \in 0..MaxBegun,
         req' = req \/ \E q \in Requests : req' = [req EXCEPT ![q] = Idle]
  PROVE  IInv'
<1>1. releases' \in Seq(ReleaseSets) /\ Moved(releases, releases')
  BY NothingMoves DEF IInv, TypeInv
<1>2. RequestsInv' /\ req' \in [Requests -> Work \cup {Idle}]
  BY <1>1, IdleWork, RequestsStep DEF IInv
<1>3. TypeInv'
  BY <1>1, <1>2 DEF TypeInv
<1>4. ReleasesInv'
  BY ResolvedGrows DEF IInv, ReleasesInv, ReleasesResolve
<1>5. QED
  BY <1>2, <1>3, <1>4 DEF IInv, ConfigsInv

LEMMA BegunCounts ==
  ASSUME TypeInv, BeginWork \/ begun' = begun
  PROVE  begun' \in 0..MaxBegun
BY ControlPlaneAssumption DEF TypeInv, BeginWork

LEMMA ReviewedByMore ==
  ASSUME NEW decisions, NEW more, decisions \subseteq more, NEW h, ReviewedHistory(decisions, h)
  PROVE  ReviewedHistory(more, h)
BY DEF ReviewedHistory, Reviewed

\* A revision that keeps the configuration's place in the chain.
LEMMA EditKeepsConfigs ==
  ASSUME IInv, NEW c \in DOMAIN configs, NEW r \in Revisions,
         r.previous = Latest(c).previous,
         r.state = "superseded" <=> Latest(c).state = "superseded",
         r.state \in Drafting => Latest(c).state \in Drafting,
         Effective(r) /\ r.impact = "high" => Reviewed(approvals, configs, r.content),
         configs' = With(configs, c, r)
  PROVE  /\ configs' \in Histories /\ Grown(configs, configs')
         /\ Chain(DOMAIN configs', StatesOf(configs'), PreviousOf(configs'))
         /\ ReviewedHistory(approvals, configs')
<1>1. /\ configs' \in Histories /\ DOMAIN configs' = DOMAIN configs /\ Grown(configs, configs')
      /\ \A d \in DOMAIN configs \ {c} : configs'[d] = configs[d]
      /\ LastOf(configs'[c]) = r
  BY AddRevision DEF IInv, TypeInv
<1>2. ReviewedHistory(approvals, configs')
  BY ReviewedRevision DEF IInv, TypeInv, ConfigsInv
<1>3. \A d \in DOMAIN configs :
        /\ PreviousOf(configs')[d] = PreviousOf(configs)[d]
        /\ StatesOf(configs')[d] = IF d = c THEN r.state ELSE StatesOf(configs)[d]
  BY <1>1 DEF PreviousOf, StatesOf, Latest, LastOf
<1>4. StatesOf(configs)[c] = Latest(c).state
  BY DEF StatesOf, Latest, LastOf
<1> DEFINE ids == DOMAIN configs
<1> DEFINE state == StatesOf(configs)
<1> DEFINE previous == PreviousOf(configs)
<1> DEFINE next == StatesOf(configs')
<1> DEFINE before == PreviousOf(configs')
<1>5. Chain(ids, state, previous)
  BY DEF IInv, ConfigsInv
<1>6. /\ \A d \in ids : before[d] = previous[d]
      /\ \A d \in ids : next[d] = "superseded" <=> state[d] = "superseded"
      /\ \A d \in ids : next[d] \in Drafting => state[d] \in Drafting
  BY <1>3, <1>4
<1> HIDE DEF ids, state, previous, next, before
<1>7. Chain(ids, next, before)
  BY <1>5, <1>6, ChainKept
<1>8. QED
  BY <1>1, <1>2, <1>7 DEF ids, next, before

LEMMA CreateConfigurationKeeps ==
  ASSUME IInv, NEW a \in Admins, NEW impact \in {"normal", "high"}, CreateConfiguration(a, impact)
  PROVE  IInv'
<1> DEFINE r == [state |-> "draft", impact |-> impact, author |-> a,
                 content |-> <<Len(configs) + 1, 1>>, previous |-> 0]
<1> DEFINE n == Len(configs) + 1
<1>1. n \in Nat /\ configs \in Histories
  BY History DEF IInv, TypeInv
<1>2. r \in Revisions
  BY <1>1 DEF Revisions
<1>3. r.state = "draft" /\ r.previous = 0 /\ configs' = Append(configs, <<r>>)
  BY DEF CreateConfiguration
<1> HIDE DEF r
<1>4. /\ configs' \in Histories /\ DOMAIN configs' = DOMAIN configs \cup {n}
      /\ Grown(configs, configs') /\ n \notin DOMAIN configs /\ n # 0
      /\ \A d \in DOMAIN configs : configs'[d] = configs[d]
      /\ LastOf(configs'[n]) = r
  BY <1>1, <1>2, <1>3, AddConfiguration
<1> HIDE DEF n
<1>5. Chain(DOMAIN configs', StatesOf(configs'), PreviousOf(configs'))
  <2> DEFINE ids == DOMAIN configs
  <2> DEFINE state == StatesOf(configs)
  <2> DEFINE previous == PreviousOf(configs)
  <2> DEFINE next == StatesOf(configs')
  <2> DEFINE before == PreviousOf(configs')
  <2>1. Chain(ids, state, previous) /\ n # 0 /\ n \notin ids
    BY <1>4 DEF IInv, ConfigsInv
  <2>2. \A d \in ids : before[d] = previous[d] /\ next[d] = state[d]
    BY <1>4 DEF PreviousOf, StatesOf
  <2>3. before[n] = 0 /\ next[n] = "draft"
    BY <1>3, <1>4 DEF PreviousOf, StatesOf
  <2>4. DOMAIN configs' = ids \cup {n}
    BY <1>4
  <2> HIDE DEF ids, state, previous, next, before
  <2>5. Chain(ids \cup {n}, next, before)
    BY <2>1, <2>2, <2>3, ChainBegins DEF Drafting
  <2>6. QED
    BY <2>4, <2>5 DEF next, before
<1>6. ReviewedHistory(approvals', configs')
  BY <1>1, <1>2, <1>3, ReviewedConfiguration
     DEF IInv, ConfigsInv, CreateConfiguration, Effective
<1>7. begun' \in 0..MaxBegun
  BY BegunCounts DEF IInv, CreateConfiguration
<1>8. QED
  BY <1>4, <1>5, <1>6, <1>7, ConfigStep DEF IInv, TypeInv, CreateConfiguration

LEMMA LatestIs ==
  ASSUME IInv, NEW c \in DOMAIN configs
  PROVE  /\ Latest(c) \in Revisions /\ Len(configs[c]) \in Nat \ {0} /\ c \in Nat
         /\ Len(configs[c]) \in DOMAIN configs[c]
         /\ Latest(c) = configs[c][Len(configs[c])] /\ Latest(c) = LastOf(configs[c])
         /\ Latest(c).state \in Drafting => Latest(c).previous = 0
<1>1. configs \in Histories
  BY DEF IInv, TypeInv
<1>2. Latest(c) = LastOf(configs[c]) /\ Latest(c) = configs[c][Len(configs[c])]
  BY DEF Latest, LastOf
<1>3. Latest(c).state \in Drafting => Latest(c).previous = 0
  BY <1>2 DEF IInv, ConfigsInv, Chain, StatesOf, PreviousOf
<1>4. QED
  BY <1>1, <1>2, <1>3, History

LEMMA EditKeeps ==
  ASSUME IInv, NEW c \in DOMAIN configs,
         PatchConfiguration(c) \/ ValidateConfiguration(c) \/ WithdrawConfiguration(c)
  PROVE  IInv'
<1> DEFINE content == <<c, Len(configs[c]) + 1>>
<1>1. /\ Latest(c) \in Revisions /\ content \in Nat \X Nat
      /\ Latest(c).state \in Drafting => Latest(c).previous = 0
  BY LatestIs
<1>2. PICK r \in Revisions :
        /\ configs' = With(configs, c, r)
        /\ r.previous = Latest(c).previous /\ r.state \in {"draft", "awaiting_approval", "withdrawn"}
        /\ r.state # "withdrawn" => Latest(c).state = "draft"
        /\ Latest(c).state # "superseded"
  <2>1. CASE PatchConfiguration(c)
    <3> DEFINE r == [Latest(c) EXCEPT !.content = content]
    <3>1. configs' = With(configs, c, r) /\ Latest(c).state = "draft"
      BY <2>1 DEF PatchConfiguration
    <3> HIDE DEF content
    <3>2. r \in Revisions /\ r.previous = Latest(c).previous /\ r.state = Latest(c).state
      BY <1>1 DEF Revisions
    <3>3. QED
      BY <3>1, <3>2
  <2>2. CASE ValidateConfiguration(c)
    <3> DEFINE r == [Latest(c) EXCEPT !.state = "awaiting_approval", !.previous = 0]
    <3>1. configs' = With(configs, c, r) /\ Latest(c).state = "draft"
      BY <2>2 DEF ValidateConfiguration
    <3>2. r \in Revisions /\ r.previous = 0 /\ r.state = "awaiting_approval"
      BY <1>1 DEF Revisions
    <3>3. QED
      BY <1>1, <3>1, <3>2 DEF Drafting
  <2>3. CASE WithdrawConfiguration(c)
    <3> DEFINE r == [Latest(c) EXCEPT !.state = "withdrawn"]
    <3>1. configs' = With(configs, c, r) /\ Latest(c).state \in {"draft", "awaiting_approval", "published"}
      BY <2>3 DEF WithdrawConfiguration
    <3>2. r \in Revisions /\ r.previous = Latest(c).previous /\ r.state = "withdrawn"
      BY <1>1 DEF Revisions
    <3>3. QED
      BY <3>1, <3>2
  <2>4. QED
    BY <2>1, <2>2, <2>3
<1>3. /\ configs' \in Histories /\ Grown(configs, configs')
      /\ Chain(DOMAIN configs', StatesOf(configs'), PreviousOf(configs'))
      /\ ReviewedHistory(approvals, configs')
  BY <1>2, EditKeepsConfigs DEF Drafting, Effective
<1>4. begun' \in 0..MaxBegun
  BY BegunCounts DEF IInv, PatchConfiguration, ValidateConfiguration, WithdrawConfiguration
<1>5. QED
  BY <1>3, <1>4, ConfigStep
     DEF IInv, TypeInv, PatchConfiguration, ValidateConfiguration, WithdrawConfiguration

\* A first decision on a revision.
LEMMA DecisionIsOne ==
  ASSUME IInv, NEW s \in Admins, NEW c \in DOMAIN configs, NEW decision \in {"approved", "rejected"},
         Undecided(c, Len(configs[c])), approvals' = Decided(c, Len(configs[c]), s, decision)
  PROVE  /\ approvals \subseteq approvals' /\ approvals' \subseteq Approvals
         /\ \A a, b \in approvals' : a.config = b.config /\ a.revision = b.revision => a = b
<1> DEFINE new == [config |-> c, revision |-> Len(configs[c]), reviewer |-> s, decision |-> decision]
<1>1. new \in Approvals
  BY LatestIs DEF Approvals
<1>2. approvals' = approvals \cup {new}
  BY DEF Decided
<1>3. \A a \in approvals : a.config # new.config \/ a.revision # new.revision
  BY DEF Undecided
<1> HIDE DEF new
<1>4. QED
  BY <1>1, <1>2, <1>3 DEF IInv, TypeInv

LEMMA ApproveConfigurationKeeps ==
  ASSUME IInv, NEW s \in Admins, NEW c \in DOMAIN configs, ApproveConfiguration(s, c)
  PROVE  IInv'
<1>1. /\ approvals \subseteq approvals' /\ approvals' \subseteq Approvals
      /\ \A a, b \in approvals' : a.config = b.config /\ a.revision = b.revision => a = b
  BY DecisionIsOne DEF ApproveConfiguration
<1>2. UNCHANGED <<configs, releases, req, begun>>
  BY DEF ApproveConfiguration
<1>3. Grown(configs, configs') /\ ReviewedHistory(approvals', configs')
  BY <1>1, <1>2, NothingMoves, ReviewedByMore DEF IInv, ConfigsInv
<1>4. QED
  BY <1>1, <1>2, <1>3, ConfigStep DEF IInv, TypeInv, ConfigsInv

LEMMA RejectConfigurationKeeps ==
  ASSUME IInv, NEW s \in Admins, NEW c \in DOMAIN configs, RejectConfiguration(s, c)
  PROVE  IInv'
<1> DEFINE r == [Latest(c) EXCEPT !.state = "draft"]
<1>1. /\ approvals \subseteq approvals' /\ approvals' \subseteq Approvals
      /\ \A a, b \in approvals' : a.config = b.config /\ a.revision = b.revision => a = b
  BY DecisionIsOne DEF RejectConfiguration
<1>2. r \in Revisions /\ r.previous = Latest(c).previous /\ r.state = "draft"
  BY LatestIs DEF Revisions
<1>3. configs' = With(configs, c, r) /\ Latest(c).state = "awaiting_approval"
  BY DEF RejectConfiguration
<1> HIDE DEF r
<1>4. /\ configs' \in Histories /\ Grown(configs, configs')
      /\ Chain(DOMAIN configs', StatesOf(configs'), PreviousOf(configs'))
      /\ ReviewedHistory(approvals, configs')
  BY <1>2, <1>3, EditKeepsConfigs DEF Drafting, Effective
<1>5. ReviewedHistory(approvals', configs')
  BY <1>1, <1>4, ReviewedByMore
<1>6. begun' \in 0..MaxBegun
  BY BegunCounts DEF IInv, RejectConfiguration
<1>7. QED
  BY <1>1, <1>4, <1>5, <1>6, ConfigStep DEF RejectConfiguration

-----------------------------------------------------------------------------
(* The steps of requests that only read.                                   *)

LEMMA ReadStep ==
  ASSUME IInv, NEW q \in Requests, NEW w \in Work,
         WorkOK(w, approvals, configs, releases), req' = [req EXCEPT ![q] = w],
         UNCHANGED <<configs, approvals, releases, begun>>
  PROVE  IInv'
<1>1. RequestsInv' /\ req' \in [Requests -> Work \cup {Idle}]
  BY NothingMoves, RequestsStep DEF IInv, TypeInv
<1>2. QED
  BY <1>1 DEF IInv, TypeInv, ConfigsInv, ReleasesInv

LEMMA BeginState ==
  ASSUME NEW of \in {"config", "release"}, NEW id \in Nat, NEW revision \in Nat
  PROVE  LET w == [pc |-> "active", of |-> of, id |-> id, revision |-> revision,
                   previous |-> 0, seen |-> 0]
         IN w \in Work
BY DEF Work

LEMMA StartPublishKeeps ==
  ASSUME IInv, NEW q \in Requests, NEW s \in Admins, NEW c \in DOMAIN configs, StartPublish(q, s, c)
  PROVE  IInv'
<1> DEFINE revision == Len(configs[c])
<1> DEFINE w == [pc |-> "active", of |-> "config", id |-> c, revision |-> revision,
                 previous |-> 0, seen |-> 0]
<1>1. /\ Latest(c) \in Revisions /\ revision \in Nat /\ c \in Nat
      /\ revision \in DOMAIN configs[c] /\ Latest(c) = configs[c][revision]
  BY LatestIs
<1>2. w \in Work
  BY <1>1, BeginState
<1>3. Latest(c).state \in Drafting
  BY DEF StartPublish, Publishable, Drafting
<1>4. Latest(c).impact = "high" => Reviewed(approvals, configs, Latest(c).content)
  <2> SUFFICES ASSUME Latest(c).impact = "high"
               PROVE  Reviewed(approvals, configs, Latest(c).content)
    OBVIOUS
  <2>1. IndependentlyApproved(c)
    BY DEF StartPublish, Publishable
  <2>2. QED
    BY <1>1, <2>1 DEF IndependentlyApproved, Reviewed
<1>5. req' = [req EXCEPT ![q] = w] /\ UNCHANGED <<configs, approvals, releases, begun>>
  BY DEF StartPublish, Begin
<1>6. w.pc = "active" /\ w.of = "config" /\ w.id = c /\ w.revision = revision /\ w.previous = 0
  OBVIOUS
<1> HIDE DEF w, revision
<1>7. WorkOK(w, approvals, configs, releases)
  BY <1>1, <1>3, <1>4, <1>6 DEF WorkOK, ConfigWork, RevisionRead
<1>8. QED
  BY <1>2, <1>5, <1>7, ReadStep

LEMMA ReleaseIs ==
  ASSUME IInv, NEW r \in DOMAIN releases
  PROVE  /\ releases \in Seq(ReleaseSets) /\ r \in 1..Len(releases) /\ r \in Nat /\ r # 0
         /\ Len(releases) \in Nat
         /\ releases[r] \in ReleaseSets /\ releases[r].revision \in Nat
         /\ releases[r].state \in Drafting => releases[r].previous = 0
<1>1. releases \in Seq(ReleaseSets)
  BY DEF IInv, TypeInv
<1>2. /\ r \in 1..Len(releases) /\ Len(releases) \in Nat
      /\ releases[r] \in ReleaseSets
  BY <1>1, LenProperties, ElementOfSeq
<1>3. releases[r].state \in Drafting => releases[r].previous = 0
  BY DEF IInv, ReleasesInv, Chain, ReleaseStates, ReleasePrevious
<1>4. QED
  BY <1>1, <1>2, <1>3 DEF ReleaseSets

LEMMA StartPublishReleaseKeeps ==
  ASSUME IInv, NEW q \in Requests, NEW r \in DOMAIN releases, StartPublishRelease(q, r)
  PROVE  IInv'
<1> DEFINE revision == releases[r].revision
<1> DEFINE w == [pc |-> "active", of |-> "release", id |-> r, revision |-> revision,
                 previous |-> 0, seen |-> 0]
<1>1. revision \in Nat /\ r \in Nat
  BY ReleaseIs
<1>2. w \in Work
  BY <1>1, BeginState
<1>3. releases[r].state = "validation" /\ releases[r].revision = revision
  BY DEF StartPublishRelease
<1>4. req' = [req EXCEPT ![q] = w] /\ UNCHANGED <<configs, approvals, releases, begun>>
  BY DEF StartPublishRelease, Begin
<1>5. w.pc = "active" /\ w.of = "release" /\ w.id = r /\ w.revision = revision /\ w.previous = 0
  OBVIOUS
<1> HIDE DEF w, revision
<1>6. WorkOK(w, approvals, configs, releases)
  BY <1>1, <1>3, <1>5 DEF WorkOK, ReleaseWork, ReleaseRead
<1>7. QED
  BY <1>2, <1>4, <1>6, ReadStep

LEMMA StartRollbackKeeps ==
  ASSUME IInv, NEW q \in Requests, NEW c \in DOMAIN configs, NEW t \in DOMAIN configs,
         StartRollback(q, c, t)
  PROVE  IInv'
<1> DEFINE revision == Len(configs[c])
<1> DEFINE seen == Len(configs[t])
<1> DEFINE w == [pc |-> "rollback", id |-> c, revision |-> revision, target |-> t, seen |-> seen]
<1>1. /\ revision \in Nat /\ c \in Nat /\ seen \in Nat /\ t \in Nat
      /\ revision \in DOMAIN configs[c] /\ seen \in DOMAIN configs[t]
      /\ Latest(c) = configs[c][revision] /\ Latest(t) = configs[t][seen]
  BY LatestIs
<1>2. Latest(c).state = "published" /\ Effective(Latest(t))
  BY DEF StartRollback, RollbackTarget, Effective
<1>3. req' = [req EXCEPT ![q] = w] /\ UNCHANGED <<configs, approvals, releases, begun>>
  BY DEF StartRollback
<1> HIDE DEF revision, seen
<1>4. /\ w \in Work /\ w.pc = "rollback" /\ w.id = c /\ w.revision = revision
      /\ w.target = t /\ w.seen = seen
  BY <1>1 DEF Work
<1> HIDE DEF w
<1>5. WorkOK(w, approvals, configs, releases)
  BY <1>1, <1>2, <1>4 DEF WorkOK, RollbackWork, RevisionRead
<1>6. QED
  BY <1>3, <1>4, <1>5, ReadStep

\* A request that is being served, by what it does.
LEMMA Serving ==
  ASSUME IInv, NEW q \in Requests
  PROVE  /\ WorkOK(req[q], approvals, configs, releases)
         /\ req[q].pc \in {"active", "replace"} =>
              req[q] \in [pc : {"active", "replace"}, of : {"config", "release"},
                          id : Nat, revision : Nat, previous : Nat, seen : Nat]
         /\ req[q].pc = "rollback" =>
              req[q] \in [pc : {"rollback"}, id : Nat, revision : Nat, target : Nat, seen : Nat]
<1>1. req[q] \in Work \cup {Idle} /\ WorkOK(req[q], approvals, configs, releases)
  BY DEF IInv, TypeInv, RequestsInv
<1>2. QED
  BY <1>1 DEF Work, Idle

LEMMA ReadActiveKeeps ==
  ASSUME IInv, NEW q \in Requests, ReadActive(q)
  PROVE  IInv'
<1> DEFINE w == req[q]
<1>1. /\ w \in [pc : {"active", "replace"}, of : {"config", "release"},
                id : Nat, revision : Nat, previous : Nat, seen : Nat]
      /\ w.pc = "active" /\ WorkOK(w, approvals, configs, releases)
      /\ UNCHANGED <<configs, approvals, releases, begun>>
  BY Serving DEF ReadActive
<1>2. CASE req' = [req EXCEPT ![q].pc = "replace"]
  <2> DEFINE n == [w EXCEPT !.pc = "replace"]
  <2>1. /\ n \in Work /\ n.pc = "replace" /\ n.of = w.of /\ n.id = w.id
        /\ n.revision = w.revision /\ n.previous = w.previous /\ n.seen = w.seen
    BY <1>1 DEF Work
  <2>2. req' = [req EXCEPT ![q] = n]
    BY <1>2
  <2> HIDE DEF n, w
  <2>3. WorkOK(n, approvals, configs, releases)
    BY <1>1, <2>1 DEF WorkOK, ConfigWork, ReleaseWork
  <2>4. QED
    BY <1>1, <2>1, <2>2, <2>3, ReadStep
<1>3. ASSUME w.of = "config", NEW p \in ActiveConfigs,
             req' = [req EXCEPT ![q] = [w EXCEPT !.pc = "replace", !.previous = p,
                                                 !.seen = Len(configs[p])]]
      PROVE  IInv'
  <2> DEFINE seen == Len(configs[p])
  <2> DEFINE n == [w EXCEPT !.pc = "replace", !.previous = p, !.seen = seen]
  <2>1. /\ p \in DOMAIN configs /\ p \in Nat /\ seen \in Nat /\ seen \in DOMAIN configs[p]
        /\ configs[p][seen].state = "published"
    BY LatestIs DEF ActiveConfigs
  <2>2. req' = [req EXCEPT ![q] = n]
    BY <1>3
  <2> HIDE DEF seen
  <2>3. /\ n \in Work /\ n.pc = "replace" /\ n.of = w.of /\ n.id = w.id
        /\ n.revision = w.revision /\ n.previous = p /\ n.seen = seen
    BY <1>1, <2>1 DEF Work
  <2> HIDE DEF n, w
  <2>4. WorkOK(n, approvals, configs, releases)
    BY <1>1, <1>3, <2>1, <2>3 DEF WorkOK, ConfigWork, RevisionRead
  <2>5. QED
    BY <1>1, <2>2, <2>3, <2>4, ReadStep
<1>4. ASSUME w.of # "config", NEW p \in ActiveReleases,
             req' = [req EXCEPT ![q] = [w EXCEPT !.pc = "replace", !.previous = p,
                                                 !.seen = releases[p].revision]]
      PROVE  IInv'
  <2> DEFINE seen == releases[p].revision
  <2> DEFINE n == [w EXCEPT !.pc = "replace", !.previous = p, !.seen = seen]
  <2>1. /\ p \in DOMAIN releases /\ p \in Nat /\ seen \in Nat
        /\ releases[p].revision = seen /\ releases[p].state = "published"
    BY ReleaseIs DEF ActiveReleases
  <2>2. req' = [req EXCEPT ![q] = n]
    BY <1>4
  <2> HIDE DEF seen
  <2>3. /\ n \in Work /\ n.pc = "replace" /\ n.of = w.of /\ n.id = w.id
        /\ n.revision = w.revision /\ n.previous = p /\ n.seen = seen
    BY <1>1, <2>1 DEF Work
  <2> HIDE DEF n, w
  <2>4. WorkOK(n, approvals, configs, releases)
    BY <1>1, <1>4, <2>1, <2>3 DEF WorkOK, ReleaseWork, ReleaseRead
  <2>5. QED
    BY <1>1, <2>2, <2>3, <2>4, ReadStep
<1>5. QED
  BY <1>2, <1>3, <1>4 DEF ReadActive

-----------------------------------------------------------------------------
(* Publication and rollback of configurations.                             *)

\* The last revision of p is superseded by n, a draft or a new configuration.
LEMMA ConfigsContinue ==
  ASSUME IInv, NEW p \in DOMAIN configs, Latest(p).state = "published",
         NEW n, n # 0, n # p,
         n \in DOMAIN configs => Latest(n).state \in Drafting,
         configs' \in Histories, DOMAIN configs' = DOMAIN configs \cup {n},
         \A d \in DOMAIN configs \ {n, p} : configs'[d] = configs[d],
         LastOf(configs'[p]) = [Latest(p) EXCEPT !.state = "superseded"],
         LastOf(configs'[n]).state = "published", LastOf(configs'[n]).previous = p
  PROVE  Chain(DOMAIN configs', StatesOf(configs'), PreviousOf(configs'))
<1> DEFINE ids == DOMAIN configs
<1> DEFINE state == StatesOf(configs)
<1> DEFINE previous == PreviousOf(configs)
<1> DEFINE next == StatesOf(configs')
<1> DEFINE before == PreviousOf(configs')
<1>1. Chain(ids, state, previous)
  BY DEF IInv, ConfigsInv
<1>2. Latest(p) \in Revisions /\ Latest(p) = LastOf(configs[p])
  BY LatestIs
<1>3. LastOf(configs'[p]).state = "superseded" /\ LastOf(configs'[p]).previous = Latest(p).previous
  BY <1>2 DEF Revisions
<1>4. \A d \in DOMAIN configs \ {n} : before[d] = previous[d]
  BY <1>2, <1>3 DEF PreviousOf
<1>5. \A d \in DOMAIN configs \ {n, p} : next[d] = state[d]
  BY DEF StatesOf
<1>6. before[n] = p /\ next[n] = "published" /\ next[p] = "superseded" /\ state[p] = "published"
  BY <1>2, <1>3 DEF StatesOf, PreviousOf
<1>7. n \in ids => state[n] \in Drafting
  BY LatestIs DEF StatesOf
<1> HIDE DEF ids, state, previous, next, before
<1>8. Chain(ids \cup {n}, next, before)
  BY <1>1, <1>4, <1>5, <1>6, <1>7, ChainContinues DEF ids
<1>9. QED
  BY <1>8 DEF ids, next, before

LEMMA PublishConfigurationKeeps ==
  ASSUME IInv, NEW q \in Requests, PublishConfiguration(q)
  PROVE  IInv'
<1> DEFINE w == req[q]
<1> DEFINE p == w.previous
<1> DEFINE id == w.id
<1>1. /\ w \in [pc : {"active", "replace"}, of : {"config", "release"},
                id : Nat, revision : Nat, previous : Nat, seen : Nat]
      /\ w.of = "config" /\ WorkOK(w, approvals, configs, releases) /\ w.pc = "replace"
      /\ UNCHANGED <<approvals, releases, begun>> /\ req' = [req EXCEPT ![q] = Idle]
  BY Serving DEF PublishConfiguration
<1>2. ConfigWork(w, approvals, configs)
  BY <1>1 DEF WorkOK
<1>3. ASSUME configs' \in Histories, Grown(configs, configs'),
             Chain(DOMAIN configs', StatesOf(configs'), PreviousOf(configs')),
             ReviewedHistory(approvals, configs')
      PROVE  IInv'
  BY <1>1, <1>3, ConfigStep DEF IInv, TypeInv
<1>4. CASE ~Unmoved(w)
  <2>1. configs' = configs
    BY <1>4 DEF PublishConfiguration
  <2>2. QED
    BY <1>3, <2>1, NothingMoves DEF IInv, TypeInv, ConfigsInv
<1>5. CASE Unmoved(w)
  <2> DEFINE r == [Latest(id) EXCEPT !.state = "published", !.previous = p]
  <2>1. configs' = With(Superseded(configs, p), id, r)
    BY <1>5 DEF PublishConfiguration
  <2>2. /\ id \in DOMAIN configs /\ Latest(id) \in Revisions /\ p \in Nat
        /\ Latest(id) = configs[id][w.revision] /\ Latest(id) = LastOf(configs[id])
        /\ Latest(id).state \in Drafting /\ Latest(id).previous = 0 /\ id # 0
    <3>1. id \in DOMAIN configs /\ Len(configs[id]) = w.revision
      BY <1>2, <1>5 DEF ConfigWork, RevisionRead, Unmoved
    <3>2. Latest(id) = configs[id][w.revision]
      BY <3>1 DEF Latest
    <3>3. id # 0
      BY <3>1 DEF IInv, ConfigsInv, Chain
    <3>4. QED
      BY <1>1, <1>2, <3>1, <3>2, <3>3, LatestIs DEF ConfigWork
  <2>3. /\ r \in Revisions /\ r.state = "published" /\ r.previous = p
        /\ r.impact = Latest(id).impact /\ r.content = Latest(id).content
    BY <2>2 DEF Revisions
  <2>4. r.impact = "high" => Reviewed(approvals, configs, r.content)
    BY <1>2, <2>2, <2>3 DEF ConfigWork
  <2> HIDE DEF r
  <2>5. CASE p = 0
    <3>1. configs' = With(configs, id, r)
      BY <2>1, <2>5 DEF Superseded
    <3>2. QED
      BY <1>3, <2>2, <2>3, <2>4, <2>5, <3>1, EditKeepsConfigs DEF Drafting
  <2>6. CASE p # 0
    <3> DEFINE old == [Latest(p) EXCEPT !.state = "superseded"]
    <3> DEFINE middle == With(configs, p, old)
    <3>1. /\ p \in DOMAIN configs /\ Latest(p) \in Revisions /\ Latest(p) = LastOf(configs[p])
          /\ Latest(p).state = "published" /\ Latest(p) = configs[p][Len(configs[p])]
      <4>1. p \in DOMAIN configs /\ Len(configs[p]) = w.seen
        BY <1>2, <1>5, <2>6 DEF ConfigWork, RevisionRead, Unmoved
      <4>2. Latest(p) = configs[p][w.seen]
        BY <4>1 DEF Latest
      <4>3. QED
        BY <1>2, <2>6, <4>1, <4>2, LatestIs DEF ConfigWork
    <3>2. id # p
      BY <2>2, <3>1 DEF Drafting
    <3>3. old \in Revisions /\ old.impact = Latest(p).impact /\ old.content = Latest(p).content
      BY <3>1 DEF Revisions
    <3>4. configs' = With(middle, id, r)
      BY <2>1, <2>6, <3>1 DEF Superseded
    <3>5. old.impact = "high" => Reviewed(approvals, configs, old.content)
      <4>1. Len(configs[p]) \in DOMAIN configs[p]
        BY <3>1, LatestIs
      <4>2. QED
        BY <3>1, <3>3, <4>1 DEF IInv, ConfigsInv, ReviewedHistory, Effective
    <3>6. configs \in Histories
      BY DEF IInv, TypeInv
    <3>7. old = [Latest(p) EXCEPT !.state = "superseded"]
      OBVIOUS
    <3> HIDE DEF old
    <3>8. /\ middle \in Histories /\ DOMAIN middle = DOMAIN configs /\ Grown(configs, middle)
          /\ \A d \in DOMAIN configs \ {p} : middle[d] = configs[d]
          /\ LastOf(middle[p]) = old
      BY <3>1, <3>3, <3>6, AddRevision
    <3>9. ReviewedHistory(approvals, middle)
      BY <3>1, <3>3, <3>5, <3>6, ReviewedRevision DEF IInv, ConfigsInv
    <3> HIDE DEF middle
    <3>10. /\ configs' \in Histories /\ DOMAIN configs' = DOMAIN configs /\ Grown(middle, configs')
           /\ \A d \in DOMAIN configs \ {id} : configs'[d] = middle[d]
           /\ LastOf(configs'[id]) = r
      BY <2>2, <2>3, <3>4, <3>8, AddRevision
    <3>11. ReviewedHistory(approvals, configs')
      BY <2>2, <2>3, <2>4, <3>4, <3>8, <3>9, ReviewedGrows, ReviewedRevision
    <3>12. Grown(configs, configs')
      BY <3>8, <3>10, GrownTwice
    <3>13. LastOf(configs'[p]) = old /\ \A d \in DOMAIN configs \ {id, p} : configs'[d] = configs[d]
      BY <3>1, <3>2, <3>8, <3>10
    <3>14. Chain(DOMAIN configs', StatesOf(configs'), PreviousOf(configs'))
      <4> HIDE DEF id, p
      <4>1. DOMAIN configs' = DOMAIN configs \cup {id}
        BY <2>2, <3>10
      <4>2. LastOf(configs'[p]) = [Latest(p) EXCEPT !.state = "superseded"]
        BY <3>7, <3>13
      <4>3. LastOf(configs'[id]).state = "published" /\ LastOf(configs'[id]).previous = p
        BY <2>3, <3>10
      <4>4. id # 0 /\ id # p /\ p \in DOMAIN configs /\ Latest(p).state = "published"
            /\ Latest(id).state \in Drafting /\ configs' \in Histories
        BY <2>2, <3>1, <3>2, <3>10
      <4>5. QED
        BY <3>13, <4>1, <4>2, <4>3, <4>4, ConfigsContinue
    <3>15. QED
      BY <1>3, <3>10, <3>11, <3>12, <3>14
  <2>7. QED
    BY <2>5, <2>6
<1>6. QED
  BY <1>4, <1>5

LEMMA SameInterval ==
  ASSUME NEW a \in Nat, NEW b \in Nat, 1..a = 1..b
  PROVE  a = b
<1>1. ~(a < b)
  <2>1. b \in 1..b => b \in 1..a
    OBVIOUS
  <2>2. QED
    BY <2>1
<1>2. ~(b < a)
  <2>1. a \in 1..a => a \in 1..b
    OBVIOUS
  <2>2. QED
    BY <2>1
<1>3. QED
  BY <1>1, <1>2

LEMMA RollbackConfigurationKeeps ==
  ASSUME IInv, NEW q \in Requests, NEW s \in Admins, RollbackConfiguration(q, s)
  PROVE  IInv'
<1> DEFINE w == req[q]
<1> DEFINE p == w.id
<1> DEFINE n == Len(configs) + 1
<1> DEFINE copied == configs[w.target][w.seen]
<1>1. /\ w \in [pc : {"rollback"}, id : Nat, revision : Nat, target : Nat, seen : Nat]
      /\ WorkOK(w, approvals, configs, releases) /\ w.pc = "rollback"
      /\ UNCHANGED <<approvals, releases>> /\ req' = [req EXCEPT ![q] = Idle]
      /\ begun' \in 0..MaxBegun
  BY Serving, BegunCounts DEF RollbackConfiguration, IInv
<1>2. RollbackWork(w, configs)
  BY <1>1 DEF WorkOK
<1>3. ASSUME configs' \in Histories, Grown(configs, configs'),
             Chain(DOMAIN configs', StatesOf(configs'), PreviousOf(configs')),
             ReviewedHistory(approvals, configs')
      PROVE  IInv'
  BY <1>1, <1>3, ConfigStep DEF IInv, TypeInv
<1>4. CASE Len(configs[w.id]) # w.revision
  <2>1. configs' = configs
    BY <1>4 DEF RollbackConfiguration
  <2>2. QED
    BY <1>3, <2>1, NothingMoves DEF IInv, TypeInv, ConfigsInv
<1>5. CASE Len(configs[w.id]) = w.revision
  <2> DEFINE r == [copied EXCEPT !.state = "published", !.author = s, !.previous = p]
  <2> DEFINE old == [Latest(p) EXCEPT !.state = "superseded"]
  <2> DEFINE middle == With(configs, p, old)
  <2>1. configs \in Histories
    BY DEF IInv, TypeInv
  <2>2. /\ p \in DOMAIN configs /\ Latest(p) \in Revisions /\ Latest(p) = LastOf(configs[p])
        /\ Latest(p).state = "published" /\ Latest(p) = configs[p][Len(configs[p])] /\ p \in Nat
        /\ p # 0
    <3>1. p \in DOMAIN configs /\ Latest(p) = configs[p][w.revision]
      BY <1>2, <1>5 DEF RollbackWork, RevisionRead, Latest
    <3>2. p # 0
      BY <3>1 DEF IInv, ConfigsInv, Chain
    <3>3. QED
      BY <1>2, <3>1, <3>2, LatestIs DEF RollbackWork
  <2>3. configs' = Append(middle, <<r>>)
    BY <1>5, <2>2 DEF RollbackConfiguration, Superseded
  <2>4. copied \in Revisions /\ Effective(copied)
    BY <1>2, <2>1, History DEF RollbackWork, RevisionRead
  <2>5. copied.impact = "high" => Reviewed(approvals, configs, copied.content)
    BY <1>2, <2>4 DEF RollbackWork, RevisionRead, IInv, ConfigsInv, ReviewedHistory
  <2> HIDE DEF copied
  <2>6. /\ r \in Revisions /\ r.state = "published" /\ r.previous = p
        /\ r.impact = copied.impact /\ r.content = copied.content
    BY <2>2, <2>4 DEF Revisions
  <2>7. old \in Revisions /\ old.impact = Latest(p).impact /\ old.content = Latest(p).content
    BY <2>2 DEF Revisions
  <2>8. old.impact = "high" => Reviewed(approvals, configs, old.content)
    <3>1. Len(configs[p]) \in DOMAIN configs[p]
      BY <2>2, LatestIs
    <3>2. QED
      BY <2>2, <2>7, <3>1 DEF IInv, ConfigsInv, ReviewedHistory, Effective
  <2>9. old = [Latest(p) EXCEPT !.state = "superseded"]
    OBVIOUS
  <2> HIDE DEF old, r
  <2>10. /\ middle \in Histories /\ DOMAIN middle = DOMAIN configs /\ Grown(configs, middle)
         /\ \A d \in DOMAIN configs \ {p} : middle[d] = configs[d]
         /\ LastOf(middle[p]) = old
    BY <2>1, <2>2, <2>7, AddRevision
  <2>11. ReviewedHistory(approvals, middle)
    BY <2>1, <2>2, <2>7, <2>8, ReviewedRevision DEF IInv, ConfigsInv
  <2>12. Len(middle) = Len(configs)
    <3>1. /\ DOMAIN middle = 1..Len(middle) /\ DOMAIN configs = 1..Len(configs)
          /\ Len(middle) \in Nat /\ Len(configs) \in Nat
      BY <2>1, <2>10, History
    <3> HIDE DEF middle
    <3>2. 1..Len(middle) = 1..Len(configs)
      BY <2>10, <3>1
    <3>3. QED
      BY <3>1, <3>2, SameInterval
  <2> HIDE DEF middle
  <2>13. /\ configs' \in Histories /\ DOMAIN configs' = DOMAIN configs \cup {n}
         /\ Grown(middle, configs') /\ n \notin DOMAIN configs /\ n # 0
         /\ \A d \in DOMAIN configs : configs'[d] = middle[d]
         /\ LastOf(configs'[n]) = r
    BY <2>3, <2>6, <2>10, <2>12, AddConfiguration
  <2>14. ReviewedHistory(approvals, configs')
    BY <2>3, <2>5, <2>6, <2>10, <2>11, ReviewedGrows, ReviewedConfiguration
  <2>15. Grown(configs, configs')
    BY <2>10, <2>13, GrownTwice
  <2>16. Chain(DOMAIN configs', StatesOf(configs'), PreviousOf(configs'))
    <3> HIDE DEF n, p
    <3>1. n # p /\ LastOf(configs'[p]) = old
      BY <2>2, <2>10, <2>13
    <3>2. \A d \in DOMAIN configs \ {n, p} : configs'[d] = configs[d]
      BY <2>10, <2>13
    <3>3. LastOf(configs'[p]) = [Latest(p) EXCEPT !.state = "superseded"]
      BY <2>9, <3>1
    <3>4. LastOf(configs'[n]).state = "published" /\ LastOf(configs'[n]).previous = p
      BY <2>6, <2>13
    <3>5. n # 0 /\ n \notin DOMAIN configs /\ p \in DOMAIN configs /\ Latest(p).state = "published"
          /\ configs' \in Histories /\ DOMAIN configs' = DOMAIN configs \cup {n}
      BY <2>2, <2>13
    <3>6. QED
      BY <3>1, <3>2, <3>3, <3>4, <3>5, ConfigsContinue
  <2>17. QED
    BY <1>3, <2>13, <2>14, <2>15, <2>16
<1>6. QED
  BY <1>4, <1>5

-----------------------------------------------------------------------------
(* The steps of release sets.                                              *)

LEMMA ReleaseStep ==
  ASSUME IInv, releases' \in Seq(ReleaseSets), Moved(releases, releases'),
         Chain(DOMAIN releases', ReleaseStates(releases'), ReleasePrevious(releases')),
         ReleasesResolve(configs, releases'), OnePublished(releases'),
         UNCHANGED <<configs, approvals>>, begun' \in 0..MaxBegun,
         req' = req \/ \E q \in Requests : req' = [req EXCEPT ![q] = Idle]
  PROVE  IInv'
<1>1. RequestsInv' /\ req' \in [Requests -> Work \cup {Idle}]
  BY IdleWork, NothingMoves, RequestsStep DEF IInv
<1>2. QED
  BY <1>1 DEF IInv, TypeInv, ConfigsInv, ReleasesInv

\* A release set of the scope is replaced by record, with a later revision.
LEMMA ReplaceRelease ==
  ASSUME NEW rs \in Seq(ReleaseSets), NEW r \in DOMAIN rs, NEW record \in ReleaseSets
  PROVE  LET n == [rs EXCEPT ![r] = record]
         IN /\ n \in Seq(ReleaseSets) /\ DOMAIN n = DOMAIN rs /\ Len(n) = Len(rs)
            /\ n[r] = record /\ \A d \in DOMAIN rs \ {r} : n[d] = rs[d]
<1>1. DOMAIN rs = 1..Len(rs)
  BY LenProperties
<1>2. QED
  BY <1>1, ExceptSeq

LEMMA AddRelease ==
  ASSUME NEW rs \in Seq(ReleaseSets), NEW record \in ReleaseSets
  PROVE  LET n == Append(rs, record)
             r == Len(rs) + 1
         IN /\ n \in Seq(ReleaseSets) /\ DOMAIN n = DOMAIN rs \cup {r}
            /\ r \notin DOMAIN rs /\ r # 0
            /\ n[r] = record /\ \A d \in DOMAIN rs : n[d] = rs[d]
<1> DEFINE n == Append(rs, record)
<1>1. /\ n \in Seq(ReleaseSets) /\ Len(n) = Len(rs) + 1
      /\ \A i \in 1..Len(rs) : n[i] = rs[i]
      /\ n[Len(rs) + 1] = record
  BY AppendProperties
<1> HIDE DEF n
<1>2. DOMAIN n = 1..Len(n) /\ DOMAIN rs = 1..Len(rs) /\ Len(rs) \in Nat
  BY <1>1, LenProperties
<1>3. QED
  BY <1>1, <1>2 DEF n

LEMMA SupersededReleaseIs ==
  ASSUME IInv, NEW p \in DOMAIN releases
  PROVE  LET n == SupersededRelease(p)
         IN /\ n \in Seq(ReleaseSets) /\ DOMAIN n = DOMAIN releases /\ Len(n) = Len(releases)
            /\ n[p].state = "superseded" /\ n[p].revision = releases[p].revision + 1
            /\ n[p].previous = releases[p].previous /\ n[p].ref = releases[p].ref
            /\ \A d \in DOMAIN releases \ {p} : n[d] = releases[d]
<1> DEFINE revision == releases[p].revision + 1
<1> DEFINE record == [releases[p] EXCEPT !.state = "superseded", !.revision = revision]
<1>1. /\ releases \in Seq(ReleaseSets) /\ releases[p] \in ReleaseSets /\ revision \in Nat
  BY ReleaseIs
<1>2. SupersededRelease(p) = [releases EXCEPT ![p] = record]
  BY <1>1 DEF SupersededRelease, ReleaseSets
<1>3. revision = releases[p].revision + 1
  OBVIOUS
<1> HIDE DEF revision
<1>4. /\ record \in ReleaseSets /\ record.state = "superseded" /\ record.revision = revision
      /\ record.previous = releases[p].previous /\ record.ref = releases[p].ref
  BY <1>1 DEF ReleaseSets
<1> HIDE DEF record
<1>5. QED
  BY <1>1, <1>2, <1>3, <1>4, ReplaceRelease

LEMMA CreateReleaseKeeps ==
  ASSUME IInv, NEW c \in DOMAIN configs, CreateRelease(c)
  PROVE  IInv'
<1> DEFINE ref == <<c, Len(configs[c])>>
<1> DEFINE record == [state |-> "draft", revision |-> 1, ref |-> ref, previous |-> 0]
<1> DEFINE n == Len(releases) + 1
<1>1. ref \in Nat \X Nat /\ releases \in Seq(ReleaseSets)
  BY LatestIs DEF IInv, TypeInv
<1>2. releases' = Append(releases, record) /\ UNCHANGED <<configs, approvals, req>>
  BY DEF CreateRelease
<1> HIDE DEF ref
<1>3. record \in ReleaseSets /\ record.state = "draft" /\ record.previous = 0
  BY <1>1 DEF ReleaseSets
<1> HIDE DEF record
<1>4. /\ releases' \in Seq(ReleaseSets) /\ DOMAIN releases' = DOMAIN releases \cup {n}
      /\ n \notin DOMAIN releases /\ n # 0
      /\ releases'[n] = record /\ \A d \in DOMAIN releases : releases'[d] = releases[d]
  BY <1>1, <1>2, <1>3, AddRelease
<1> HIDE DEF n
<1>5. Chain(DOMAIN releases', ReleaseStates(releases'), ReleasePrevious(releases'))
  <2> DEFINE ids == DOMAIN releases
  <2> DEFINE state == ReleaseStates(releases)
  <2> DEFINE previous == ReleasePrevious(releases)
  <2> DEFINE next == ReleaseStates(releases')
  <2> DEFINE before == ReleasePrevious(releases')
  <2>1. Chain(ids, state, previous) /\ n # 0 /\ n \notin ids
    BY <1>4 DEF IInv, ReleasesInv
  <2>2. \A d \in ids : before[d] = previous[d] /\ next[d] = state[d]
    BY <1>4 DEF ReleaseStates, ReleasePrevious
  <2>3. before[n] = 0 /\ next[n] = "draft"
    BY <1>3, <1>4 DEF ReleaseStates, ReleasePrevious
  <2>4. DOMAIN releases' = ids \cup {n}
    BY <1>4
  <2> HIDE DEF ids, state, previous, next, before
  <2>5. Chain(ids \cup {n}, next, before)
    BY <2>1, <2>2, <2>3, ChainBegins DEF Drafting
  <2>6. QED
    BY <2>4, <2>5 DEF next, before
<1>6. Moved(releases, releases')
  BY <1>4 DEF Moved
<1>7. ReleasesResolve(configs, releases') /\ OnePublished(releases')
  BY <1>3, <1>4 DEF IInv, ReleasesInv, ReleasesResolve, OnePublished
<1>8. begun' \in 0..MaxBegun
  BY BegunCounts DEF IInv, CreateRelease
<1>9. QED
  BY <1>2, <1>4, <1>5, <1>6, <1>7, <1>8, ReleaseStep

LEMMA ValidateReleaseKeeps ==
  ASSUME IInv, NEW r \in DOMAIN releases, ValidateRelease(r)
  PROVE  IInv'
<1> DEFINE revision == releases[r].revision + 1
<1> DEFINE record == [releases[r] EXCEPT !.state = "validation", !.revision = revision]
<1>1. /\ releases \in Seq(ReleaseSets) /\ releases[r] \in ReleaseSets
      /\ releases[r].revision \in Nat /\ revision \in Nat
  BY ReleaseIs
<1>2. releases' = [releases EXCEPT ![r] = record]
  BY <1>1 DEF ValidateRelease, ReleaseSets
<1>3. releases[r].state = "draft" /\ Resolved(configs, releases[r].ref)
      /\ UNCHANGED <<configs, approvals, req, begun>>
  BY DEF ValidateRelease, Resolves, Resolved
<1>4. revision > releases[r].revision
  BY <1>1
<1> HIDE DEF revision
<1>5. /\ record \in ReleaseSets /\ record.state = "validation" /\ record.revision = revision
      /\ record.previous = releases[r].previous /\ record.ref = releases[r].ref
  BY <1>1 DEF ReleaseSets
<1> HIDE DEF record
<1>6. /\ releases' \in Seq(ReleaseSets) /\ DOMAIN releases' = DOMAIN releases
      /\ releases'[r] = record /\ \A d \in DOMAIN releases \ {r} : releases'[d] = releases[d]
  BY <1>1, <1>2, <1>5, ReplaceRelease
<1>7. Chain(DOMAIN releases', ReleaseStates(releases'), ReleasePrevious(releases'))
  <2> DEFINE ids == DOMAIN releases
  <2> DEFINE state == ReleaseStates(releases)
  <2> DEFINE previous == ReleasePrevious(releases)
  <2> DEFINE next == ReleaseStates(releases')
  <2> DEFINE before == ReleasePrevious(releases')
  <2>1. Chain(ids, state, previous)
    BY DEF IInv, ReleasesInv
  <2>2. /\ \A d \in ids : before[d] = previous[d]
        /\ \A d \in ids \ {r} : next[d] = state[d]
        /\ next[r] = "validation" /\ state[r] = "draft"
    BY <1>3, <1>5, <1>6 DEF ReleaseStates, ReleasePrevious
  <2>3. DOMAIN releases' = ids
    BY <1>6
  <2> HIDE DEF ids, state, previous, next, before
  <2>4. /\ \A d \in ids : next[d] = "superseded" <=> state[d] = "superseded"
        /\ \A d \in ids : next[d] \in Drafting => state[d] \in Drafting
    BY <2>2 DEF Drafting
  <2>5. Chain(ids, next, before)
    BY <2>1, <2>2, <2>4, ChainKept
  <2>6. QED
    BY <2>3, <2>5 DEF next, before
<1>8. Moved(releases, releases')
  BY <1>4, <1>5, <1>6 DEF Moved
<1>9. ReleasesResolve(configs, releases')
  BY <1>3, <1>5, <1>6 DEF IInv, ReleasesInv, ReleasesResolve
<1>10. OnePublished(releases')
  <2>1. \A d \in DOMAIN releases : releases[d].state \in {"superseded", "published"} => d # r
    BY <1>3
  <2>2. \A d \in DOMAIN releases' : releases'[d].state = "superseded" => releases[d].state = "superseded"
    BY <1>5, <1>6
  <2>3. \A d \in DOMAIN releases : releases[d].state = "published" => releases'[d].state = "published"
    BY <1>6, <2>1
  <2>4. QED
    BY <1>6, <2>2, <2>3 DEF IInv, ReleasesInv, OnePublished
<1>11. QED
  BY <1>3, <1>6, <1>7, <1>8, <1>9, <1>10, ReleaseStep DEF IInv, TypeInv

\* n supersedes p, or is the first of its scope (p = 0).
LEMMA ReleasesContinue ==
  ASSUME IInv, NEW n, NEW p \in DOMAIN releases \cup {0}, n # 0, n # p,
         n \in DOMAIN releases => releases[n].state \in Drafting,
         releases' \in Seq(ReleaseSets), DOMAIN releases' = DOMAIN releases \cup {n},
         p # 0 => /\ releases[p].state = "published" /\ releases'[p].state = "superseded"
                  /\ releases'[p].revision > releases[p].revision
                  /\ releases'[p].previous = releases[p].previous
                  /\ releases'[p].ref = releases[p].ref,
         \A d \in DOMAIN releases \ {n, p} : releases'[d] = releases[d],
         releases'[n].state = "published", releases'[n].previous = p,
         Resolved(configs, releases'[n].ref),
         n \in DOMAIN releases => releases'[n].revision > releases[n].revision,
         UNCHANGED <<configs, approvals>>, begun' \in 0..MaxBegun,
         req' = req \/ \E q \in Requests : req' = [req EXCEPT ![q] = Idle]
  PROVE  IInv'
<1>1. Moved(releases, releases')
  BY DEF Moved
<1>2. OnePublished(releases')
  BY DEF OnePublished
<1>3. ReleasesResolve(configs, releases')
  BY DEF IInv, ReleasesInv, ReleasesResolve
<1>4. Chain(DOMAIN releases', ReleaseStates(releases'), ReleasePrevious(releases'))
  <2> DEFINE ids == DOMAIN releases
  <2> DEFINE state == ReleaseStates(releases)
  <2> DEFINE previous == ReleasePrevious(releases)
  <2> DEFINE next == ReleaseStates(releases')
  <2> DEFINE before == ReleasePrevious(releases')
  <2>1. Chain(ids, state, previous)
    BY DEF IInv, ReleasesInv
  <2>2. before[n] = p /\ next[n] = "published"
    BY DEF ReleaseStates, ReleasePrevious
  <2>3. n \in ids => state[n] \in Drafting /\ previous[n] = 0
    BY ReleaseIs DEF ReleaseStates, ReleasePrevious
  <2>4. \A d \in ids \ {n, p} : before[d] = previous[d] /\ next[d] = state[d]
    BY DEF ReleaseStates, ReleasePrevious
  <2>5. p # 0 => /\ p \in ids /\ before[p] = previous[p]
                 /\ state[p] = "published" /\ next[p] = "superseded"
    BY DEF ReleaseStates, ReleasePrevious
  <2>6. DOMAIN releases' = ids \cup {n}
    OBVIOUS
  <2> HIDE DEF state, previous, next, before
  <2>7. Chain(ids \cup {n}, next, before)
    <3>1. CASE p # 0
      <4>1. \A d \in ids \ {n} : before[d] = previous[d]
        BY <2>4, <2>5, <3>1
      <4> HIDE DEF ids
      <4>2. QED
        BY <2>1, <2>2, <2>3, <2>4, <2>5, <3>1, <4>1, ChainContinues
    <3>2. CASE p = 0
      <4>1. 0 \notin ids
        BY <2>1 DEF Chain
      <4> HIDE DEF ids
      <4>2. \A d \in ids \ {n} : before[d] = previous[d] /\ next[d] = state[d]
        BY <2>4, <3>2, <4>1
      <4>3. \A d \in ids : previous[d] # n
        BY <2>1, <2>3 DEF Chain, Drafting
      <4>4. QED
        BY <2>1, <2>2, <2>3, <3>2, <4>2, <4>3 DEF Chain, Drafting
    <3>3. QED
      BY <3>1, <3>2
  <2>8. QED
    BY <2>6, <2>7 DEF next, before
<1>5. QED
  BY <1>1, <1>2, <1>3, <1>4, ReleaseStep

LEMMA PublishReleaseKeeps ==
  ASSUME IInv, NEW q \in Requests, PublishRelease(q)
  PROVE  IInv'
<1> DEFINE w == req[q]
<1> DEFINE p == w.previous
<1> DEFINE id == w.id
<1>1. /\ w \in [pc : {"active", "replace"}, of : {"config", "release"},
                id : Nat, revision : Nat, previous : Nat, seen : Nat]
      /\ w.pc = "replace" /\ w.of = "release" /\ WorkOK(w, approvals, configs, releases)
      /\ UNCHANGED <<configs, approvals, begun>> /\ req' = [req EXCEPT ![q] = Idle]
      /\ releases' = Replaced(w)
  BY Serving DEF PublishRelease
<1>2. ReleaseWork(w, releases)
  BY <1>1 DEF WorkOK
<1>3. begun' \in 0..MaxBegun
  BY <1>1 DEF IInv, TypeInv
<1>4. CASE \/ releases[id].revision # w.revision
           \/ p # 0 /\ releases[p].revision # w.seen
  <2>1. releases' = releases
    BY <1>1, <1>4 DEF Replaced
  <2>2. QED
    BY <1>1, <1>3, <2>1, NothingMoves, ReleaseStep DEF IInv, TypeInv, ReleasesInv
<1>5. CASE ~(\/ releases[id].revision # w.revision
             \/ p # 0 /\ releases[p].revision # w.seen)
  <2> DEFINE earlier == IF p = 0 THEN releases ELSE SupersededRelease(p)
  <2> DEFINE revision == releases[id].revision + 1
  <2> DEFINE record == [releases[id] EXCEPT !.state = "published", !.revision = revision, !.previous = p]
  <2>1. id \in DOMAIN releases /\ releases[id].state = "validation"
    BY <1>2, <1>5 DEF ReleaseWork, ReleaseRead
  <2>2. p # 0 => p \in DOMAIN releases /\ releases[p].state = "published"
    BY <1>2, <1>5 DEF ReleaseWork, ReleaseRead
  <2>3. id # p /\ id # 0 /\ p \in Nat
    BY <1>1, <2>1, <2>2, ReleaseIs
  <2>4. /\ releases \in Seq(ReleaseSets) /\ releases[id] \in ReleaseSets
        /\ releases[id].revision \in Nat /\ revision \in Nat /\ revision > releases[id].revision
    BY <2>1, ReleaseIs
  <2>5. Resolved(configs, releases[id].ref)
    BY <2>1 DEF IInv, ReleasesInv, ReleasesResolve
  <2>6. releases' = [earlier EXCEPT ![id] = [earlier[id] EXCEPT !.state = "published",
                                               !.revision = earlier[id].revision + 1, !.previous = p]]
    <3>1. releases' = [earlier EXCEPT ![id].state = "published", ![id].revision = @ + 1,
                                       ![id].previous = p]
      BY <1>1, <1>5 DEF Replaced
    <3>2. id \in DOMAIN earlier
      BY <2>1, <2>2, SupersededReleaseIs
    <3> HIDE DEF earlier, id, p
    <3>3. QED
      BY <3>1, <3>2
  <2>7. /\ earlier \in Seq(ReleaseSets) /\ DOMAIN earlier = DOMAIN releases
        /\ \A d \in DOMAIN releases \ {p} : earlier[d] = releases[d]
        /\ p # 0 => /\ earlier[p].state = "superseded"
                    /\ earlier[p].revision = releases[p].revision + 1
                    /\ earlier[p].previous = releases[p].previous
                    /\ earlier[p].ref = releases[p].ref
    <3>1. CASE p = 0
      BY <2>4, <3>1
    <3>2. CASE p # 0
      <4>1. earlier = SupersededRelease(p)
        BY <3>2
      <4> HIDE DEF earlier
      <4>2. QED
        BY <2>2, <3>2, <4>1, SupersededReleaseIs
    <3>3. QED
      BY <3>1, <3>2
  <2> HIDE DEF earlier
  <2>8. releases' = [earlier EXCEPT ![id] = record] /\ earlier[id] = releases[id]
    BY <2>1, <2>3, <2>6, <2>7
  <2> HIDE DEF revision
  <2>9. /\ record \in ReleaseSets /\ record.state = "published" /\ record.revision = revision
        /\ record.previous = p /\ record.ref = releases[id].ref
    BY <2>3, <2>4 DEF ReleaseSets
  <2> HIDE DEF record
  <2>10. /\ releases' \in Seq(ReleaseSets) /\ DOMAIN releases' = DOMAIN releases
         /\ releases'[id] = record /\ \A d \in DOMAIN releases \ {id} : releases'[d] = earlier[d]
    BY <2>1, <2>7, <2>8, <2>9, ReplaceRelease
  <2>11. p # 0 => /\ releases'[p].state = "superseded"
                  /\ releases'[p].revision > releases[p].revision
                  /\ releases'[p].previous = releases[p].previous
                  /\ releases'[p].ref = releases[p].ref
    BY <2>2, <2>3, <2>7, <2>10, ReleaseIs
  <2>12. \A d \in DOMAIN releases \ {id, p} : releases'[d] = releases[d]
    BY <2>7, <2>10
  <2>13. p \in DOMAIN releases \cup {0} /\ DOMAIN releases' = DOMAIN releases \cup {id}
    BY <2>1, <2>2, <2>10
  <2>14. releases[id].state \in Drafting /\ UNCHANGED <<configs, approvals>>
    BY <1>1, <2>1 DEF Drafting
  <2>15. /\ releases'[id].state = "published" /\ releases'[id].previous = p
         /\ Resolved(configs, releases'[id].ref) /\ releases'[id].revision > releases[id].revision
    BY <2>4, <2>5, <2>9, <2>10
  <2> DEFINE i == id
  <2> DEFINE e == p
  <2>16. \E s \in Requests : req' = [req EXCEPT ![s] = Idle]
    BY <1>1
  <2> HIDE DEF id, p
  <2>17. QED
    BY <1>3, <2>2, <2>3, <2>10, <2>11, <2>12, <2>13, <2>14, <2>15, <2>16, ReleasesContinue
<1>6. QED
  BY <1>4, <1>5

LEMMA RollbackReleaseKeeps ==
  ASSUME IInv, NEW r \in DOMAIN releases, NEW t \in DOMAIN releases, RollbackRelease(r, t)
  PROVE  IInv'
<1> DEFINE n == Len(releases) + 1
<1> DEFINE record == [releases[t] EXCEPT !.state = "published", !.revision = 1, !.previous = r]
<1> DEFINE earlier == SupersededRelease(r)
<1>1. /\ releases[r].state = "published" /\ releases[t].state = "superseded"
      /\ releases' = Append(earlier, record) /\ UNCHANGED <<configs, approvals, req>>
  BY DEF RollbackRelease
<1>2. releases[t] \in ReleaseSets /\ r \in Nat /\ r # 0 /\ releases[r].revision \in Nat
      /\ Len(releases) \in Nat
  BY ReleaseIs
<1>3. Resolved(configs, releases[t].ref)
  BY <1>1 DEF IInv, ReleasesInv, ReleasesResolve
<1>4. /\ earlier \in Seq(ReleaseSets) /\ DOMAIN earlier = DOMAIN releases
      /\ Len(earlier) = Len(releases)
      /\ earlier[r].state = "superseded" /\ earlier[r].revision = releases[r].revision + 1
      /\ earlier[r].previous = releases[r].previous /\ earlier[r].ref = releases[r].ref
      /\ \A d \in DOMAIN releases \ {r} : earlier[d] = releases[d]
  BY SupersededReleaseIs
<1> HIDE DEF earlier
<1>5. /\ record \in ReleaseSets /\ record.state = "published" /\ record.previous = r
      /\ record.ref = releases[t].ref
  BY <1>2 DEF ReleaseSets
<1> HIDE DEF record
<1>6. /\ releases' \in Seq(ReleaseSets) /\ DOMAIN releases' = DOMAIN releases \cup {n}
      /\ n \notin DOMAIN releases /\ n # 0
      /\ releases'[n] = record /\ \A d \in DOMAIN releases : releases'[d] = earlier[d]
  <2>1. n = Len(earlier) + 1
    BY <1>4
  <2> HIDE DEF n
  <2>2. QED
    BY <1>1, <1>4, <1>5, <2>1, AddRelease
<1> HIDE DEF n
<1>7. /\ releases'[r].state = "superseded" /\ releases'[r].revision > releases[r].revision
      /\ releases'[r].previous = releases[r].previous /\ releases'[r].ref = releases[r].ref
      /\ n # r
  BY <1>2, <1>4, <1>6
<1>8. \A d \in DOMAIN releases \ {n, r} : releases'[d] = releases[d]
  BY <1>4, <1>6
<1>9. begun' \in 0..MaxBegun
  BY BegunCounts DEF IInv, RollbackRelease
<1>10. /\ releases'[n].state = "published" /\ releases'[n].previous = r
       /\ Resolved(configs, releases'[n].ref)
  BY <1>3, <1>5, <1>6
<1>11. QED
  BY <1>1, <1>6, <1>7, <1>8, <1>9, <1>10, ReleasesContinue

-----------------------------------------------------------------------------
(* The theorems.                                                           *)

LEMMA InitInv == Init => IInv
<1> SUFFICES ASSUME Init PROVE IInv
  OBVIOUS
<1>1. configs = <<>> /\ releases = <<>> /\ approvals = {}
  BY DEF Init
<1>2. DOMAIN configs = {} /\ DOMAIN releases = {}
  BY <1>1
<1>3. TypeInv
  <2>1. configs \in Histories
    BY <1>1, <1>2 DEF Histories
  <2>2. releases \in Seq(ReleaseSets) /\ approvals \subseteq Approvals
    BY <1>1
  <2>3. QED
    BY <1>1, <2>1, <2>2, ControlPlaneAssumption DEF Init, TypeInv
<1>4. ConfigsInv
  BY <1>2 DEF ConfigsInv, Chain, ReviewedHistory
<1>5. ReleasesInv
  BY <1>2 DEF ReleasesInv, Chain, ReleasesResolve, OnePublished
<1>6. RequestsInv
  BY IdleWork DEF Init, RequestsInv
<1>7. QED
  BY <1>3, <1>4, <1>5, <1>6 DEF IInv

LEMMA StepInv == IInv /\ [Next]_vars => IInv'
<1> SUFFICES ASSUME IInv, [Next]_vars PROVE IInv'
  OBVIOUS
<1>1. CASE UNCHANGED vars
  BY <1>1 DEF vars, IInv, TypeInv, ConfigsInv, ReleasesInv, RequestsInv
<1>2. CASE Configure
  BY <1>2, CreateConfigurationKeeps, EditKeeps, ApproveConfigurationKeeps, RejectConfigurationKeeps
     DEF Configure
<1>3. CASE Release
  BY <1>3, CreateReleaseKeeps, ValidateReleaseKeeps, RollbackReleaseKeeps DEF Release
<1>4. ASSUME NEW q \in Requests, Serve(q) PROVE IInv'
  BY <1>4, StartPublishKeeps, StartPublishReleaseKeeps, StartRollbackKeeps, ReadActiveKeeps,
     PublishConfigurationKeeps, RollbackConfigurationKeeps, PublishReleaseKeeps DEF Serve
<1>5. QED
  BY <1>1, <1>2, <1>3, <1>4 DEF Next

LEMMA Invariance == Spec => []IInv
BY InitInv, StepInv, PTL DEF Spec

\* Records have their types, and there is one decision on a revision.
THEOREM TypeCorrect == Spec => []TypeOK
<1>1. IInv => TypeOK
  BY DEF IInv, TypeInv, TypeOK, Histories
<1>2. QED
  BY <1>1, Invariance, PTL

\* A scope that once had a published release set has one, and it names
\* published revisions, however publications, rollbacks and withdrawals of
\* configurations overlap (_assert_references_published).
THEOREM RuntimeStays == Spec => []RuntimeAvailable
<1>1. IInv => RuntimeAvailable
  BY DEF IInv, ReleasesInv, OnePublished, ReleasesResolve, Resolved, Resolves,
         ActiveReleases, RuntimeAvailable
<1>2. QED
  BY <1>1, Invariance, PTL

\* A superseded version, and no other, has exactly one successor: no two
\* publications or rollbacks replace the same one (replace_active).
THEOREM HistoryIsLinear == Spec => []LinearHistory
<1>1. ASSUME IInv PROVE LinearHistory
  <2>1. ASSUME NEW p \in DOMAIN configs
        PROVE  LET successors == {c \in DOMAIN configs : Latest(c).previous = p}
               IN  /\ Latest(p).state = "superseded" => successors # {}
                   /\ \A c, d \in successors : c = d
                   /\ successors # {} => Latest(p).state = "superseded"
    BY <1>1 DEF IInv, ConfigsInv, Chain, StatesOf, PreviousOf, Latest, LastOf
  <2>2. ASSUME NEW p \in DOMAIN releases
        PROVE  LET successors == {r \in DOMAIN releases : releases[r].previous = p}
               IN  /\ releases[p].state = "superseded" <=> successors # {}
                   /\ \A r, s \in successors : r = s
    BY <1>1 DEF IInv, ReleasesInv, Chain, ReleaseStates, ReleasePrevious
  <2>3. QED
    BY <2>1, <2>2 DEF LinearHistory
<1>2. QED
  BY <1>1, Invariance, PTL

\* What a published high-impact configuration says was approved as it stands
\* by somebody else than its author, rollbacks included (publish, rollback).
THEOREM ContentIsReviewed == Spec => []ApprovedContent
<1>1. IInv => ApprovedContent
  BY DEF IInv, ConfigsInv, ReviewedHistory, Effective, Reviewed, ApprovedContent
<1>2. QED
  BY <1>1, Invariance, PTL
=============================================================================
