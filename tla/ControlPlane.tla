---------------------------- MODULE ControlPlane ----------------------------
(***************************************************************************)
(* The administration of configurations and of the release sets that bind  *)
(* them, by several administrators at once.                                *)
(*                                                                         *)
(* A configuration is a list of immutable revisions, of which the last one *)
(* says where it stands; a high-impact one is published after somebody     *)
(* else than its author has approved that revision.  A release set names   *)
(* revisions of configurations, and the runtime works with what the        *)
(* published release set names.                                            *)
(*                                                                         *)
(* Every write is a transaction that compares the revision of the records  *)
(* it replaces.  An operation that reads nothing but those records is one  *)
(* action.  A publication reads its own record, then the one that is       *)
(* active, and then writes: three steps.  The rollback of a configuration  *)
(* reads a target that its write does not compare: two.                    *)
(*                                                                         *)
(* There is one slot of configurations, (domain, configuration_key), and   *)
(* one scope of release sets, (environment, runtime_profile).  What a      *)
(* configuration says is known by the revision that wrote it.  A repeated  *)
(* request is answered from its idempotency record and changes nothing;    *)
(* refusals change nothing but the audit log, which is left out.           *)
(***************************************************************************)
EXTENDS Naturals, Sequences

CONSTANTS
    Admins,       \* administrators
    Requests,     \* publications and rollbacks that are served at a time
    MaxConfigs,   \* bound: a configuration is created while there are fewer
    MaxBegun      \* bound: records created, edited, rejected or rolled back

ASSUME ControlPlaneAssumption == MaxConfigs \in Nat /\ MaxBegun \in Nat

VARIABLES
    configs,      \* configs[c]: the revisions of configuration c, oldest first
    approvals,    \* the decisions of reviewers on revisions
    releases,     \* releases[r]: the last revision of release set r
    req,          \* what each request in service has read
    begun         \* how many pieces of work were begun, for the bound

vars == <<configs, approvals, releases, req, begun>>

\* 0 is the absent predecessor.
Revisions ==
    [state : {"draft", "awaiting_approval", "published", "superseded", "withdrawn"},
     impact : {"normal", "high"}, author : Admins, content : Nat \X Nat, previous : Nat]
Approvals ==
    [config : Nat, revision : Nat, reviewer : Admins, decision : {"approved", "rejected"}]
ReleaseSets ==
    [state : {"draft", "validation", "published", "superseded"},
     revision : Nat, ref : Nat \X Nat, previous : Nat]

\* A publication or rollback of record id, read at revision; seen is the
\* revision of the other record it has read: its predecessor, or its target.
Idle == [pc |-> "idle"]
Work ==
    [pc : {"active", "replace"}, of : {"config", "release"},
     id : Nat, revision : Nat, previous : Nat, seen : Nat]
    \cup [pc : {"rollback"}, id : Nat, revision : Nat, target : Nat, seen : Nat]

\* Records have their types, and there is one decision on a revision.
TypeOK ==
    /\ configs \in Seq(Seq(Revisions))
    /\ approvals \subseteq Approvals
    /\ \A a, b \in approvals : a.config = b.config /\ a.revision = b.revision => a = b
    /\ releases \in Seq(ReleaseSets)
    /\ req \in [Requests -> Work \cup {Idle}]
    /\ begun \in 0..MaxBegun

Init ==
    /\ configs = <<>>
    /\ approvals = {}
    /\ releases = <<>>
    /\ req = [q \in Requests |-> Idle]
    /\ begun = 0

\* Everything else a record can go through is finite by itself.
BeginWork == begun < MaxBegun /\ begun' = begun + 1

-----------------------------------------------------------------------------
(* Drafting, review and withdrawal of a configuration.                      *)

Latest(c) == configs[c][Len(configs[c])]

\* A further revision of c.
With(history, c, revision) == [history EXCEPT ![c] = Append(@, revision)]

CreateConfiguration(a, impact) ==
    /\ Len(configs) < MaxConfigs
    /\ BeginWork
    /\ configs' = Append(configs,
         <<[state |-> "draft", impact |-> impact, author |-> a,
            content |-> <<Len(configs) + 1, 1>>, previous |-> 0]>>)
    /\ UNCHANGED <<approvals, releases, req>>

\* Whoever edits the draft, its author stays.
PatchConfiguration(c) ==
    /\ Latest(c).state = "draft"
    /\ BeginWork
    /\ configs' = With(configs, c, [Latest(c) EXCEPT !.content = <<c, Len(configs[c]) + 1>>])
    /\ UNCHANGED <<approvals, releases, req>>

\* A high-impact draft waits for approval; a normal one is published by its
\* validation (StartPublish).
ValidateConfiguration(c) ==
    /\ Latest(c).state = "draft" /\ Latest(c).impact = "high"
    /\ configs' = With(configs, c, [Latest(c) EXCEPT !.state = "awaiting_approval", !.previous = 0])
    /\ UNCHANGED <<approvals, releases, req, begun>>

Undecided(c, r) == \A a \in approvals : a.config # c \/ a.revision # r

Decided(c, r, s, decision) ==
    approvals \cup {[config |-> c, revision |-> r, reviewer |-> s, decision |-> decision]}

\* The approval is stored for the revision the reviewer has read without a
\* comparison.  It might be stored when the configuration has moved on, which
\* is as if it had been stored before.
ApproveConfiguration(s, c) ==
    /\ Latest(c).state = "awaiting_approval"
    /\ Latest(c).author # s
    /\ Undecided(c, Len(configs[c]))
    /\ approvals' = Decided(c, Len(configs[c]), s, "approved")
    /\ UNCHANGED <<configs, releases, req, begun>>

RejectConfiguration(s, c) ==
    /\ Latest(c).state = "awaiting_approval"
    /\ Latest(c).author # s
    /\ Undecided(c, Len(configs[c]))
    /\ BeginWork
    /\ approvals' = Decided(c, Len(configs[c]), s, "rejected")
    /\ configs' = With(configs, c, [Latest(c) EXCEPT !.state = "draft"])
    /\ UNCHANGED <<releases, req>>

WithdrawConfiguration(c) ==
    /\ Latest(c).state \in {"draft", "awaiting_approval", "published"}
    /\ configs' = With(configs, c, [Latest(c) EXCEPT !.state = "withdrawn"])
    /\ UNCHANGED <<approvals, releases, req, begun>>

-----------------------------------------------------------------------------
(* Publication.                                                             *)

IndependentlyApproved(c) ==
    \E a \in approvals :
        /\ a.config = c /\ a.revision = Len(configs[c])
        /\ a.decision = "approved" /\ a.reviewer # Latest(c).author

\* publish of a high-impact configuration; validate of a normal one.
Publishable(s, c) ==
    \/ /\ Latest(c).impact = "high" /\ Latest(c).state = "awaiting_approval"
       /\ Latest(c).author # s
       /\ IndependentlyApproved(c)
    \/ Latest(c).impact = "normal" /\ Latest(c).state = "draft"

Begin(q, of, id, revision) ==
    /\ req[q] = Idle
    /\ req' = [req EXCEPT ![q] = [pc |-> "active", of |-> of, id |-> id,
                                  revision |-> revision, previous |-> 0, seen |-> 0]]
    /\ UNCHANGED <<configs, approvals, releases, begun>>

StartPublish(q, s, c) ==
    /\ Publishable(s, c)
    /\ Begin(q, "config", c, Len(configs[c]))

ActiveConfigs == {c \in DOMAIN configs : Latest(c).state = "published"}
ActiveReleases == {r \in DOMAIN releases : releases[r].state = "published"}

\* active: of several published records the one with the latest updated_at,
\* a clock read before its write; which one that is, is left open.
ReadActive(q) ==
    LET w == req[q]
        active == IF w.of = "config" THEN ActiveConfigs ELSE ActiveReleases
        revision(p) == IF w.of = "config" THEN Len(configs[p]) ELSE releases[p].revision
    IN  /\ w.pc = "active"
        /\ \/ /\ active = {}
              /\ req' = [req EXCEPT ![q].pc = "replace"]
           \/ \E p \in active :
                req' = [req EXCEPT ![q] = [w EXCEPT !.pc = "replace", !.previous = p,
                                                    !.seen = revision(p)]]
        /\ UNCHANGED <<configs, approvals, releases, begun>>

\* Mutant: the record that is replaced is not compared.
OwnUnmoved(w) == Len(configs[w.id]) = w.revision

Unmoved(w) ==
    /\ Len(configs[w.id]) = w.revision
    /\ w.previous # 0 => Len(configs[w.previous]) = w.seen

Superseded(history, p) ==
    IF p = 0 THEN history ELSE With(history, p, [history[p][Len(history[p])] EXCEPT !.state = "superseded"])

\* save, or replace_active when there is a predecessor.
PublishConfiguration(q) ==
    LET w == req[q]
    IN  /\ w.pc = "replace" /\ w.of = "config"
        /\ configs' = IF Unmoved(w)
             THEN With(Superseded(configs, w.previous), w.id,
                       [Latest(w.id) EXCEPT !.state = "published", !.previous = w.previous])
             ELSE configs
        /\ req' = [req EXCEPT ![q] = Idle]
        /\ UNCHANGED <<approvals, releases, begun>>

\* Mutant: any validated version is a target.
ValidatedTarget(t) == Latest(t).state \in {"awaiting_approval", "superseded", "published"}

RollbackTarget(t) == Latest(t).state \in {"superseded", "published"}

StartRollback(q, c, t) ==
    /\ req[q] = Idle
    /\ Latest(c).state = "published"
    /\ RollbackTarget(t)
    /\ req' = [req EXCEPT ![q] = [pc |-> "rollback", id |-> c, revision |-> Len(configs[c]),
                                  target |-> t, seen |-> Len(configs[t])]]
    /\ UNCHANGED <<configs, approvals, releases, begun>>

\* replace_active_with_new: the target is as it was read, whatever became of it.
RollbackConfiguration(q, s) ==
    LET w == req[q]
    IN  /\ w.pc = "rollback"
        /\ BeginWork
        /\ configs' = IF Len(configs[w.id]) = w.revision
             THEN Append(Superseded(configs, w.id),
                         <<[configs[w.target][w.seen] EXCEPT
                              !.state = "published", !.author = s, !.previous = w.id]>>)
             ELSE configs
        /\ req' = [req EXCEPT ![q] = Idle]
        /\ UNCHANGED <<approvals, releases>>

-----------------------------------------------------------------------------
(* Release sets.                                                            *)

Resolves(ref) ==
    /\ ref[1] \in DOMAIN configs /\ ref[2] \in DOMAIN configs[ref[1]]
    /\ configs[ref[1]][ref[2]].state = "published"

\* Naming an earlier revision is as if the draft had been created before.
CreateRelease(c) ==
    /\ BeginWork
    /\ releases' = Append(releases,
         [state |-> "draft", revision |-> 1, ref |-> <<c, Len(configs[c])>>, previous |-> 0])
    /\ UNCHANGED <<configs, approvals, req>>

ValidateRelease(r) ==
    /\ releases[r].state = "draft"
    /\ Resolves(releases[r].ref)
    /\ releases' = [releases EXCEPT ![r].state = "validation", ![r].revision = @ + 1]
    /\ UNCHANGED <<configs, approvals, req, begun>>

StartPublishRelease(q, r) ==
    /\ releases[r].state = "validation"
    /\ Begin(q, "release", r, releases[r].revision)

SupersededRelease(p) == [releases EXCEPT ![p].state = "superseded", ![p].revision = @ + 1]

\* Mutant: what was superseded is not put back when the publication fails.
ReplacedInPart(w) ==
    IF w.previous # 0 /\ releases[w.previous].revision # w.seen THEN releases
    ELSE LET earlier == IF w.previous = 0 THEN releases ELSE SupersededRelease(w.previous)
         IN  IF earlier[w.id].revision # w.revision THEN earlier
             ELSE [earlier EXCEPT ![w.id].state = "published", ![w.id].revision = @ + 1,
                                  ![w.id].previous = w.previous]

\* save, or replace_active: both revisions are compared, or nothing is written.
Replaced(w) ==
    IF \/ releases[w.id].revision # w.revision
       \/ w.previous # 0 /\ releases[w.previous].revision # w.seen
    THEN releases
    ELSE LET earlier == IF w.previous = 0 THEN releases ELSE SupersededRelease(w.previous)
         IN  [earlier EXCEPT ![w.id].state = "published", ![w.id].revision = @ + 1,
                             ![w.id].previous = w.previous]

PublishRelease(q) ==
    /\ req[q].pc = "replace" /\ req[q].of = "release"
    /\ releases' = Replaced(req[q])
    /\ req' = [req EXCEPT ![q] = Idle]
    /\ UNCHANGED <<configs, approvals, begun>>

\* A superseded release set stays so: nothing can happen between the reading
\* of the target and the write.
RollbackRelease(r, t) ==
    /\ releases[r].state = "published"
    /\ releases[t].state = "superseded"
    /\ BeginWork
    /\ releases' = Append(SupersededRelease(r),
         [releases[t] EXCEPT !.state = "published", !.revision = 1, !.previous = r])
    /\ UNCHANGED <<configs, approvals, req>>

-----------------------------------------------------------------------------
Configure ==
    \/ \E s \in Admins, impact \in {"normal", "high"} : CreateConfiguration(s, impact)
    \/ \E c \in DOMAIN configs :
         \/ PatchConfiguration(c)
         \/ ValidateConfiguration(c)
         \/ WithdrawConfiguration(c)
         \/ \E s \in Admins : ApproveConfiguration(s, c) \/ RejectConfiguration(s, c)

Release ==
    \/ \E c \in DOMAIN configs : CreateRelease(c)
    \/ \E r \in DOMAIN releases :
         \/ ValidateRelease(r)
         \/ \E t \in DOMAIN releases : RollbackRelease(r, t)

Serve(q) ==
    \/ \E s \in Admins, c \in DOMAIN configs : StartPublish(q, s, c)
    \/ \E r \in DOMAIN releases : StartPublishRelease(q, r)
    \/ \E c, t \in DOMAIN configs : StartRollback(q, c, t)
    \/ ReadActive(q)
    \/ PublishConfiguration(q)
    \/ \E s \in Admins : RollbackConfiguration(q, s)
    \/ PublishRelease(q)

Next == Configure \/ Release \/ \E q \in Requests : Serve(q)

Spec == Init /\ [][Next]_vars

-----------------------------------------------------------------------------
(* Properties.                                                              *)

\* Once a release set has been published the runtime always has one, and
\* what it names can be resolved, whatever happened to the configurations
\* since: publications that overlap, of one release set too, never leave the
\* scope without a release set.
RuntimeAvailable ==
    /\ (\E r \in DOMAIN releases : releases[r].state = "superseded") => ActiveReleases # {}
    /\ \A r \in ActiveReleases : Resolves(releases[r].ref)

\* History does not fork: a version that was superseded, and no other, is
\* the predecessor of exactly one later version.
LinearHistory ==
    /\ \A p \in DOMAIN configs :
         LET successors == {c \in DOMAIN configs : Latest(c).previous = p}
         IN  /\ Latest(p).state = "superseded" => successors # {}
             /\ \A c, d \in successors : c = d
             /\ successors # {} => Latest(p).state = "superseded"
    /\ \A p \in DOMAIN releases :
         LET successors == {r \in DOMAIN releases : releases[r].previous = p}
         IN  /\ releases[p].state = "superseded" <=> successors # {}
             /\ \A r, s \in successors : r = s

\* What a high-impact configuration says was approved, as it stands, by
\* somebody else than its author before it was published; rolling back to an
\* earlier version, which asks for no approval, included.
ApprovedContent ==
    \A c \in DOMAIN configs : \A i \in DOMAIN configs[c] :
        LET published == configs[c][i]
        IN  published.state = "published" /\ published.impact = "high"
              => \E a \in approvals :
                   LET reviewed == configs[a.config][a.revision]
                   IN  /\ a.decision = "approved"
                       /\ reviewed.content = published.content
                       /\ a.reviewer # reviewed.author

(* What the documentation says and the code does not do.                    *)

\* "Publication makes one complete release set active for the pair and
\* supersedes the previous active set atomically".
OneActiveRelease == \A r, s \in ActiveReleases : r = s
=============================================================================
