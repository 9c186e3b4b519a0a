---------------------------- MODULE DisciplineVote ----------------------------
(***************************************************************************)
(* Voting on the weights of one discipline: discipline/service.rs and      *)
(* discipline/repo.rs over discipline_weight_votes, _voters,               *)
(* discipline_weights and discipline_weight_history.                       *)
(*                                                                         *)
(* Only casting a ballot is a transaction (CastBallot).  The checks before *)
(* it, the threshold after it and every statement of apply_vote commit on  *)
(* their own, so other calls run between any two of them.                  *)
(*                                                                         *)
(* Weights are integers, Total standing for 1.0; dimensions are 1..Dims in *)
(* the order of ALL_DIMS.                                                  *)
(***************************************************************************)
EXTENDS Integers, FiniteSets, Sequences

CONSTANTS
    Workers,      \* concurrent HTTP calls
    Users,
    Votes,        \* ids the proposals may get
    NoVote,       \* NULL source_vote_id (the bootstrap rows), an idle call
    Dims,         \* number of dimensions, 6 in the code
    Total,        \* the weight 1.0
    DimOf,        \* the dimension a proposal changes
    Proposed,     \* the weight it proposes
    ProposerOf,
    MinAgree,     \* MIN_AGREE_FOR_APPLY, 3
    MinActive,    \* MIN_ACTIVE_USERS_FOR_APPLY, 5
    Choices,      \* the ballots users cast
    Volatile,     \* eligibility changes while the calls run
    CanFail       \* a call may be cut short (client gone, crash, DB error)

AllDims == 1 .. Dims

ASSUME ConstantsAssumption ==
    /\ IsFiniteSet(Users)
    /\ NoVote \notin Votes
    /\ Dims \in Nat \ {0, 1}
    /\ Total \in Nat /\ Total % Dims = 0
    /\ DimOf \in [Votes -> AllDims]
    /\ Proposed \in [Votes -> 0 .. Total]
    /\ \A v \in Votes : (Total - Proposed[v]) % (Dims - 1) = 0
    /\ ProposerOf \in [Votes -> Users]
    /\ MinAgree \in Nat \ {0}
    /\ MinActive \in Nat
    /\ Choices \subseteq {"agree", "disagree"}
    /\ Volatile \in BOOLEAN
    /\ CanFail \in BOOLEAN

VARIABLES
    status,       \* discipline_weight_votes.status, "none" before the INSERT
    ballots,      \* discipline_weight_voters: [vote -> [user -> choice or "none"]]
    agree,        \* discipline_weight_votes.agree_count
    disagree,     \* discipline_weight_votes.disagree_count
    weight,       \* discipline_weights.weight
    source,       \* discipline_weights.source_vote_id
    cooling,      \* dimensions applied to by a vote in the last COOLDOWN_DAYS
    history,      \* discipline_weight_history, per dimension, without bootstrap rows
    eligible,     \* users with >= 3 current approved ratings, not banned or removed
    call          \* each worker: its next statement and its local variables

vars == <<status, ballots, agree, disagree, weight, source, cooling, history, eligible, call>>
polls == <<status, ballots, agree, disagree>>
weights == <<weight, source, cooling>>

Idle == [pc |-> "idle", vote |-> NoVote]
Call(statement, v) == [pc |-> statement, vote |-> v]

(* The bootstrap of migrations 13 and 14. *)
EqualWeight == Total \div Dims

(* Mutant: the rest is divided by all dimensions. *)
RenormalizeOverAll(v) ==
    [d \in AllDims |-> IF d = DimOf[v] THEN Proposed[v]
                                      ELSE (Total - Proposed[v]) \div Dims]

(* renormalize: the other dimensions share the rest equally, whatever their
   current weights are. *)
Renormalize(v) ==
    [d \in AllDims |-> IF d = DimOf[v] THEN Proposed[v]
                                      ELSE (Total - Proposed[v]) \div (Dims - 1)]

(* Mutant: the minimum of agreeing ballots is dropped. *)
ShouldApplyByRatio(yes, no, active) ==
    active >= MinActive /\ yes + no > 0 /\ 5 * yes >= 3 * (yes + no)

(* should_apply, with APPLY_AGREE_RATIO = 3/5. *)
ShouldApply(yes, no, active) ==
    /\ yes >= MinAgree
    /\ active >= MinActive
    /\ 5 * yes >= 3 * (yes + no)

Init ==
    /\ status = [v \in Votes |-> "none"]
    /\ ballots = [v \in Votes |-> [u \in Users |-> "none"]]
    /\ agree = [v \in Votes |-> 0]
    /\ disagree = [v \in Votes |-> 0]
    /\ weight = [d \in AllDims |-> EqualWeight]
    /\ source = [d \in AllDims |-> NoVote]
    /\ cooling = {}
    /\ history = [d \in AllDims |-> <<>>]
    /\ eligible = Users
    /\ call = [w \in Workers |-> Idle]

(* find_vote and list_pending_votes; has_voted; what a vote's page and the list
   show as ready to apply. *)
Pending(v) == status[v] = "pending"
HasVoted(v, u) == ballots[v][u] # "none"
Ready(v) ==
    /\ Pending(v)
    /\ agree[v] >= MinAgree
    /\ Cardinality(eligible) >= MinActive
    /\ agree[v] + disagree[v] > 0 /\ 5 * agree[v] >= 3 * (agree[v] + disagree[v])

Continue(w, next) == call' = [call EXCEPT ![w] = next]
Return(w) == Continue(w, Idle)

-----------------------------------------------------------------------------
(* submit_vote *)

(* user_is_eligible *)
Propose(w, v) ==
    /\ call[w].pc = "idle"
    /\ status[v] = "none"
    /\ \A x \in Workers : call[x].vote # v
    /\ ProposerOf[v] \in eligible
    /\ Continue(w, Call("cooldown", v))
    /\ UNCHANGED <<polls, weights, history, eligible>>

(* cooldown_active *)
CheckCooldown(w) ==
    /\ call[w].pc = "cooldown"
    /\ IF DimOf[call[w].vote] \in cooling
         THEN Return(w)
         ELSE Continue(w, Call("propose", call[w].vote))
    /\ UNCHANGED <<polls, weights, history, eligible>>

InsertVote(w) ==
    /\ call[w].pc = "propose"
    /\ status' = [status EXCEPT ![call[w].vote] = "pending"]
    /\ Return(w)
    /\ UNCHANGED <<ballots, agree, disagree, weights, history, eligible>>

-----------------------------------------------------------------------------
(* cast_ballot *)

(* The vote is pending, and not the voter's own. *)
Ballot(w, v, u, choice) ==
    /\ call[w].pc = "idle"
    /\ Pending(v)
    /\ u # ProposerOf[v]
    /\ Continue(w, [pc |-> "check", vote |-> v, user |-> u, choice |-> choice])
    /\ UNCHANGED <<polls, weights, history, eligible>>

(* user_is_eligible and has_voted. *)
CheckVoter(w) ==
    LET c == call[w]
    IN  /\ c.pc = "check"
        /\ IF c.user \in eligible /\ ~HasVoted(c.vote, c.user)
             THEN Continue(w, [c EXCEPT !.pc = "cast"])
             ELSE Return(w)
        /\ UNCHANGED <<polls, weights, history, eligible>>

(* Mutants: ON CONFLICT DO NOTHING before the count; the count before it. *)
CastBallotTwice(w) ==
    LET c == call[w]
    IN  /\ c.pc = "cast"
        /\ ballots' = [ballots EXCEPT ![c.vote][c.user] = c.choice]
        /\ agree' = [agree EXCEPT ![c.vote] = IF c.choice = "agree" THEN @ + 1 ELSE @]
        /\ disagree' = [disagree EXCEPT ![c.vote] = IF c.choice = "agree" THEN @ ELSE @ + 1]
        /\ Continue(w, [pc |-> "tally", vote |-> c.vote,
                        yes |-> agree'[c.vote], no |-> disagree'[c.vote]])
        /\ UNCHANGED <<status, weights, history, eligible>>
CastBallotOldCount(w) ==
    LET c == call[w]
    IN  /\ c.pc = "cast"
        /\ ballots[c.vote][c.user] = "none"
        /\ ballots' = [ballots EXCEPT ![c.vote][c.user] = c.choice]
        /\ agree' = [agree EXCEPT ![c.vote] = IF c.choice = "agree" THEN @ + 1 ELSE @]
        /\ disagree' = [disagree EXCEPT ![c.vote] = IF c.choice = "agree" THEN @ ELSE @ + 1]
        /\ Continue(w, [pc |-> "tally", vote |-> c.vote,
                        yes |-> agree[c.vote], no |-> disagree[c.vote]])
        /\ UNCHANGED <<status, weights, history, eligible>>

(* The transaction: the ballot, and the count the UPDATE returns.  A second
   ballot of the voter violates uq_dwvoter_per_vote.  The status is not read
   again. *)
CastBallot(w) ==
    LET c == call[w]
    IN  /\ c.pc = "cast"
        /\ IF ballots[c.vote][c.user] # "none"
             THEN Return(w) /\ UNCHANGED <<ballots, agree, disagree>>
             ELSE /\ ballots' = [ballots EXCEPT ![c.vote][c.user] = c.choice]
                  /\ agree' = [agree EXCEPT ![c.vote] = IF c.choice = "agree" THEN @ + 1 ELSE @]
                  /\ disagree' = [disagree EXCEPT ![c.vote] = IF c.choice = "agree" THEN @ ELSE @ + 1]
                  /\ Continue(w, [pc |-> "tally", vote |-> c.vote,
                                  yes |-> agree'[c.vote], no |-> disagree'[c.vote]])
        /\ UNCHANGED <<status, weights, history, eligible>>

(* Mutant: the vote is marked before its weights are written. *)
TallyMarksFirst(w) ==
    LET c == call[w]
    IN  /\ c.pc = "tally"
        /\ IF ShouldApply(c.yes, c.no, Cardinality(eligible))
             THEN /\ Continue(w, [pc |-> "read", vote |-> c.vote, dim |-> 1])
                  /\ status' = [status EXCEPT ![c.vote] = "applied"]
             ELSE Return(w) /\ UNCHANGED status
        /\ UNCHANGED <<ballots, agree, disagree, weights, history, eligible>>

(* count_active_users_in_discipline and should_apply. *)
Tally(w) ==
    LET c == call[w]
    IN  /\ c.pc = "tally"
        /\ IF ShouldApply(c.yes, c.no, Cardinality(eligible))
             THEN Continue(w, [pc |-> "read", vote |-> c.vote, dim |-> 1])
             ELSE Return(w)
        /\ UNCHANGED <<polls, weights, history, eligible>>

-----------------------------------------------------------------------------
(* apply_vote: three statements per dimension, then the status. *)

(* Mutant: reads the weight of the vote's own dimension every time. *)
ReadTargetWeight(w) ==
    LET c == call[w]
    IN  /\ c.pc = "read"
        /\ Continue(w, [pc |-> "upsert", vote |-> c.vote, dim |-> c.dim,
                        old |-> weight[DimOf[c.vote]]])
        /\ UNCHANGED <<polls, weights, history, eligible>>

ReadOldWeight(w) ==
    LET c == call[w]
    IN  /\ c.pc = "read"
        /\ Continue(w, [pc |-> "upsert", vote |-> c.vote, dim |-> c.dim,
                        old |-> weight[c.dim]])
        /\ UNCHANGED <<polls, weights, history, eligible>>

UpsertWeight(w) ==
    LET c == call[w]
    IN  /\ c.pc = "upsert"
        /\ weight' = [weight EXCEPT ![c.dim] = Renormalize(c.vote)[c.dim]]
        /\ source' = [source EXCEPT ![c.dim] = c.vote]
        /\ cooling' = cooling \cup {c.dim}
        /\ Continue(w, [c EXCEPT !.pc = "log"])
        /\ UNCHANGED <<polls, history, eligible>>

(* Mutant: the loop ends one dimension early. *)
InsertHistoryShort(w) ==
    LET c == call[w]
        entry == [old |-> c.old, new |-> Renormalize(c.vote)[c.dim], vote |-> c.vote]
    IN  /\ c.pc = "log"
        /\ history' = [history EXCEPT ![c.dim] = Append(@, entry)]
        /\ Continue(w, IF c.dim >= Dims - 1
                         THEN Call("mark", c.vote)
                         ELSE [pc |-> "read", vote |-> c.vote, dim |-> c.dim + 1])
        /\ UNCHANGED <<polls, weights, eligible>>

InsertHistory(w) ==
    LET c == call[w]
        entry == [old |-> c.old, new |-> Renormalize(c.vote)[c.dim], vote |-> c.vote]
    IN  /\ c.pc = "log"
        /\ history' = [history EXCEPT ![c.dim] = Append(@, entry)]
        /\ Continue(w, IF c.dim = Dims
                         THEN Call("mark", c.vote)
                         ELSE [pc |-> "read", vote |-> c.vote, dim |-> c.dim + 1])
        /\ UNCHANGED <<polls, weights, eligible>>

(* mark_vote_applied, WHERE status = 'pending'. *)
MarkApplied(w) ==
    LET v == call[w].vote
    IN  /\ call[w].pc = "mark"
        /\ status' = IF Pending(v) THEN [status EXCEPT ![v] = "applied"] ELSE status
        /\ Return(w)
        /\ UNCHANGED <<ballots, agree, disagree, weights, history, eligible>>

-----------------------------------------------------------------------------
(* A call is dropped or fails between two statements. *)
Fail(w) ==
    /\ CanFail
    /\ call[w].pc # "idle"
    /\ Return(w)
    /\ UNCHANGED <<polls, weights, history, eligible>>

(* COOLDOWN_DAYS pass since the last application to d. *)
Thaw(d) ==
    /\ d \in cooling
    /\ cooling' = cooling \ {d}
    /\ UNCHANGED <<polls, weight, source, history, eligible, call>>

(* Ratings get approved or superseded, an account is banned or restored. *)
ChangeEligibility(u) ==
    /\ Volatile
    /\ eligible' = IF u \in eligible THEN eligible \ {u} ELSE eligible \cup {u}
    /\ UNCHANGED <<polls, weights, history, call>>

Advance(w) == \/ CheckCooldown(w) \/ InsertVote(w)
              \/ CheckVoter(w) \/ CastBallot(w) \/ Tally(w)
              \/ ReadOldWeight(w) \/ UpsertWeight(w) \/ InsertHistory(w) \/ MarkApplied(w)

Next == \/ \E w \in Workers : \/ Advance(w)
                              \/ Fail(w)
                              \/ \E v \in Votes :
                                     \/ Propose(w, v)
                                     \/ \E u \in Users, c \in Choices : Ballot(w, v, u, c)
        \/ \E d \in AllDims : Thaw(d)
        \/ \E u \in Users : ChangeEligibility(u)

Spec == Init /\ [][Next]_vars

(* A started call keeps being polled; nobody has to propose or vote. *)
FairSpec == Spec /\ \A w \in Workers : WF_vars(Advance(w))

-----------------------------------------------------------------------------
Said(v, choice) == {u \in Users : ballots[v][u] = choice}
AtRest == \A w \in Workers : call[w].pc = "idle"

Calls ==
    {Idle}
    \cup [pc : {"cooldown", "propose", "mark"}, vote : Votes]
    \cup [pc : {"check", "cast"}, vote : Votes, user : Users, choice : Choices]
    \cup [pc : {"tally"}, vote : Votes, yes : Nat, no : Nat]
    \cup [pc : {"read"}, vote : Votes, dim : AllDims]
    \cup [pc : {"upsert", "log"}, vote : Votes, dim : AllDims, old : 0 .. Total]

TypeOK ==
    /\ status \in [Votes -> {"none", "pending", "applied"}]
    /\ ballots \in [Votes -> [Users -> Choices \cup {"none"}]]
    /\ agree \in [Votes -> Nat]
    /\ disagree \in [Votes -> Nat]
    /\ weight \in [AllDims -> 0 .. Total]
    /\ source \in [AllDims -> Votes \cup {NoVote}]
    /\ cooling \subseteq AllDims
    /\ history \in [AllDims -> Seq([old : 0 .. Total, new : 0 .. Total, vote : Votes])]
    /\ eligible \subseteq Users
    /\ call \in [Workers -> Calls]

(* The counters the threshold reads are the number of ballots stored, the
   proposer's never among them, whatever ballots race or fail. *)
CountsAreBallots ==
    \A v \in Votes : /\ agree[v] = Cardinality(Said(v, "agree"))
                     /\ disagree[v] = Cardinality(Said(v, "disagree"))
                     /\ ballots[v][ProposerOf[v]] = "none"

(* H-42, H-44: a weight in force is the bootstrap's or was agreed to by at
   least MinAgree users other than the proposer, and is the weight that vote's
   renormalization gives the dimension. *)
WeightsFromQuorum ==
    \A d \in AllDims :
        LET v == source[d]
        IN  IF v = NoVote
              THEN weight[d] = EqualWeight
              ELSE /\ Cardinality(Said(v, "agree") \ {ProposerOf[v]}) >= MinAgree
                   /\ weight[d] = Renormalize(v)[d]

(* A vote that says applied has a history row for every dimension: nothing
   that fails half-way is recorded as done. *)
AppliedIsLogged ==
    \A v \in Votes : status[v] = "applied" =>
        \A d \in AllDims : \E i \in DOMAIN history[d] : history[d][i].vote = v

(* The history of a dimension explains its weight: each row starts at the
   weight the one before it ended at, the last one ends at the live weight. *)
HistoryExplainsWeights ==
    AtRest => \A d \in AllDims :
        LET h == history[d]
            After(i) == IF i = 0 THEN EqualWeight ELSE h[i].new
        IN  /\ \A i \in 1 .. Len(h) : h[i].old = After(i - 1)
            /\ weight[d] = After(Len(h))

(* The comment on discipline_weights.weight: the weights of a discipline sum
   to 1.0, renormalized at apply. *)
WeightsSumToOne ==
    LET sum[n \in 0 .. Dims] == IF n = 0 THEN 0 ELSE weight[n] + sum[n - 1]
    IN  AtRest => sum[Dims] = Total

(* apply_vote's comment, "All in one transaction": a vote has set all the
   weights it renormalized or none of them. *)
AppliedAsAWhole ==
    AtRest => \A d, e \in AllDims : source[d] = source[e]

(* OUTLINE 4.4: the weight of one dimension changes once in 30 days. *)
OneChangePerCooldown ==
    [][\A d \in cooling : weight'[d] = weight[d]]_vars

(* A vote that is shown as ready to apply is applied without another ballot:
   the condition that is shown and should_apply, which decides with the tally
   of one ballot, do not drift apart. *)
ReadyVotesGetApplied == \A v \in Votes : Ready(v) ~> (status[v] = "applied")
=============================================================================
