--------------------------- MODULE RolloutHistory ---------------------------
(***************************************************************************)
(* Rollout with the history its tables forget: a report replaces the one   *)
(* before it, and a promotion keeps neither the canaries it required nor   *)
(* the revision it replaced.  `log` and `promotions` only observe.         *)
(***************************************************************************)
EXTENDS Rollout, Sequences

CONSTANT MaxLog   \* bound: reports heard

VARIABLES
    log,         \* accepted reports in order, with the document they answer
    promotions   \* promotions done, with what each one required

history == <<log, promotions>>

HistoryInit == Init /\ log = <<>> /\ promotions = {}

Hear(p) ==
    /\ Len(log) < MaxLog
    /\ RecordReport(p)
    /\ log' = Append(log, [report |-> p,
                           answers |-> assignments[p.enrollment_id].document])
    /\ UNCHANGED promotions

PromoteAndNote(c, r, expected, required, g) ==
    /\ Promote(c, r, expected, required, g)
    /\ promotions' = promotions \cup
          {[channel |-> c, revision_id |-> r, generation |-> g,
            required |-> required, heard |-> Len(log)]}
    /\ UNCHANGED log

HistoryNext ==
    \/ \E p \in ReportRow : Hear(p)
    \/ \E c \in Channel, r, expected \in HeadRevision, g \in Generation,
          required \in SUBSET Addressee : PromoteAndNote(c, r, expected, required, g)
    \/ /\ UNCHANGED history
       /\ \/ \E r \in Revision : PutRevision(r)
          \/ \E c \in Channel, r \in Revision, base, expected \in HeadRevision :
                PublishCandidate(c, r, base, expected)
          \/ \E d \in AssignmentDocument : AssignCandidate(d) \/ BootstrapActive(d)
          \/ Pair
          \/ \E e \in Enrollment : Revoke(e)

HistorySpec == HistoryInit /\ [][HistoryNext]_<<vars, history>>

----------------------------------------------------------------------------

\* Entry i of the log is the last word, up to entry n, on the document it answers
\* (for a schema 1 document, on its channel and revision).
LastWord(i, n) ==
    \A j \in i + 1 .. n :
        \/ log[j].report.enrollment_id # log[i].report.enrollment_id
        \/ IF log[i].answers.schema = 2
           THEN log[j].answers # log[i].answers
           ELSE \/ log[j].answers.schema = 2
                \/ log[j].report.channel # log[i].report.channel
                \/ log[j].report.revision_id # log[i].report.revision_id

\* Entry j is on a candidate contract of a newer round than what entry i answers, for
\* the same device and revision.  A schema 1 document is older than any contract.
Outranks(j, i) ==
    /\ log[j].report.enrollment_id = log[i].report.enrollment_id
    /\ log[j].report.channel = log[i].report.channel
    /\ log[j].report.revision_id = log[i].report.revision_id
    /\ log[j].answers.schema = 2
    /\ log[j].answers.assignment_kind = "candidate"
    /\ log[i].answers.schema = 2 =>
          log[j].answers.channel_generation > log[i].answers.channel_generation

\* Entry i, of the first n, lets r pass in c on behalf of e.
Passes(i, n, e, c, r) ==
    /\ log[i].report = [enrollment_id |-> e, channel |-> c, revision_id |-> r,
                        result |-> "success"]
    /\ log[i].answers.schema = 2 => log[i].answers.assignment_kind = "candidate"
    /\ LastWord(i, n)
    /\ \A j \in 1 .. n : ~Outranks(j, i)

(* Each canary a promotion required had reported success on a candidate assignment
   of exactly that revision in that channel before the promotion, had not taken the
   report on that assignment back, and had reported nothing, success or failure, on
   a candidate contract of the revision of a newer round: README "promotion gated by
   successful reports from required enrollments".  A failure on another contract of
   the same round does not count: nothing orders the two in the code. *)
PromotionWasTested ==
    \A p \in promotions : \A e \in p.required :
        \E i \in 1 .. p.heard : Passes(i, p.heard, e, p.channel, p.revision_id)

(* A report on an active contract, whenever it arrived, is about the revision
   that the promotion to that generation made active: a device never runs as
   active something that was not promoted. *)
ActiveReportsWerePromoted ==
    \A x \in assignment_reports : x.assignment.assignment_kind = "active" =>
        \E p \in promotions :
            /\ p.channel = x.channel
            /\ p.revision_id = x.revision_id
            /\ p.generation = x.assignment.channel_generation

(* The promotions of a channel are numbered 1 .. generation without gap or
   repetition, and the active head is the revision of the last one: no promotion
   is lost or applied twice by administrators racing for the channel. *)
PromotionsAreTheHistory ==
    \A c \in Channel :
        /\ \A g \in 1 .. generation[c] :
              \E p \in promotions : /\ p.channel = c /\ p.generation = g
                                    /\ g = generation[c] =>
                                          p.revision_id = active_revision[c]
        /\ \A p, q \in promotions :
              p.channel = c /\ q.channel = c /\ p.generation = q.generation =>
                  p = q /\ p.generation <= generation[c]

============================================================================
