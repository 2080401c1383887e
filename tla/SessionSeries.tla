----------------------------- MODULE SessionSeries -----------------------------
(***************************************************************************)
(* The sessions of one activity group: generated from its recurring        *)
(* template by the cron job, or scheduled by hand; started, cancelled, and *)
(* completed by the sweeps once they are over.                             *)
(*                                                                         *)
(* The commands on a session take its lock and are one action each.  What  *)
(* is about the group and the template takes none: a request reads rows,   *)
(* and writes them back in a later action.  The cron job is a process of   *)
(* its own that anybody may start again while one is running, and that may *)
(* die anywhere: it reads the templates that are due, then the group, then *)
(* makes each occurrence in a transaction of its own, and records how far  *)
(* it came (generated_up_to) at the end.                                   *)
(***************************************************************************)
EXTENDS Recurrence, FiniteSets

CONSTANTS
  Crons,         \* runs of cmd/cron that may be under way at once
  Sweepers,      \* the API's instances and the last step of a cron run
  Editors,       \* requests on the group, the template or a new session
  EditKinds,     \* bound: what requests may be about
  Rules,         \* the rules a template may be given
  Lookahead,     \* lookaheadWindow
  MaxTime,       \* bound: the clock's last tick
  MaxSessions,   \* bound: sessions ever made
  MaxEdits,      \* bound: requests ever made
  MaxFaults      \* bound: crashes of a run and failed statements

ASSUME SeriesAssumption ==
  /\ Rules \subseteq [frequency : Frequencies, interval : Nat, day : Nat, endsAt : {Never} \cup Nat]
  /\ \A r \in Rules : NewRecurrenceRule(r, 0)
  /\ Lookahead \in Nat /\ MaxTime \in Nat /\ MaxSessions \in Nat
  /\ MaxEdits \in Nat /\ MaxFaults \in Nat

\* A column that is NULL.
Null == -1
NoRule == [frequency |-> "none", interval |-> 0, day |-> 0, endsAt |-> Never]

VARIABLES
  now,        \* the clock
  group,      \* the group's status (none before it exists), and deleted_at IS NOT NULL
  template,   \* the template's status, deleted, rule and generated_up_to
  sessions,   \* the sessions of the group in the order they were made
  cron,       \* cron[c]: how far run c of the cron job has come
  ended,      \* ended[p]: ended sessions p's sweep has read and not handled yet
  editing,    \* editing[e]: what request e has read and is going to write
  edits,      \* requests made so far
  faults,     \* crashes and failed statements so far
  since,      \* where the generation of the template's rule started, Null before
  failed,     \* dates a run gave up on: its insert failed, or they had passed
  cut,        \* a run died or could not write generated_up_to, or two overlapped
  stale       \* generated_up_to was written by a run that had read an older rule,
              \* or that found no mark and started beyond another run's since

seriesVars == <<now, group, template, sessions, cron, ended, editing, edits, faults, since, failed, cut, stale>>

\* No route cancels a group: CancelActivityGroup has no caller.
GroupRows == [status : {"none", "draft", "active", "cancelled"}, deleted : BOOLEAN]

NoGroup == [status |-> "none", deleted |-> FALSE]

TemplateRows ==
  [status : {"none", "active", "inactive"}, deleted : BOOLEAN,
   rule : Rules \cup {NoRule}, upTo : {Null} \cup Nat]

\* rule: what it was generated from, NoRule when it was scheduled by hand.
\* orphan: the group was deleted already when the session was made.
\* ends: the times it was completed or cancelled.
SessionRows ==
  [at : Nat, rule : Rules \cup {NoRule}, status : {"scheduled", "started", "canceled", "completed"},
   deleted : BOOLEAN, orphan : BOOLEAN, ends : Nat]

IdleCron == [step |-> "idle", rule |-> NoRule, from |-> Null, current |-> Null,
             until |-> Null, made |-> 0]

NoTemplate == [status |-> "none", deleted |-> FALSE, rule |-> NoRule, upTo |-> Null]

IdleReq == [kind |-> "idle", group |-> NoGroup, template |-> NoTemplate]

IsCancelled(g) == g.status = "cancelled"
InSeries(s) == s.rule # NoRule
IsLive(s) == s.status \in {"scheduled", "started"} /\ ~s.deleted

-----------------------------------------------------------------------------
(***************************************************************************)
(* The domain.  Each operator gives the row that results, or nothing when  *)
(* the domain refuses.                                                     *)
(***************************************************************************)

NewActivityGroup == [status |-> "draft", deleted |-> FALSE]

UpdateGroup(g) == {h \in {g} : g.status # "none" /\ ~IsCancelled(g) /\ ~g.deleted}

ActivateGroup(g) ==
  {h \in {[g EXCEPT !.status = "active"]} : g.status = "draft" /\ ~g.deleted}

DeleteGroup(g) ==
  {h \in {[g EXCEPT !.deleted = TRUE]} : g.status # "none" /\ ~g.deleted}

NewSessionTemplate(rule) == [NoTemplate EXCEPT !.status = "active", !.rule = rule]

UpdateTemplate(t, rule) == {u \in {[t EXCEPT !.rule = rule]} : ~t.deleted}

\* Both succeed, and change nothing, when there is nothing to change.
Activate(t) == {u \in {[t EXCEPT !.status = "active"]} : ~t.deleted}
Deactivate(t) == {u \in {[t EXCEPT !.status = "inactive"]} : ~t.deleted}

Delete(t) == {[t EXCEPT !.deleted = TRUE]}

IsRecurring(t) == t.rule # NoRule

\* A session may not be scheduled to start in the past.
NewSessionSchedule(at) == {t \in {at} : t >= now}

NewSession(at, rule) ==
  [at |-> at, rule |-> rule, status |-> "scheduled", deleted |-> FALSE,
   orphan |-> group.deleted, ends |-> 0]

Start(s) == {t \in {[s EXCEPT !.status = "started"]} : s.status = "scheduled"}

Complete(s) ==
  {t \in {[s EXCEPT !.status = "completed", !.ends = @ + 1]} : s.status = "started"}

Cancel(s) ==
  {t \in {[s EXCEPT !.status = "canceled", !.ends = @ + 1]} : s.status \in {"scheduled", "started"}}

\* Faulty variant: a session that is under way is not cancelled with its group.
CancelFromGroupScheduled(s) ==
  {t \in {[s EXCEPT !.status = "canceled", !.ends = @ + 1]} : s.status = "scheduled"}

CancelFromGroup(s) ==
  {t \in {[s EXCEPT !.status = "canceled", !.ends = @ + 1]} : s.status \notin {"completed", "canceled"}}

\* The time a session ends: two hours after it started, within the same tick.
EffectiveEndTime(s) == s.at

\* What ended already is left as it is, without an error.
ExpireSchedule(s) ==
  {t \in {IF s.status \in {"scheduled", "started"}
          THEN [s EXCEPT !.status = "completed", !.ends = @ + 1] ELSE s} :
     now > EffectiveEndTime(s)}

-----------------------------------------------------------------------------
(***************************************************************************)
(* The repositories: what a statement reads and what it leaves behind.     *)
(***************************************************************************)

\* generated_up_to and deleted_at are not among the columns written back.
UpdateSessionTemplate(t) ==
  IF template.deleted THEN template
  ELSE [template EXCEPT !.status = t.status, !.rule = t.rule]

UpdateGeneratedUpTo(until) ==
  IF template.deleted THEN template ELSE [template EXCEPT !.upTo = until]

DeleteSessionTemplate == [template EXCEPT !.deleted = TRUE]

GetSessionTemplateByID == {t \in {template} : t.status # "none" /\ ~t.deleted}

\* What a filter selects: all of them, or the active recurring ones whose sessions
\* do not reach the end of the window yet.
SessionTemplateQuery(needsGeneration) ==
  {t \in {template} :
     /\ t.status # "none" /\ ~t.deleted
     /\ needsGeneration =>
          /\ t.status = "active"
          /\ IsRecurring(t)
          /\ t.upTo = Null \/ t.upTo < now + Lookahead}

ListSessionTemplates(needsGeneration) == SessionTemplateQuery(needsGeneration)

FindRecurringTemplatesToGenerate == ListSessionTemplates(TRUE)

\* The status is written back with everything else, deleted_at is not.
UpdateActivityGroup(g) == [group EXCEPT !.status = g.status]
DeleteActivityGroup == [group EXCEPT !.deleted = TRUE]

CreateSession(at, rule) == Append(sessions, NewSession(at, rule))

GetSessionByID(i) == {s \in {sessions[i]} : ~s.deleted}

FindSessionsPastEndTime ==
  {i \in DOMAIN sessions : IsLive(sessions[i]) /\ EffectiveEndTime(sessions[i]) < now}

\* The whole row, whatever it has become since it was read.
UpdateSession(i, s) == [sessions EXCEPT ![i] = s]

ListActiveSessionIDsByGroup == {i \in DOMAIN sessions : IsLive(sessions[i])}

-----------------------------------------------------------------------------
(***************************************************************************)
(* Requests on the group and on the template: what the row becomes is      *)
(* decided on the row that was read (Begin), and written later (Commit).   *)
(***************************************************************************)

MayRequest(e) == editing[e].kind = "idle" /\ edits < MaxEdits

\* The handlers pass on what an authenticated account asks for; the services
\* refuse who may not manage the group, so every request here is a manager's.
GroupRequested(e, kind) == MayRequest(e) /\ kind \in EditKinds
TemplateRequested(e, kind) == MayRequest(e) /\ kind \in EditKinds
SessionRequested(kind) == edits < MaxEdits /\ kind \in EditKinds

DecideRequest(e, r) ==
  /\ editing' = [editing EXCEPT ![e] = r]
  /\ edits' = edits + 1
  /\ UNCHANGED <<now, group, template, sessions, cron, ended, faults, since, failed, cut, stale>>

BeginGroupRequest(e, kind, result) ==
  /\ GroupRequested(e, kind)
  /\ \E g \in result : DecideRequest(e, [IdleReq EXCEPT !.kind = kind, !.group = g])

UpdateActivityGroupRequest(e) == BeginGroupRequest(e, "update_group", UpdateGroup(group))
ActivateActivityGroupRequest(e) == BeginGroupRequest(e, "activate_group", ActivateGroup(group))
DeleteActivityGroupRequest(e) == BeginGroupRequest(e, "delete_group", DeleteGroup(group))

BeginTemplateRequest(e, kind, Result(_)) ==
  /\ TemplateRequested(e, kind)
  /\ \E t \in GetSessionTemplateByID : \E u \in Result(t) :
       DecideRequest(e, [IdleReq EXCEPT !.kind = kind, !.template = u])

UpdateSessionTemplateRequest(e) ==
  \E rule \in Rules \cup {NoRule} :
    /\ rule # NoRule => NewRecurrenceRule(rule, now)
    /\ LET Updated(t) == UpdateTemplate(t, rule) IN BeginTemplateRequest(e, "write_template", Updated)

ActivateSessionTemplateRequest(e) == BeginTemplateRequest(e, "write_template", Activate)
DeactivateSessionTemplateRequest(e) == BeginTemplateRequest(e, "write_template", Deactivate)
DeleteSessionTemplateRequest(e) == BeginTemplateRequest(e, "delete_template", Delete)

CancelGroupSessions ==
  [i \in DOMAIN sessions |->
     IF i \in ListActiveSessionIDsByGroup /\ CancelFromGroup(sessions[i]) # {}
     THEN CHOOSE s \in CancelFromGroup(sessions[i]) : TRUE
     ELSE sessions[i]]

SoftDeleteGroupSessions(ss) == [i \in DOMAIN ss |-> [ss[i] EXCEPT !.deleted = TRUE]]

DeleteGroupSessions == SoftDeleteGroupSessions(CancelGroupSessions)

Done(e) == editing' = [editing EXCEPT ![e] = IdleReq]

\* A row written by a request that changes the rule starts the series anew.
WriteTemplate(t) ==
  /\ template' = t
  /\ since' = IF t.rule = template.rule THEN since ELSE template.upTo

CommitGroupUpdate(e) ==
  /\ editing[e].kind \in {"update_group", "activate_group"}
  /\ group' = UpdateActivityGroup(editing[e].group)
  /\ Done(e)
  /\ UNCHANGED <<now, template, sessions, cron, ended, edits, faults, since, failed, cut, stale>>

\* One transaction with the group's sessions.
CommitGroupDelete(e) ==
  /\ editing[e].kind = "delete_group"
  /\ group' = DeleteActivityGroup
  /\ sessions' = DeleteGroupSessions
  /\ Done(e)
  /\ UNCHANGED <<now, template, cron, ended, edits, faults, since, failed, cut, stale>>

CommitTemplate(e) ==
  /\ \/ /\ editing[e].kind = "write_template"
        /\ WriteTemplate(UpdateSessionTemplate(editing[e].template))
     \/ /\ editing[e].kind = "delete_template"
        /\ WriteTemplate(DeleteSessionTemplate)
  /\ Done(e)
  /\ UNCHANGED <<now, group, sessions, cron, ended, edits, faults, failed, cut, stale>>

CreateActivityGroup ==
  /\ group = NoGroup
  /\ group' = NewActivityGroup
  /\ UNCHANGED <<now, template, sessions, cron, ended, editing, edits, faults, since, failed, cut, stale>>

\* One template: a bound.
CreateSessionTemplate ==
  /\ group.status # "none" /\ template.status = "none"
  /\ \E rule \in Rules :
       /\ NewRecurrenceRule(rule, now)
       /\ template' = NewSessionTemplate(rule)
  /\ UNCHANGED <<now, group, sessions, cron, ended, editing, edits, faults, since, failed, cut, stale>>

-----------------------------------------------------------------------------
(***************************************************************************)
(* Commands on one session, each under its lock.                           *)
(***************************************************************************)

\* Who manages the group may schedule a session whatever the group's status.
ScheduleSession ==
  /\ SessionRequested("create_session")
  /\ group.status # "none"
  /\ Len(sessions) < MaxSessions
  /\ \E d \in 0..MaxTime : \E at \in NewSessionSchedule(At(d)) :
       /\ at <= MaxTime
       /\ sessions' = CreateSession(at, NoRule)
  /\ edits' = edits + 1
  /\ UNCHANGED <<now, group, template, cron, ended, editing, faults, since, failed, cut, stale>>

OnSession(kind, Result(_)) ==
  /\ SessionRequested(kind)
  /\ \E i \in DOMAIN sessions : \E s \in GetSessionByID(i) : \E t \in Result(s) :
       sessions' = UpdateSession(i, t)
  /\ edits' = edits + 1
  /\ UNCHANGED <<now, group, template, cron, ended, editing, faults, since, failed, cut, stale>>

StartSession == OnSession("start", Start)
CompleteSession == OnSession("complete", Complete)
CancelSession == OnSession("cancel", Cancel)
-----------------------------------------------------------------------------
(***************************************************************************)
(* The cron job.                                                           *)
(***************************************************************************)

Generating(c) == cron[c].step # "idle"

ListDue(c) ==
  /\ cron[c].step = "idle"
  /\ \E t \in FindRecurringTemplatesToGenerate :
       cron' = [cron EXCEPT ![c] = [@ EXCEPT !.step = "due", !.rule = t.rule, !.from = t.upTo]]
  /\ cut' = (cut \/ \E other \in Crons \ {c} : Generating(other))
  /\ UNCHANGED <<now, group, template, sessions, ended, editing, edits, faults, since, failed, stale>>

\* The group is read once, before the first occurrence.
BeginTemplate(c) ==
  LET startFrom == IF cron[c].from = Null THEN now ELSE cron[c].from
  IN /\ cron[c].step = "due"
     /\ cron' = [cron EXCEPT ![c] =
          IF HasEnded(@.rule, now) \/ IsCancelled(group) \/ group.deleted
          THEN IdleCron
          ELSE [@ EXCEPT !.step = "loop", !.from = startFrom, !.current = startFrom,
                         !.until = now + Lookahead]]
     /\ UNCHANGED <<now, group, template, sessions, ended, editing, edits, faults, since, failed, cut, stale>>

NextInWindow(c) ==
  {t \in NextOccurrenceAfter(cron[c].rule, cron[c].current) : t <= cron[c].until}

GenerateOccurrence(c) ==
  /\ cron[c].step = "loop"
  /\ \E next \in NextInWindow(c) :
       /\ next \in NewSessionSchedule(next)
       /\ Len(sessions) < MaxSessions
       /\ sessions' = CreateSession(next, cron[c].rule)
       /\ cron' = [cron EXCEPT ![c].current = next, ![c].made = @ + 1]
  /\ UNCHANGED <<now, group, template, ended, editing, edits, faults, since, failed, cut, stale>>

\* An error is logged, and the loop goes on to the next occurrence.
SkipOccurrence(c) ==
  /\ cron[c].step = "loop"
  /\ \E next \in NextInWindow(c) :
       /\ \/ NewSessionSchedule(next) = {} /\ faults' = faults
          \/ faults < MaxFaults /\ faults' = faults + 1
       /\ failed' = failed \cup {next}
       /\ cron' = [cron EXCEPT ![c].current = next]
  /\ UNCHANGED <<now, group, template, sessions, ended, editing, edits, since, cut, stale>>

EndLoop(c) ==
  /\ cron[c].step = "loop"
  /\ NextInWindow(c) = {}
  /\ cron' = [cron EXCEPT ![c] = IF @.made > 0 THEN [@ EXCEPT !.step = "watermark"] ELSE IdleCron]
  /\ UNCHANGED <<now, group, template, sessions, ended, editing, edits, faults, since, failed, cut, stale>>

\* What becomes of stale: the run had read an older rule, or, overlapping with one
\* that has written a mark since, started beyond that mark.
LeavesGap(c) ==
  \/ cron[c].rule # template.rule
  \/ template.upTo # Null /\ cron[c].from > template.upTo

\* Faulty variant: the mark is the end of a window that starts when the loop is over.
WriteLateWatermark(c) ==
  /\ cron[c].step = "watermark"
  /\ template' = UpdateGeneratedUpTo(now + Lookahead)
  /\ since' = IF since = Null THEN cron[c].from ELSE since
  /\ stale' = (stale \/ LeavesGap(c))
  /\ cron' = [cron EXCEPT ![c] = IdleCron]
  /\ UNCHANGED <<now, group, sessions, ended, editing, edits, faults, failed, cut>>

WriteWatermark(c) ==
  /\ cron[c].step = "watermark"
  /\ template' = UpdateGeneratedUpTo(cron[c].until)
  /\ since' = IF since = Null THEN cron[c].from ELSE since
  /\ stale' = (stale \/ LeavesGap(c))
  /\ cron' = [cron EXCEPT ![c] = IdleCron]
  /\ UNCHANGED <<now, group, sessions, ended, editing, edits, faults, failed, cut>>

\* The sessions are there: the error is logged and nothing else.
LoseWatermark(c) ==
  /\ cron[c].step = "watermark"
  /\ faults < MaxFaults /\ faults' = faults + 1
  /\ cut' = TRUE
  /\ cron' = [cron EXCEPT ![c] = IdleCron]
  /\ UNCHANGED <<now, group, template, sessions, ended, editing, edits, since, failed, stale>>

Crash(c) ==
  /\ cron[c].step # "idle"
  /\ faults < MaxFaults /\ faults' = faults + 1
  /\ cut' = (cut \/ cron[c].made > 0)
  /\ cron' = [cron EXCEPT ![c] = IdleCron]
  /\ UNCHANGED <<now, group, template, sessions, ended, editing, edits, since, failed, stale>>

-----------------------------------------------------------------------------
(***************************************************************************)
(* The sweep of ended sessions, by every instance of the API and at the    *)
(* end of a cron run: what was found is reloaded under its lock.           *)
(***************************************************************************)

SweepFind(p) ==
  /\ ended[p] = {}
  /\ ended' = [ended EXCEPT ![p] = FindSessionsPastEndTime]
  /\ FindSessionsPastEndTime # {}
  /\ UNCHANGED <<now, group, template, sessions, cron, editing, edits, faults, since, failed, cut, stale>>

\* Faulty variant: what was found is completed as it was found, not as it is.
ExpireFound(p, i) ==
  /\ i \in ended[p]
  /\ sessions' = [sessions EXCEPT ![i].status = "completed", ![i].ends = @ + 1]
  /\ ended' = [ended EXCEPT ![p] = @ \ {i}]
  /\ UNCHANGED <<now, group, template, cron, editing, edits, faults, since, failed, cut, stale>>

Expire(p, i) ==
  /\ i \in ended[p]
  /\ LET expired == UNION {ExpireSchedule(s) : s \in GetSessionByID(i)}
     IN IF IsLive(sessions[i]) /\ expired # {}
        THEN \E s \in expired : sessions' = UpdateSession(i, s)
        ELSE UNCHANGED sessions
  /\ ended' = [ended EXCEPT ![p] = @ \ {i}]
  /\ UNCHANGED <<now, group, template, cron, editing, edits, faults, since, failed, cut, stale>>

Tick ==
  /\ now < MaxTime
  /\ now' = now + 1
  /\ UNCHANGED <<group, template, sessions, cron, ended, editing, edits, faults, since, failed, cut, stale>>

-----------------------------------------------------------------------------

SeriesInit ==
  /\ now = 0
  /\ group = NoGroup
  /\ template = NoTemplate
  /\ sessions = <<>>
  /\ cron = [c \in Crons |-> IdleCron]
  /\ ended = [p \in Sweepers |-> {}]
  /\ editing = [e \in Editors |-> IdleReq]
  /\ edits = 0 /\ faults = 0
  /\ since = Null
  /\ failed = {}
  /\ cut = FALSE /\ stale = FALSE

SeriesNext ==
  \/ \E e \in Editors :
       \/ UpdateActivityGroupRequest(e) \/ ActivateActivityGroupRequest(e) \/ DeleteActivityGroupRequest(e)
       \/ UpdateSessionTemplateRequest(e) \/ ActivateSessionTemplateRequest(e)
       \/ DeactivateSessionTemplateRequest(e) \/ DeleteSessionTemplateRequest(e)
       \/ CommitGroupUpdate(e) \/ CommitGroupDelete(e)
       \/ CommitTemplate(e)
  \/ CreateActivityGroup \/ CreateSessionTemplate \/ ScheduleSession
  \/ StartSession \/ CompleteSession \/ CancelSession
  \/ \E c \in Crons :
       \/ ListDue(c) \/ BeginTemplate(c) \/ GenerateOccurrence(c) \/ SkipOccurrence(c)
       \/ EndLoop(c) \/ WriteWatermark(c) \/ LoseWatermark(c) \/ Crash(c)
  \/ \E p \in Sweepers : SweepFind(p) \/ \E i \in ended[p] : Expire(p, i)
  \/ Tick

SeriesSpec == SeriesInit /\ [][SeriesNext]_seriesVars

-----------------------------------------------------------------------------
(***************************************************************************)
(* Properties.                                                             *)
(***************************************************************************)

\* Every variable has its type.
SeriesTypeOK ==
  /\ now \in 0..MaxTime
  /\ group \in GroupRows
  /\ template \in TemplateRows
  /\ sessions \in Seq(SessionRows) /\ Len(sessions) <= MaxSessions
  /\ \A c \in Crons :
       /\ cron[c].step \in {"idle", "due", "loop", "watermark"}
       /\ cron[c].rule \in Rules \cup {NoRule}
       /\ cron[c].made \in 0..MaxSessions
       /\ {cron[c].from, cron[c].current, cron[c].until} \subseteq {Null} \cup Nat
  /\ \A p \in Sweepers : ended[p] \subseteq DOMAIN sessions
  /\ \A e \in Editors : editing[e].group \in GroupRows /\ editing[e].template \in TemplateRows
  /\ edits \in 0..MaxEdits /\ faults \in 0..MaxFaults
  /\ since \in {Null} \cup Nat
  /\ failed \subseteq Nat

\* The series is the rule's calendar: no session on another date, and between
\* where the generation of a rule started and generated_up_to a session on every
\* date of it, unless the job gave up on the date, or the mark was written by a run
\* that had read an older rule, or that had found no mark and started beyond the one
\* it replaces (session_generator_service.go:111-116, 159-265, recurrence.go:136).
FollowsCalendar ==
  /\ \A i \in DOMAIN sessions :
       InSeries(sessions[i]) => OnCalendar(sessions[i].rule, sessions[i].at)
  /\ (since # Null /\ template.upTo # Null /\ ~stale /\ template.rule.interval = 1) =>
       \A t \in (since + 1)..template.upTo :
         OnCalendar(template.rule, t) =>
           t \in failed \/ \E i \in DOMAIN sessions : InSeries(sessions[i]) /\ sessions[i].at = t

\* A date gets two sessions only after a run died before it wrote
\* generated_up_to, could not write it, or overlapped with another one: there
\* is no constraint on the table, only the mark (session_generator_service.go:251).
OneSessionPerDate ==
  ~cut => \A i, j \in DOMAIN sessions :
            (InSeries(sessions[i]) /\ InSeries(sessions[j]) /\ sessions[i].at = sessions[j].at) => i = j

\* A session ends once: sweeps of several instances, organizers and the end of
\* its group never complete or cancel it again (session_service.go:893-902).
EndsOnce == \A i \in DOMAIN sessions : sessions[i].ends <= 1

\* A deleted group takes its sessions with it: each that was made before is
\* deleted, and ended first, started or not, so that its attendees heard of it
\* (session_service.go:1048-1169, activity_group_service.go:527).
GroupTakesSessions ==
  group.deleted =>
    \A i \in DOMAIN sessions :
      ~sessions[i].orphan => sessions[i].deleted /\ sessions[i].status \in {"completed", "canceled"}

\* The rows and the runs stay what the code can make of them, no session ended
\* twice among them.
SessionsOK == SeriesTypeOK /\ EndsOnce
=============================================================================
