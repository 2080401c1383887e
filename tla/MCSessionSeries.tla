--------------------------- MODULE MCSessionSeries ---------------------------
(***************************************************************************)
(* A group whose template is daily, monthly, or every other week up to an  *)
(* end that is reached; two runs of the cron job, one instance of the API  *)
(* and one request at a time.  Weeks of two days, months of one and two:   *)
(* every rule has dates within reach, and the monthly one asks for a day   *)
(* that only some months have.                                             *)
(***************************************************************************)
EXTENDS SessionSeries, TLC

CONSTANTS c1, c2, api, e1

MCCrons == {c1, c2}
MCSweepers == {api}
MCEditors == {e1}
MCSymmetry == Permutations(MCCrons)
MCMonthLengths == <<1, 2>>
Rule(f, n, d) == [frequency |-> f, interval |-> n, day |-> d, endsAt |-> Never]
MCRules == {Rule("daily", 1, 0), [Rule("weekly", 2, 0) EXCEPT !.endsAt = 1],
            Rule("monthly", 1, 2)}
MCEditKinds == {"update_group", "activate_group", "delete_group",
                "write_template", "delete_template",
                "create_session", "start", "complete", "cancel"}

\* A bound: not both edits and the last tick.
MCBound == edits + now <= MaxEdits + MaxTime - 1
=============================================================================
