----------------------------- MODULE Statements -----------------------------
(***************************************************************************)
(* Statements of account: the core system generates them, some projected   *)
(* to a future cut-off, in no order of their numbers; /soa lists the       *)
(* caller's statements of the last months, or failing these the latest     *)
(* one, by two queries between which the table and the date may change;    *)
(* /soa/:ctrl_no opens one.  Whose statements they are is decided before,  *)
(* by a lookup of the ledger account that the caller's user is linked to.  *)
(***************************************************************************)
EXTENDS Calendar, FiniteSets

CONSTANTS CtrlNos,        \* statement numbers
          Members,        \* the ledger accounts, whose statement it is
          NoAccount,      \* "", the account of a user without one
          WindowMonths    \* 3 in the code

ASSUME StatementAssumption == NoAccount \notin Members /\ WindowMonths \in Nat

VARIABLES statements,   \* wkfcsoa, one record for the lines of a CTRLNO
          linked,       \* the caller's users.user_client_id
          reader        \* a request of the caller for the history

AllStatements == [ctrl : CtrlNos, owner : Members, cutoff : 0..MaxDay]

Accounts == Members \cup {NoAccount}

History == [stage : {"listed"}, member : Accounts, entries : SUBSET AllStatements]

-----------------------------------------------------------------------------
\* Seeded fault: projected statements are not left out.
AllOf(m) == {s \in statements : s.owner = m}

\* CLIENTIDx = ? ... AND CUTOFFDATE <= CURDATE()
PastOf(m) == {s \in statements : s.owner = m /\ s.cutoff <= today}

\* Seeded fault: the numbers are taken for the order of time.
HigherNumber(s, t) == s.ctrl >= t.ctrl

\* ORDER BY CUTOFFDATE DESC, CTRLNO DESC
Newer(s, t) == s.cutoff > t.cutoff \/ (s.cutoff = t.cutoff /\ s.ctrl >= t.ctrl)

Latest(ss) == {s \in ss : \A t \in ss : Newer(s, t)}

InWindow(m) == {s \in PastOf(m) : s.cutoff >= MonthsBack(today, WindowMonths)}

\* FindSOAStatement finds it, else the answer is 404.
Opens(m, ctrl) == \E s \in statements : s.owner = m /\ s.ctrl = ctrl /\ s.cutoff <= today

-----------------------------------------------------------------------------
StatementInit ==
    /\ statements = {}
    /\ linked \in Accounts
    /\ reader = [stage |-> "idle"]

\* The core system generates a statement.
Generate ==
    /\ \E s \in AllStatements :
          /\ \A t \in statements : t.ctrl # s.ctrl
          /\ statements' = statements \cup {s}
    /\ UNCHANGED <<today, linked, reader>>

\* Staff find the ledger account of a user who registered without one.
LinkAccount ==
    /\ linked = NoAccount
    /\ linked' \in Members
    /\ UNCHANGED <<today, statements, reader>>

FindClientAccountByUserID == linked

\* The middleware in front of every report.
RequireMemberAuth ==
    /\ reader.stage \in {"idle", "listed"}
    /\ reader' = [stage |-> "authorized", member |-> FindClientAccountByUserID]
    /\ UNCHANGED <<today, statements, linked>>

List(entries) == reader' = [stage |-> "listed", member |-> reader.member, entries |-> entries]

\* soaHistoryWindowQuery, for a caller with an account.
QueryWindow ==
    /\ reader.stage = "authorized"
    /\ IF reader.member = NoAccount THEN List({})
       ELSE IF InWindow(reader.member) # {} THEN List(InWindow(reader.member))
       ELSE reader' = [stage |-> "window_empty", member |-> reader.member]
    /\ UNCHANGED <<today, statements, linked>>

\* soaHistoryFallbackQuery
QueryFallback ==
    /\ reader.stage = "window_empty"
    /\ List(Latest(PastOf(reader.member)))
    /\ UNCHANGED <<today, statements, linked>>

StatementNext ==
    Generate \/ LinkAccount \/ RequireMemberAuth \/ QueryWindow \/ QueryFallback

-----------------------------------------------------------------------------
(* Properties.                                                             *)

StatementTypeOK ==
    /\ statements \subseteq AllStatements
    /\ linked \in Accounts
    /\ reader \in {[stage |-> "idle"]}
                    \cup [stage : {"authorized", "window_empty"}, member : Accounts]
                    \cup History

\* "a member ... still sees their most recent one instead of a blank page": the
\* history starts with the newest statement that is not a projection, and is
\* only blank if there is none, at the moment of the answer.
NewestIsListed ==
    [][reader'.stage = "listed" =>
          LET past == {s \in statements : s.owner = reader'.member /\ s.cutoff <= today}
              newest(ss) == {s \in ss : \A t \in ss : s.cutoff > t.cutoff
                                            \/ (s.cutoff = t.cutoff /\ s.ctrl >= t.ctrl)}
          IN  newest(reader'.entries) = newest(past)]_reader

\* Whatever is listed opens for the caller, then and later, whatever account
\* was linked meanwhile; no link of the page is dead.
ListedOpens ==
    reader.stage = "listed" => \A s \in reader.entries : Opens(linked, s.ctrl)

\* Why: the account the request was let in with is still the caller's, unless
\* it had none, and what is listed was a statement of it and no projection.
ReaderInv ==
    /\ reader.stage # "idle" => reader.member \in {linked, NoAccount}
    /\ reader.stage = "window_empty" => reader.member \in Members
    /\ reader.stage = "listed" => reader.entries \subseteq PastOf(reader.member)
=============================================================================
