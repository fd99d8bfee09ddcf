---------------------------- MODULE RouterRules ----------------------------
(***************************************************************************)
(* The rules on the router that the Hub has a hand in, composed.  The      *)
(* firewall rules it follows, the firewall rules it owns and the mapping   *)
(* of a STUN rule are different rules, written by different code: one of   *)
(* the three is chosen at the start and the others rest.  The counters     *)
(* that bound them are common.                                             *)
(***************************************************************************)
EXTENDS FirewallFollow, Sequences

CONSTANTS
  \* OwnedFirewall
  Lan, Ddns, Contents, UserContent, MaxRows, MaxPuts,
  MaxTableEdits,  \* bound: changes of the firewall table made on the router
  \* StunSync
  Targets, MaxAttempts,
  MaxMapEdits     \* bound: changes of the mapping made on the router

VARIABLES
  focus,
  \* OwnedFirewall
  want, job, rows, binds, next, unsure, puts,
  \* StunSync
  doc, cmds, map, mapBind, fw, local, agent, late, mapUnsure, orphan

O == INSTANCE OwnedFirewall WITH MaxEdits <- MaxTableEdits

S == INSTANCE StunSync WITH
       MaxEdits <- MaxMapEdits, bind <- mapBind, unsure <- mapUnsure

\* A rule the Hub writes is told from one that somebody else wrote, and "none"
\* from everything there is.
ASSUME OwnAssumption ==
  /\ UserContent \notin Contents
  /\ None \notin Contents \cup O!Keys \cup O!Binding
  /\ None \notin S!Rule \cup S!Mapping \cup S!Binding /\ Gone \notin S!Mapping

ASSUME LimitsAssumption ==
  /\ MaxRows \in Nat /\ MaxPuts \in Nat /\ MaxTableEdits \in Nat
  /\ MaxAttempts \in Nat \ {0} /\ MaxMapEdits \in Nat

followVars == <<rule, target, bind, cand, run, snap, orig, seen, moves>>
ownedVars == <<want, job, rows, binds, next, unsure, puts>>
stunVars == <<doc, cmds, map, mapBind, fw, local, agent, late, mapUnsure, orphan>>
rulesVars == <<focus, requests, edits, faults, followVars, ownedVars, stunVars>>

\* What rests while a component runs.
notFollow == <<focus, ownedVars, stunVars>>
notOwned == <<focus, requests, followVars, stunVars>>
notStun == <<focus, followVars, ownedVars>>

\* A component that rests is in one of its initial states.
RulesInit ==
  /\ focus \in {"follow", "owned", "stun"}
  /\ Init /\ O!Init /\ S!Init
  /\ focus # "follow" =>
       rule = (CHOOSE r \in Rule : TRUE) /\ target = (CHOOSE x \in Addrs : TRUE)
  /\ focus # "stun" => doc = None

RulesNext ==
  \/ focus = "follow" /\ Next /\ UNCHANGED notFollow
  \/ focus = "owned" /\ O!Next /\ UNCHANGED notOwned
  \/ focus = "stun" /\ S!Next /\ UNCHANGED notStun

\* The fairness of the components.
RulesFairness ==
  /\ WF_rulesVars(focus = "follow" /\ SyncReads /\ UNCHANGED notFollow)
  /\ WF_rulesVars(focus = "follow" /\ SyncAccepts /\ UNCHANGED notFollow)
  /\ SF_rulesVars(focus = "follow" /\ AppLocks /\ UNCHANGED notFollow)
  /\ \A w \in Who : WF_rulesVars(focus = "follow" /\ reconcile(w) /\ UNCHANGED notFollow)
  /\ WF_rulesVars(focus = "stun" /\ S!Sync /\ UNCHANGED notStun)
  /\ WF_rulesVars(focus = "stun" /\ S!LateServed /\ UNCHANGED notStun)

RulesSpec == RulesInit /\ [][RulesNext]_rulesVars /\ RulesFairness

-----------------------------------------------------------------------------
\* The type invariant of the component that runs; the router's table keeps its
\* limit, and so do the deliveries of a command.
RulesTypeOK ==
  /\ focus = "follow" => TypeOK
  /\ focus = "owned" => O!TypeOK
  /\ focus = "stun" => S!TypeOK

\* What somebody did on the router by hand stands: a followed rule changed while
\* nothing was under way, be it in the address alone, is left alone until the
\* user takes the change back or adopts the rule again, the Hub neither deletes
\* nor changes a rule it did not write, and a mapping the user changed is neither
\* overwritten nor deleted.
ManualWorkKept == QuietEditKept /\ O!UserRulesKept /\ S!ManualChangeKept

\* Once requests, edits and failures cease, every table is as the Hub means it:
\* an active binding's rule carries the mapping's address and the APP is shown
\* the rule as it is, or the automation has stopped; the daemon's copy of a STUN
\* rule is the document's, and an enabled one has its mapping on the router or
\* the APP is told that somebody changed it.
TablesConverge ==
  <>[](/\ focus = "follow" => Following /\ SnapshotRight
       /\ focus = "stun" => S!InStep /\ S!Served)

\* The Hub leaves nothing behind on the router: after a request without failed
\* calls its firewall rules are those the server asks for, none left over, none
\* twice, none stale, and a mapping is in the binding of the STUN rule it belongs to.
NothingLeftBehind == O!OnlyWantedRules /\ S!NoForgottenMapping
=============================================================================
