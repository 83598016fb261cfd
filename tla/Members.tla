------------------------------- MODULE Members -------------------------------
(***************************************************************************)
(* Organisations, the people in them, their roles and the keys of their    *)
(* agents: the sign-in and the pages of the console (server/console.py),   *)
(* the signup they share (identity/provisioning.py), the administration of *)
(* people (admin/service.py) and the redeeming of invites                  *)
(* (server/token_api.py).  A handler is a chain of transactions: a step is *)
(* one transaction, but for the two that read before they write, which are *)
(* a snapshot and a commit.  Roles are checked when a handler starts.      *)
(*                                                                         *)
(* A person is an email; who may be given a role is a person of an         *)
(* organisation or Agent, the one principal its agents share.              *)
(***************************************************************************)
EXTENDS Naturals, FiniteSets, Sequences

CONSTANTS
  Calls,      \* requests, each used once
  Emails,
  Orgs,       \* ids of organisations
  Home,       \* the default organisation, there from the start
  Founder,    \* its owner
  Agent,
  Given,      \* the roles people are given by others
  InviteUses, \* how often the invite may be redeemed
  CutBound,   \* bound: handlers cut short and restarts
  Nobody

ASSUME HomeIsAnOrg == Home \in Orgs /\ Founder \in Emails /\ Agent \notin Emails
ASSUME RolesAreKnown == Given \subseteq {"org_owner", "org_admin", "member", "viewer"}
ASSUME BoundsAreNumbers == InviteUses \in Nat /\ CutBound \in Nat
ASSUME NobodyIsNothing ==
  Nobody \notin Orgs \cup Emails \cup Calls \cup Given \cup {Agent, "org_owner", "agent"}

VARIABLES
  orgs,       \* organizations, in the order of created_at
  users,      \* rows <<organisation, email>> of users, linked to the account
  member,     \* memberships: the role of a row of users, or Nobody
  bindings,   \* role_bindings, each with the call that inserted it
  keys,       \* api_keys that are not revoked
  uses,       \* uses_left of the invite
  cached,     \* organisations in _agent_cache of the server process
  sessions,   \* session cookies issued, by email and organisation
  call,
  cuts,
  own,        \* history: the organisations a person's sign-ins have created
  crossed,    \* history: whose roles two grants changed at once or a
              \* revocation did, and people a change of whose roles was cut short
  doubled     \* history: people two of whose sign-ins overlapped or were cut

rows == <<orgs, users, member, bindings, keys>>
history == <<own, crossed, doubled>>
membersVars == <<rows, uses, cached, sessions, call, cuts, history>>

----------------------------------------------------------------------------
Roles == Given \cup {"org_owner", "agent"}
Principals == Emails \cup {Agent}

MayAdmin == {"org_owner", "org_admin"}
MayCreate == {"org_owner", "org_admin", "member", "agent"}

(* as: the caller; org: the organisation the call is in; who, role: whose  *)
(* role it changes, and to what; seen: the rows its transaction has read.  *)
Asked(pc, op, as, org, who, role) ==
  [pc |-> pc, op |-> op, as |-> as, org |-> org, who |-> who, role |-> role, seen |-> {}]

Resting(pc) == Asked(pc, Nobody, Nobody, Nobody, Nobody, Nobody)

RowsOf(org, who) == {b \in bindings : b.org = org /\ b.who = who}
RolesOf(org, who) == {b.role : b \in RowsOf(org, who)}

Created == {orgs[i] : i \in DOMAIN orgs}

(* list_orgs: where in orgs the organisations of an email are.             *)
OrgsOf(email) == {i \in DOMAIN orgs : <<orgs[i], email>> \in users}

(* The pair whose roles a call in flight is about to change, if any.       *)
Busy(c) == call[c].pc \notin {"idle", "done"}
Target(c) == <<call[c].org, call[c].who>>
Changing(pair) == {c \in Calls : Busy(c) /\ Target(c) = pair}

MembersInit ==
  /\ orgs = <<Home>> /\ users = {<<Home, Founder>>}
  /\ member = [p \in Orgs \X Emails |-> IF p = <<Home, Founder>> THEN "org_owner" ELSE Nobody]
  /\ bindings = {[org |-> Home, who |-> Founder, role |-> "org_owner", by |-> Nobody]}
  /\ keys = {} /\ uses = InviteUses /\ cached = {}
  /\ sessions = {<<Founder, Home>>}
  /\ call = [c \in Calls |-> Resting("idle")]
  /\ cuts = 0
  /\ own = [e \in Emails |-> {}] /\ crossed = {} /\ doubled = {}

----------------------------------------------------------------------------
GoOn(c, pc) == call' = [call EXCEPT ![c].pc = pc]
Return(c) == call' = [call EXCEPT ![c] = Resting("done")]

(* A request begins.  Two grants to one principal, or two sign-ins of one  *)
(* person, at once leave their mark in the history, as a revocation does.  *)
Begin(c, new) ==
  LET pair == <<new.org, new.who>> IN
  /\ call[c].pc = "idle"
  /\ call' = [call EXCEPT ![c] = new]
  /\ crossed' = IF \/ new.op = "revoke"
                   \/ new.op = "grant" /\ \E d \in Changing(pair) : call[d].op = "grant"
                THEN crossed \cup {pair} ELSE crossed
  /\ doubled' = IF /\ new.op = "login"
                   /\ \E d \in Calls : Busy(d) /\ call[d].op = "login" /\ call[d].as = new.as
                THEN doubled \cup {new.as} ELSE doubled
  /\ UNCHANGED <<rows, cached, sessions, cuts, own>>

(* login_verify with a code that was right, the forms of the console, sent *)
(* with a session cookie, and an invite, whose file is read and rewritten  *)
(* without a pause.                                                        *)
Login(c, e) == Begin(c, Asked("list", "login", e, Nobody, Nobody, Nobody)) /\ UNCHANGED uses

CreateOrg(c, s) == Begin(c, Asked("org", "create", s[1], Nobody, Nobody, Nobody)) /\ UNCHANGED uses

Switch(c, s, o) == Begin(c, Asked("list", "switch", s[1], o, Nobody, Nobody)) /\ UNCHANGED uses

AddPerson(c, s, e, r) ==
  Begin(c, Asked("require", "add", s[1], s[2], e, r)) /\ UNCHANGED uses

GrantRole(c, s, e, r) ==
  /\ <<s[2], e>> \in users
  /\ Begin(c, Asked("require", "grant", s[1], s[2], e, r)) /\ UNCHANGED uses

RevokeRole(c, s, w, r) ==
  /\ r \in RolesOf(s[2], w)
  /\ Begin(c, Asked("require", "revoke", s[1], s[2], w, r)) /\ UNCHANGED uses

MintKey(c, s) ==
  Begin(c, Asked("require", "mint", s[1], s[2], Agent, "agent")) /\ UNCHANGED uses

RevokeKey(c, s) == Begin(c, Asked("require", "unkey", s[1], s[2], Nobody, Nobody)) /\ UNCHANGED uses

RedeemInvite(c) ==
  /\ uses > 0 /\ uses' = uses - 1
  /\ Begin(c, Asked(IF Home \in cached THEN "key" ELSE "look", "redeem", Nobody, Home, Agent,
                    "agent"))

Arrive(c) ==
  \/ \E e \in Emails : Login(c, e)
  \/ \E s \in sessions :
       \/ CreateOrg(c, s)
       \/ \E o \in Orgs : Switch(c, s, o)
       \/ \E e \in Emails, r \in Given : AddPerson(c, s, e, r) \/ GrantRole(c, s, e, r)
       \/ \E w \in Principals, r \in Roles : RevokeRole(c, s, w, r)
       \/ MintKey(c, s) \/ RevokeKey(c, s)
  \/ RedeemInvite(c)

----------------------------------------------------------------------------
(* Signing in: the earliest organisation of the email, or one of its own.  *)
(* org_switch takes the organisation asked for if it is among them.        *)
List(c) ==
  LET found == OrgsOf(call[c].as)
      login == call[c].op = "login"
  IN
  /\ call[c].pc = "list"
  /\ \/ /\ login
        /\ \E first \in found :
             /\ \A i \in found : first <= i
             /\ call' = [call EXCEPT ![c].pc = "cookie", ![c].org = orgs[first]]
     \/ login /\ found = {} /\ GoOn(c, "org")
     \/ ~login /\ (\E i \in found : orgs[i] = call[c].org) /\ GoOn(c, "cookie")
     \/ ~login /\ (\A i \in found : orgs[i] # call[c].org) /\ Return(c)
  /\ UNCHANGED <<rows, uses, cached, sessions, cuts, history>>

(* signup_org: the organisation, the user, the membership, the binding,    *)
(* the owner's key, each in a transaction of its own.                      *)
NewOrg(c) ==
  /\ call[c].pc = "org"
  /\ \E o \in Orgs \ Created :
       /\ orgs' = Append(orgs, o)
       /\ call' = [call EXCEPT ![c].pc = "user", ![c].org = o, ![c].who = call[c].as,
                               ![c].role = "org_owner"]
       /\ own' = IF call[c].op = "login" THEN [own EXCEPT ![call[c].as] = @ \cup {o}] ELSE own
  /\ UNCHANGED <<users, member, bindings, keys, uses, cached, sessions, cuts, crossed,
                 doubled>>

----------------------------------------------------------------------------
(* Mutant: the account of a new user is not linked.                        *)
BugNoAccount(c) ==
  /\ call[c].pc = "user"
  /\ GoOn(c, "membership")
  /\ UNCHANGED <<rows, uses, cached, sessions, cuts, history>>

NewUser(c) ==
  /\ call[c].pc = "user"
  /\ users' = users \cup {Target(c)}
  /\ GoOn(c, "membership")
  /\ UNCHANGED <<orgs, member, bindings, keys, uses, cached, sessions, cuts, history>>

(* Mutant: a signup leaves the role binding out.                           *)
BugUnbound(c) ==
  /\ call[c].pc = "membership"
  /\ member' = [member EXCEPT ![Target(c)] = call[c].role]
  /\ GoOn(c, "key")
  /\ UNCHANGED <<orgs, users, bindings, keys, uses, cached, sessions, cuts, history>>

NewMembership(c) ==
  /\ call[c].pc = "membership"
  /\ member' = [member EXCEPT ![Target(c)] = call[c].role]
  /\ GoOn(c, "look")
  /\ UNCHANGED <<orgs, users, bindings, keys, uses, cached, sessions, cuts, history>>

(* bind_role: INSERT ... WHERE NOT EXISTS, as what it sees and what it     *)
(* commits.                                                                *)
Look(c) ==
  /\ call[c].pc = "look"
  /\ call' = [call EXCEPT ![c].pc = "bind", ![c].seen = RowsOf(call[c].org, call[c].who)]
  /\ UNCHANGED <<rows, uses, cached, sessions, cuts, history>>

Row(c) == [org |-> call[c].org, who |-> call[c].who, role |-> call[c].role, by |-> c]

Bind(c) ==
  /\ call[c].pc = "bind"
  /\ bindings' = IF \E b \in call[c].seen : b.role = call[c].role
                 THEN bindings ELSE bindings \cup {Row(c)}
  /\ cached' = IF call[c].op = "redeem" THEN cached \cup {call[c].org} ELSE cached
  /\ IF call[c].op = "add" THEN Return(c)
     ELSE call' = [call EXCEPT ![c].pc = "key", ![c].seen = {}]
  /\ UNCHANGED <<orgs, users, member, keys, uses, sessions, cuts, history>>

(* The session cookie of a sign-in, a new organisation or a switch.        *)
Cookie(c) ==
  /\ call[c].pc = "cookie"
  /\ sessions' = sessions \cup {<<call[c].as, call[c].org>>}
  /\ Return(c)
  /\ UNCHANGED <<rows, uses, cached, cuts, history>>

----------------------------------------------------------------------------
(* The permission check that opens a handler of the console: the union of  *)
(* the roles the caller has in the organisation of the cookie.             *)
Needed(op) == IF op = "mint" THEN MayCreate ELSE MayAdmin

AfterCheck(op) ==
  CASE op = "add" -> "join" [] op = "grant" -> "snapshot" [] op = "revoke" -> "unbind"
    [] op = "mint" -> "look" [] op = "unkey" -> "unkey"

Require(c) ==
  /\ call[c].pc = "require"
  /\ IF RolesOf(call[c].org, call[c].as) \cap Needed(call[c].op) # {}
     THEN GoOn(c, AfterCheck(call[c].op)) ELSE Return(c)
  /\ UNCHANGED <<rows, uses, cached, sessions, cuts, history>>

(* add_member: the user and the membership in one transaction, after the   *)
(* account; then the binding.                                              *)
Join(c) ==
  /\ call[c].pc = "join"
  /\ users' = users \cup {Target(c)}
  /\ member' = [member EXCEPT ![Target(c)] = call[c].role]
  /\ GoOn(c, "look")
  /\ UNCHANGED <<orgs, bindings, keys, uses, cached, sessions, cuts, history>>

(* set_user_role: DELETE waits for rows another transaction is deleting,   *)
(* but does not see what that one has inserted; then the membership row.   *)
Snapshot(c) ==
  /\ call[c].pc = "snapshot"
  /\ call' = [call EXCEPT ![c].pc = "swap", ![c].seen = RowsOf(call[c].org, call[c].who)]
  /\ UNCHANGED <<rows, uses, cached, sessions, cuts, history>>

Swap(c) ==
  /\ call[c].pc = "swap"
  /\ bindings' = (bindings \ call[c].seen) \cup {Row(c)}
  /\ call' = [call EXCEPT ![c].pc = "mirror", ![c].seen = {}]
  /\ UNCHANGED <<orgs, users, member, keys, uses, cached, sessions, cuts, history>>

(* Mutant: the membership row keeps the role it had.                       *)
BugStaleMembership(c) ==
  /\ call[c].pc = "mirror"
  /\ Return(c)
  /\ UNCHANGED <<rows, uses, cached, sessions, cuts, history>>

Mirror(c) ==
  /\ call[c].pc = "mirror"
  /\ member' = [member EXCEPT ![Target(c)] = IF @ = Nobody THEN Nobody ELSE call[c].role]
  /\ Return(c)
  /\ UNCHANGED <<orgs, users, bindings, keys, uses, cached, sessions, cuts, history>>

Unbind(c) ==
  /\ call[c].pc = "unbind"
  /\ bindings' = {b \in bindings : ~(b.org = call[c].org /\ b.who = call[c].who
                                     /\ b.role = call[c].role)}
  /\ Return(c)
  /\ UNCHANGED <<orgs, users, member, keys, uses, cached, sessions, cuts, history>>

----------------------------------------------------------------------------
(* The key of an agent acts for Agent, the owner's first one for the owner.*)
NewKey(c) ==
  /\ call[c].pc = "key"
  /\ keys' = keys \cup {[org |-> call[c].org, who |-> call[c].who, by |-> c]}
  /\ IF call[c].op \in {"login", "create"} THEN GoOn(c, "cookie") ELSE Return(c)
  /\ UNCHANGED <<orgs, users, member, bindings, uses, cached, sessions, cuts, history>>

Unkey(c) ==
  /\ call[c].pc = "unkey"
  /\ keys' \in {keys} \cup {keys \ {k} : k \in {j \in keys : j.org = call[c].org}}
  /\ Return(c)
  /\ UNCHANGED <<orgs, users, member, bindings, uses, cached, sessions, cuts, history>>

(* A handler raises, or the server is started again, which ends them all   *)
(* and forgets _agent_cache.                                               *)
CutShort(cs) ==
  /\ cuts < CutBound /\ cuts' = cuts + 1
  /\ call' = [c \in Calls |-> IF c \in cs THEN Resting("done") ELSE call[c]]
  /\ crossed' = crossed \cup {Target(c) : c \in {d \in cs : call[d].who \in Emails}}
  /\ doubled' = doubled \cup {call[c].as : c \in {d \in cs : call[d].op = "login"}}
  /\ UNCHANGED <<rows, uses, sessions, own>>

Raise(c) == Busy(c) /\ CutShort({c}) /\ UNCHANGED cached

Restart == CutShort({c \in Calls : Busy(c)}) /\ cached' = {}

Step(c) ==
  \/ List(c) \/ NewOrg(c) \/ NewUser(c) \/ NewMembership(c) \/ Look(c) \/ Bind(c) \/ Cookie(c)
  \/ Require(c) \/ Join(c) \/ Snapshot(c) \/ Swap(c) \/ Mirror(c) \/ Unbind(c)
  \/ NewKey(c) \/ Unkey(c)

MembersNext ==
  \/ \E c \in Calls : Arrive(c) \/ Step(c) \/ Raise(c)
  \/ Restart

MembersSpec == MembersInit /\ [][MembersNext]_membersVars

----------------------------------------------------------------------------
(* Somebody nobody is changing the roles of.                               *)
AtRest(pair) == Changing(pair) = {}

(* The two places that hold a role agree: what the People page shows of a  *)
(* member is among what the permission check finds.                        *)
(* Unless two grants for the member overlapped, a handler that changed     *)
(* the member's roles was cut short, or a role was revoked.                *)
MembershipMatches ==
  \A pair \in users : AtRest(pair) /\ pair \notin crossed =>
    member[pair] # Nobody /\ member[pair] \in RolesOf(pair[1], pair[2])

(* Signing in again finds the organisation the first sign-in made: nobody  *)
(* gets a second one, unless two sign-ins overlapped or one was cut short. *)
OneOwnOrg ==
  \A e \in Emails \ doubled : Cardinality(own[e]) <= 1

(* Whoever is let in can act: a cookie is for an organisation the person   *)
(* is a member of with a role, and the principal of a key has a role,      *)
(* whichever path minted it and whatever was cut short before.             *)
(* Unless the handler that made them a member was cut short, or the role   *)
(* was revoked.                                                            *)
CanAct(pair) == AtRest(pair) /\ pair \notin crossed => RolesOf(pair[1], pair[2]) # {}

AdmittedCanAct ==
  /\ \A s \in sessions : LET pair == <<s[2], s[1]>> IN
       CanAct(pair) /\ (AtRest(pair) /\ pair \notin crossed => pair \in users)
  /\ \A k \in keys : CanAct(<<k.org, k.who>>)
=============================================================================
