------------------------------- MODULE Accounts -------------------------------
(***************************************************************************)
(* Who may sign in: owners (a row of businesses each) and their teams       *)
(* (business_members), with email codes, invite links, Google, passwords    *)
(* and sessions (src/src/lib/team.js, profile.js and the sign-in routes of  *)
(* src/src/server.js).  A person signs in with an email that is looked up   *)
(* among owners first and among all teams after that.                       *)
(*                                                                          *)
(* Passwords are numbered per person: pw counts how often it was changed,   *)
(* and a session or a code remembers the password it was opened with.       *)
(***************************************************************************)
EXTENDS Naturals, FiniteSets

CONSTANTS
    Emails, Workspaces, Members, Invites,   \* Workspaces, Members and Invites are 1..n
    Devices,                                \* browsers a person uses
    MaxChanges, MaxLinks                    \* bounds: password changes, links of an invite

ASSUME AccountsAssumption ==
    /\ \A S \in {Workspaces, Members, Invites} : S = 1..Cardinality(S)
    /\ MaxChanges \in Nat /\ MaxLinks \in Nat
    /\ "-" \notin Emails

VARIABLES
    mailOn,    \* emailVerificationEnabled
    owner,     \* businesses: [email, pw]; email "-" while there is no row
    member,    \* business_members: [ws, email, pw, st]
    invite,    \* business_invites: [ws, kind, of, st, opens, last, by, uses]
    code,      \* business_email_verifications, one per email and purpose
    session    \* business_sessions: a set of [ws, of, dev, pw]; of 0 is the owner

acVars == <<mailOn, owner, member, invite, code, session>>

Nobody == "-"
Purposes == {"register", "login", "reset"}
NoOwner == [email |-> Nobody, pw |-> 0]
NoMember == [ws |-> 0, email |-> Nobody, pw |-> 0, st |-> "none"]
NoInvite == [ws |-> 0, kind |-> "none", of |-> 0, st |-> "none", opens |-> {}, last |-> 0, by |-> {}, uses |-> 0]
NoCode == [st |-> "none", ws |-> 0, of |-> 0, pw |-> 0]

AcInit ==
    /\ mailOn \in BOOLEAN
    /\ owner = [w \in Workspaces |-> NoOwner] /\ member = [m \in Members |-> NoMember]
    /\ invite = [i \in Invites |-> NoInvite]
    /\ code = [e \in Emails, p \in Purposes |-> NoCode]
    /\ session = {}

-----------------------------------------------------------------------------
(* Lookups *)

OwnersOf(e) == {w \in Workspaces : owner[w].email = e}
MembersOf(e) == {m \in Members : member[m].st = "active" /\ member[m].email = e}
EmailFree(e) == OwnersOf(e) = {} /\ MembersOf(e) = {}
Person(w, m) == IF m = 0 THEN owner[w] ELSE member[m]
ActiveMember(w, m) == member[m].st = "active" /\ member[m].ws = w
\* Bound: one person changes the password, at most MaxChanges times.
MayChange(w, m) ==
    /\ Person(w, m).pw < MaxChanges
    /\ \A v \in Workspaces : owner[v].pw > 0 => m = 0 /\ v = w
    /\ \A n \in Members : member[n].pw > 0 => n = m
FirstFree(rows, none) == {x \in DOMAIN rows : rows[x] = none /\ \A y \in DOMAIN rows : y < x => rows[y] # none}
FreeWorkspace == FirstFree(owner, NoOwner)
FreeMember == FirstFree(member, NoMember)
FreeInvite == FirstFree(invite, NoInvite)

SignedIn(w, m, d, pw) == [ws |-> w, of |-> m, dev |-> d, pw |-> pw]
\* issueBusinessSession; a browser keeps one token per person.
WithSession(all, w, m, d, pw) == {s \in all : ~(s.ws = w /\ s.of = m /\ s.dev = d)} \cup {SignedIn(w, m, d, pw)}
Without(w, m) == {s \in session : ~(s.ws = w /\ s.of = m)}
OwnerIsIn(w) == \E s \in session : s.ws = w /\ s.of = 0

-----------------------------------------------------------------------------
(* Sign-up and sign-in *)

Begin(e, purpose, w, m, pw) ==
    code' = [code EXCEPT ![<<e, purpose>>] = [st |-> "live", ws |-> w, of |-> m, pw |-> pw]]
Consume(e, purpose) == code' = [code EXCEPT ![<<e, purpose>>] = NoCode]

NewWorkspace(e, d) ==
    \E w \in FreeWorkspace :
        /\ owner' = [owner EXCEPT ![w] = [email |-> e, pw |-> 0]]
        /\ session' = WithSession(session, w, 0, d, 0)

Register(e, d) ==
    /\ EmailFree(e)
    /\ IF mailOn THEN Begin(e, "register", 0, 0, 0) /\ UNCHANGED <<owner, session>>
       ELSE NewWorkspace(e, d) /\ UNCHANGED code
    /\ UNCHANGED <<mailOn, member, invite>>

\* Mutant of MayTakeEmail: the team is not asked again when the code arrives.
MayTakeUnchecked(e) == OwnersOf(e) = {}
\* team.memberForLogin, and UNIQUE on the email of businesses.
MayTakeEmail(e) == MembersOf(e) = {} /\ OwnersOf(e) = {}

VerifyRegistration(e, d) ==
    /\ code[<<e, "register">>].st = "live"
    /\ Consume(e, "register")
    /\ IF MayTakeEmail(e) THEN NewWorkspace(e, d) ELSE UNCHANGED <<owner, session>>
    /\ UNCHANGED <<mailOn, member, invite>>

\* Password first; with email codes on, the session comes with the code.
Login(e, d) ==
    /\ \E w \in Workspaces, m \in {0} \cup Members :
          /\ \/ m = 0 /\ w \in OwnersOf(e)
             \/ OwnersOf(e) = {} /\ m \in MembersOf(e) /\ w = member[m].ws
          /\ IF mailOn THEN Begin(e, "login", w, m, Person(w, m).pw) /\ UNCHANGED session
             ELSE session' = WithSession(session, w, m, d, Person(w, m).pw) /\ UNCHANGED code
    /\ UNCHANGED <<mailOn, owner, member, invite>>

VerifyLogin(e, d) ==
    LET c == code[<<e, "login">>] IN
    /\ c.st = "live"
    /\ Consume(e, "login")
    /\ session' = IF c.of = 0 \/ ActiveMember(c.ws, c.of)
                  THEN WithSession(session, c.ws, c.of, d, c.pw) ELSE session
    /\ UNCHANGED <<mailOn, owner, member, invite>>

\* A code that expired can be sent again for as long as its row is there, so
\* here it is one that is typed later; a row goes when its email cannot be sent.
ResendFails(e, p) ==
    /\ code[<<e, p>>].st = "live"
    /\ Consume(e, p)
    /\ UNCHANGED <<mailOn, owner, member, invite, session>>

GoogleCallback(e, d) ==
    /\ CASE OwnersOf(e) # {} ->
              /\ \E w \in OwnersOf(e) : session' = WithSession(session, w, 0, d, owner[w].pw)
              /\ UNCHANGED owner
         [] OwnersOf(e) = {} /\ MembersOf(e) # {} ->
              /\ \E m \in MembersOf(e) :
                    session' = WithSession(session, member[m].ws, m, d, member[m].pw)
              /\ UNCHANGED owner
         [] OTHER -> NewWorkspace(e, d)
    /\ UNCHANGED <<mailOn, member, invite, code>>

ForgotPassword(e) ==
    /\ mailOn
    /\ \E w \in OwnersOf(e) : Begin(e, "reset", w, 0, 0)
    /\ UNCHANGED <<mailOn, owner, member, invite, session>>

ResetPassword(e) ==
    LET w == code[<<e, "reset">>].ws IN
    /\ code[<<e, "reset">>].st = "live" /\ MayChange(w, 0)
    /\ Consume(e, "reset")
    /\ owner' = [owner EXCEPT ![w].pw = @ + 1]
    /\ session' = Without(w, 0)
    /\ UNCHANGED <<mailOn, member, invite>>

-----------------------------------------------------------------------------
(* profile.js: about oneself; the device in use stays signed in. *)

ChangePassword(s) ==
    /\ MayChange(s.ws, s.of)
    /\ IF s.of = 0 THEN owner' = [owner EXCEPT ![s.ws].pw = @ + 1] /\ UNCHANGED member
       ELSE member' = [member EXCEPT ![s.of].pw = @ + 1] /\ UNCHANGED owner
    /\ session' = Without(s.ws, s.of) \cup {[s EXCEPT !.pw = Person(s.ws, s.of).pw + 1]}
    /\ UNCHANGED <<mailOn, invite, code>>

EndOthers(s) ==
    /\ session' = Without(s.ws, s.of) \cup {s}
    /\ UNCHANGED <<mailOn, owner, member, invite, code>>
Logout(s) ==
    /\ session' = session \ {s}
    /\ UNCHANGED <<mailOn, owner, member, invite, code>>

-----------------------------------------------------------------------------
(* team.js: the owner's invites *)

OpenRow(w, kind, m) == [ws |-> w, kind |-> kind, of |-> m, st |-> "open",
                        opens |-> {1}, last |-> 1, by |-> {}, uses |-> 0]
Dropped(m) == [i \in Invites |-> IF invite[i].of = m /\ invite[i].st = "open"
                 THEN [invite[i] EXCEPT !.st = "revoked"] ELSE invite[i]]

CreateInvite(w) ==
    /\ OwnerIsIn(w)
    /\ \E i \in FreeInvite : invite' = [invite EXCEPT ![i] = OpenRow(w, "join", 0)]
    /\ UNCHANGED <<mailOn, owner, member, code, session>>
ResetInvite(w, m) ==
    /\ OwnerIsIn(w) /\ ActiveMember(w, m)
    /\ \E i \in FreeInvite : invite' = [Dropped(m) EXCEPT ![i] = OpenRow(w, "reset", m)]
    /\ UNCHANGED <<mailOn, owner, member, code, session>>

\* Mutant of RotateInvite: the link that was handed out before still opens it.
RotateAddsLink(i) ==
    /\ OwnerIsIn(invite[i].ws) /\ invite[i].st \in {"open", "expired"} /\ invite[i].last < MaxLinks
    /\ invite' = [invite EXCEPT ![i].st = "open", ![i].last = @ + 1, ![i].opens = @ \cup {invite[i].last + 1}]
    /\ UNCHANGED <<mailOn, owner, member, code, session>>
RotateInvite(i) ==
    /\ OwnerIsIn(invite[i].ws) /\ invite[i].st \in {"open", "expired"} /\ invite[i].last < MaxLinks
    /\ invite' = [invite EXCEPT ![i].st = "open", ![i].last = @ + 1, ![i].opens = {invite[i].last + 1}]
    /\ UNCHANGED <<mailOn, owner, member, code, session>>
RevokeInvite(i) ==
    /\ OwnerIsIn(invite[i].ws) /\ invite[i].st \in {"open", "expired"}
    /\ invite' = [invite EXCEPT ![i].st = "revoked"]
    /\ UNCHANGED <<mailOn, owner, member, code, session>>
InviteExpires(i) ==
    /\ invite[i].st = "open"
    /\ invite' = [invite EXCEPT ![i].st = "expired"]
    /\ UNCHANGED <<mailOn, owner, member, code, session>>

\* openInvite: the newest link of an invite that is neither used nor cancelled
\* nor expired, and for a password link a person who is still on the team.
OpenInvite(i, link) ==
    /\ invite[i].st = "open" /\ link \in invite[i].opens
    /\ invite[i].kind = "reset" => ActiveMember(invite[i].ws, invite[i].of)
\* assertLoginFree; the email typed need not be the one invited.
LoginFree(e) == EmailFree(e)

Used(i, link) == [invite EXCEPT ![i].st = "used", ![i].by = @ \cup {link}, ![i].uses = @ + 1]
AcceptJoin(i, link, e, d) ==
    /\ OpenInvite(i, link) /\ invite[i].kind = "join" /\ LoginFree(e)
    /\ \E m \in FreeMember :
          /\ member' = [member EXCEPT ![m] = [ws |-> invite[i].ws, email |-> e, pw |-> 0, st |-> "active"]]
          /\ session' = WithSession(session, invite[i].ws, m, d, 0)
    /\ invite' = Used(i, link)
    /\ UNCHANGED <<mailOn, owner, code>>
AcceptReset(i, link, d) ==
    LET m == invite[i].of IN
    /\ OpenInvite(i, link) /\ invite[i].kind = "reset" /\ MayChange(invite[i].ws, m)
    /\ member' = [member EXCEPT ![m].pw = @ + 1]
    /\ session' = Without(invite[i].ws, m) \cup {SignedIn(invite[i].ws, m, d, member[m].pw + 1)}
    /\ invite' = Used(i, link)
    /\ UNCHANGED <<mailOn, owner, code>>

\* A new role takes effect at the next sign-in; the role itself is not kept here.
ChangeRole(w, m) ==
    /\ OwnerIsIn(w) /\ ActiveMember(w, m)
    /\ session' = Without(w, m)
    /\ UNCHANGED <<mailOn, owner, member, invite, code>>
RemoveMember(w, m) ==
    /\ OwnerIsIn(w) /\ ActiveMember(w, m)
    /\ member' = [member EXCEPT ![m].st = "removed"]
    /\ session' = Without(w, m)
    /\ invite' = Dropped(m)
    /\ UNCHANGED <<mailOn, owner, code>>

AcNext ==
    \/ \E e \in Emails, d \in Devices :
          Register(e, d) \/ VerifyRegistration(e, d) \/ Login(e, d) \/ VerifyLogin(e, d) \/ GoogleCallback(e, d)
    \/ \E e \in Emails : ForgotPassword(e) \/ ResetPassword(e)
    \/ \E e \in Emails, p \in Purposes : ResendFails(e, p)
    \/ \E s \in session : ChangePassword(s) \/ EndOthers(s) \/ Logout(s)
    \/ \E w \in Workspaces : CreateInvite(w)
    \/ \E w \in Workspaces, m \in Members : ResetInvite(w, m) \/ ChangeRole(w, m) \/ RemoveMember(w, m)
    \/ \E i \in Invites : RotateInvite(i) \/ RevokeInvite(i) \/ InviteExpires(i)
    \/ \E i \in Invites, link \in 1..MaxLinks, d \in Devices :
          AcceptReset(i, link, d) \/ \E e \in Emails : AcceptJoin(i, link, e, d)

AcSpec == AcInit /\ [][AcNext]_acVars

-----------------------------------------------------------------------------

\* An email signs in exactly one person: two sign-ups, a code that was sent
\* before an invite was accepted, Google and a removed member who signs up on
\* their own meet in any order.
OneLoginPerEmail ==
    \A e \in Emails : Cardinality(OwnersOf(e)) + Cardinality(MembersOf(e)) <= 1

\* An invite is used once, and with the link that was handed out last: "a lost
\* link is replaced: the old one stops working".
InviteAdmitsOne == \A i \in Invites : invite[i].uses <= 1 /\ invite[i].by \subseteq {invite[i].last}

=============================================================================
