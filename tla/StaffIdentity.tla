--------------------------- MODULE StaffIdentity ---------------------------
(***************************************************************************)
(* One staff account, its membership of a hotel and of a restaurant, the   *)
(* one-use links that invite it or reset its password, and its sessions.   *)
(*                                                                         *)
(* Every command locks the account first, so an action is a whole          *)
(* transaction; what can go wrong lies in the order of many of them.  Both *)
(* realms follow the same rules in two services, staff_lifecycle and       *)
(* membership for the hotel, restaurant_identity for the restaurant.       *)
(*                                                                         *)
(* Passwords are numbered: account.password counts how often the owner     *)
(* chose one, and links and sessions remember the number of their time     *)
(* (the code keeps no such number: it compares epochs and revisions).      *)
(***************************************************************************)
EXTENDS Naturals

CONSTANTS
    MaxLinks,     \* bound: links of one behaviour
    MaxResets,    \* bound: password_reset_request rows
    MaxSessions,  \* bound: logins of one behaviour
    MaxRevision,  \* bound: revisions of a membership
    MaxEpoch      \* bound: epochs of the account

ASSUME StaffAssumption ==
    {MaxLinks, MaxResets, MaxSessions, MaxRevision, MaxEpoch} \subseteq Nat

Realms == {"HOTEL", "RESTAURANT"}
Links == 1 .. MaxLinks
Resets == 1 .. MaxResets
Sessions == 1 .. MaxSessions

NoLink == [purpose |-> "NONE", revision |-> 0, epoch |-> 0, state |-> "NONE",
           elapsed |-> FALSE, password |-> 0, reset |-> 0]
NoSession == [realm |-> "NONE", revision |-> 0, epoch |-> 0, over |-> TRUE, password |-> 0]

VARIABLES
    person,   \* staff_account: verified_at, auth_epoch and the password's number
    member,   \* staff_membership and restaurant_membership
    author,   \* the inviter of the latest link is still an active administrator
    link,     \* staff_link by the order of creation
    reset,    \* password_reset_request by the order of creation
    session   \* staff_session

staffVars == <<person, member, author, link, reset, session>>

ActiveLinks(purpose) == {l \in Links : link[l].purpose = purpose /\ link[l].state = "ACTIVE"}

Persons == [verified : BOOLEAN, epoch : 0 .. MaxEpoch, password : 0 .. MaxEpoch]
Memberships == [status : {"NONE", "PENDING", "ACTIVE", "SUSPENDED", "TERMINATED"},
                revision : 0 .. MaxRevision]
LinkRows ==
    [purpose : Realms \cup {"RESET"}, revision : 0 .. MaxRevision, epoch : 0 .. MaxEpoch,
     state : {"ACTIVE", "ACCEPTED", "SUPERSEDED", "REVOKED"}, elapsed : BOOLEAN,
     password : 0 .. MaxEpoch, reset : 0 .. MaxResets]
SessionRows ==
    [realm : Realms, revision : 0 .. MaxRevision, epoch : 0 .. MaxEpoch,
     over : BOOLEAN, password : 0 .. MaxEpoch]

\* At most one link of a purpose is active (a unique index).
StaffTypeOK ==
    /\ person \in Persons
    /\ member \in [Realms -> Memberships]
    /\ author \in [Realms -> BOOLEAN]
    /\ link \in [Links -> LinkRows \cup {NoLink}]
    /\ reset \in [Resets -> {"NONE", "QUEUED", "PROCESSED"}]
    /\ session \in [Sessions -> SessionRows \cup {NoSession}]
    /\ \A p \in Realms \cup {"RESET"} : \A l, m \in ActiveLinks(p) : l = m

StaffInit ==
    /\ person = [verified |-> FALSE, epoch |-> 0, password |-> 0]
    /\ member = [k \in Realms |-> [status |-> "NONE", revision |-> 0]]
    /\ author = [k \in Realms |-> TRUE]
    /\ link = [l \in Links |-> NoLink]
    /\ reset = [q \in Resets |-> "NONE"]
    /\ session = [s \in Sessions |-> NoSession]

-----------------------------------------------------------------------------
(* Links.                                                                  *)

NextLink(l) == \A m \in Links : link[m] = NoLink <=> m >= l

\* The links of a purpose leave the state ACTIVE together.
Retired(purpose, state) ==
    [l \in Links |-> IF l \in ActiveLinks(purpose) THEN [link[l] EXCEPT !.state = state]
                                                   ELSE link[l]]

\* The older link of the purpose is superseded by the new one.
Issue(purpose, revision, q) ==
    \E l \in Links :
        /\ NextLink(l)
        /\ link' = [Retired(purpose, "SUPERSEDED") EXCEPT ![l] =
              [purpose |-> purpose, revision |-> revision, epoch |-> person.epoch,
               state |-> "ACTIVE", elapsed |-> FALSE, password |-> person.password, reset |-> q]]

\* An elapsed link stays ACTIVE until another command touches it, but is refused.
LinkElapses(l) ==
    /\ link[l].state = "ACTIVE" /\ ~link[l].elapsed
    /\ link' = [link EXCEPT ![l].elapsed = TRUE]
    /\ UNCHANGED <<person, member, author, reset, session>>

-----------------------------------------------------------------------------
(* Memberships: every change is a new revision (a trigger of the table).   *)

\* Any administrator commands the members of a hotel, its creator those of a restaurant.
HasCommander(k) == k = "RESTAURANT" => author[k]

CanRevise(k) == member[k].revision < MaxRevision

Revised(k, status) ==
    [member EXCEPT ![k] = [status |-> status, revision |-> @.revision + 1]]

\* Sessions of a membership end with each of its changes.
SessionsEnded(k) ==
    [s \in Sessions |-> IF session[s].realm = k THEN [session[s] EXCEPT !.over = TRUE]
                                                ELSE session[s]]

Invite(k) ==
    /\ HasCommander(k) /\ member[k].status = "NONE"
    /\ member' = [member EXCEPT ![k].status = "PENDING"]
    /\ Issue(k, 0, 0)
    /\ author' = [author EXCEPT ![k] = TRUE]
    /\ UNCHANGED <<person, reset, session>>

Resend(k) ==
    /\ HasCommander(k) /\ member[k].status = "PENDING" /\ CanRevise(k)
    /\ member' = Revised(k, "PENDING")
    /\ Issue(k, member[k].revision + 1, 0)
    /\ session' = SessionsEnded(k)
    /\ author' = [author EXCEPT ![k] = TRUE]
    /\ UNCHANGED <<person, reset>>

RevokeInvite(k) ==
    /\ HasCommander(k) /\ member[k].status = "PENDING" /\ CanRevise(k)
    /\ ActiveLinks(k) # {}
    /\ member' = Revised(k, "PENDING")
    /\ link' = Retired(k, "REVOKED")
    /\ session' = SessionsEnded(k)
    /\ UNCHANGED <<person, author, reset>>

\* A member that never accepted is invited again.
RecoverInvite(k) ==
    /\ HasCommander(k) /\ member[k].status \in {"SUSPENDED", "TERMINATED"} /\ CanRevise(k)
    /\ ~person.verified
    /\ member' = Revised(k, "PENDING")
    /\ Issue(k, member[k].revision + 1, 0)
    /\ session' = SessionsEnded(k)
    /\ author' = [author EXCEPT ![k] = TRUE]
    /\ UNCHANGED <<person, reset>>

\* The states a member may be changed to; new roles (of the hotel only) keep it.
MemberChanges(k) ==
    LET status == member[k].status IN
    (IF status \in {"ACTIVE", "PENDING"} THEN {"SUSPENDED"} ELSE {})
    \cup (IF status \in {"ACTIVE", "PENDING", "SUSPENDED"} THEN {"TERMINATED"} ELSE {})
    \cup (IF status \in {"SUSPENDED", "TERMINATED"} /\ person.verified THEN {"ACTIVE"} ELSE {})
    \cup (IF k = "HOTEL" THEN {status} ELSE {})

\* Mutant: a suspended member keeps the invitation.
KeptUnlessEnded(k, status) == IF status = "TERMINATED" THEN Retired(k, "REVOKED") ELSE link

LinksAfter(k, status) == Retired(k, "REVOKED")

ChangeMember(k) ==
    /\ HasCommander(k) /\ member[k].status # "NONE" /\ CanRevise(k)
    /\ \E status \in MemberChanges(k) :
          /\ member' = Revised(k, status)
          /\ link' = LinksAfter(k, status)
    /\ session' = SessionsEnded(k)
    /\ UNCHANGED <<person, author, reset>>

\* Somebody suspends the inviter, or takes the role away or gives it back.
AuthorChanges(k) ==
    /\ author' = [author EXCEPT ![k] = ~@]
    /\ UNCHANGED <<person, member, link, reset, session>>

-----------------------------------------------------------------------------
(* Passwords: a new one, or the verification, is a new epoch (a trigger).  *)

\* Mutant: only the verification is a new epoch.
EpochIfVerified(p) == IF person.verified THEN person.epoch ELSE person.epoch + 1

EpochAfter(p) == IF p # person.password THEN person.epoch + 1 ELSE person.epoch

ChooseNewPassword ==
    LET p == person.password + 1 IN
    /\ person.epoch < MaxEpoch
    /\ person' = [verified |-> TRUE, epoch |-> EpochAfter(p), password |-> p]

InviteHolds(l) ==
    LET k == link[l].purpose IN
    /\ k \in Realms /\ link[l].state = "ACTIVE" /\ ~link[l].elapsed /\ author[k]
    /\ member[k].status = "PENDING" /\ member[k].revision = link[l].revision

\* The first acceptance chooses the password; a verified account proves it and keeps it.
Accept(l) ==
    /\ InviteHolds(l) /\ CanRevise(link[l].purpose)
    /\ IF person.verified THEN UNCHANGED person ELSE ChooseNewPassword
    /\ member' = Revised(link[l].purpose, "ACTIVE")
    /\ link' = [link EXCEPT ![l].state = "ACCEPTED"]
    /\ UNCHANGED <<author, reset, session>>

\* By the owner, an administrator or the platform; unknown addresses are queued as well.
RequestReset ==
    /\ \E q \in Resets :
          /\ \A m \in Resets : reset[m] = "NONE" <=> m >= q
          /\ reset' = [reset EXCEPT ![q] = "QUEUED"]
    /\ UNCHANGED <<person, member, author, link, session>>

NewerRequest(q) == \E m \in Resets : m > q /\ reset[m] # "NONE"

\* Two workers may take two requests in either order; only the newest issues a link.
ProcessReset(q) ==
    /\ reset[q] = "QUEUED"
    /\ reset' = [reset EXCEPT ![q] = "PROCESSED"]
    /\ IF ~person.verified \/ NewerRequest(q) THEN UNCHANGED link ELSE Issue("RESET", 0, q)
    /\ UNCHANGED <<person, member, author, session>>

ResetHolds(l) ==
    /\ link[l].purpose = "RESET" /\ link[l].state = "ACTIVE" /\ ~link[l].elapsed
    /\ person.verified /\ link[l].epoch = person.epoch

CompleteReset(l) ==
    /\ ResetHolds(l)
    /\ ChooseNewPassword
    /\ link' = [link EXCEPT ![l].state = "ACCEPTED"]
    /\ UNCHANGED <<member, author, reset, session>>

-----------------------------------------------------------------------------
(* Sessions.                                                               *)

\* What _authenticate accepts.
Usable(s) ==
    LET x == session[s] IN
    /\ ~x.over /\ person.verified /\ x.epoch = person.epoch
    /\ member[x.realm].status = "ACTIVE" /\ x.revision = member[x.realm].revision

\* A login may store the same password under a better hash: a new epoch as well.
Login(k) ==
    \E s \in Sessions, rehashed \in {0, 1} :
        /\ \A t \in Sessions : session[t] = NoSession <=> t >= s
        /\ person.verified /\ member[k].status = "ACTIVE"
        /\ person.epoch + rehashed <= MaxEpoch
        /\ person' = [person EXCEPT !.epoch = @ + rehashed]
        /\ session' = [session EXCEPT ![s] =
              [realm |-> k, revision |-> member[k].revision, epoch |-> person.epoch + rehashed,
               over |-> FALSE, password |-> person.password]]
        /\ UNCHANGED <<member, author, link, reset>>

\* Logged out, idle for too long or past the absolute end.
SessionEnds(s) ==
    /\ ~session[s].over
    /\ session' = [session EXCEPT ![s].over = TRUE]
    /\ UNCHANGED <<person, member, author, link, reset>>

LogoutAll(s) ==
    /\ session[s] # NoSession /\ Usable(s) /\ person.epoch < MaxEpoch
    /\ person' = [person EXCEPT !.epoch = @ + 1]
    /\ UNCHANGED <<member, author, link, reset, session>>

ChangePassword(s) ==
    /\ session[s] # NoSession /\ Usable(s)
    /\ ChooseNewPassword
    /\ UNCHANGED <<member, author, link, reset, session>>

-----------------------------------------------------------------------------
MemberStep(k) ==
    Invite(k) \/ Resend(k) \/ RevokeInvite(k) \/ RecoverInvite(k) \/ ChangeMember(k)
    \/ AuthorChanges(k) \/ Login(k)

LinkStep(l) == LinkElapses(l) \/ Accept(l) \/ CompleteReset(l)

SessionStep(s) == SessionEnds(s) \/ LogoutAll(s) \/ ChangePassword(s)

StaffNext ==
    \/ \E k \in Realms : MemberStep(k)
    \/ \E l \in Links : LinkStep(l)
    \/ \E s \in Sessions : SessionStep(s)
    \/ RequestReset \/ \E q \in Resets : ProcessReset(q)

StaffSpec == StaffInit /\ [][StaffNext]_staffVars

-----------------------------------------------------------------------------
(* Properties.                                                             *)

\* An invitation in somebody's mailbox always belongs to the present state of its
\* membership, so that nothing but a pending member is ever activated, and the
\* living reset link answers the latest request that was processed, in whatever
\* order workers, administrators and the invited person act.
LinksFitTheirPurpose ==
    /\ \A k \in Realms : \A l \in ActiveLinks(k) :
          member[k] = [status |-> "PENDING", revision |-> link[l].revision]
    /\ \A l \in ActiveLinks("RESET"), q \in Resets :
          q > link[l].reset /\ reset[q] = "PROCESSED" =>
              \E m \in Resets : m > q /\ reset[m] = "QUEUED"

\* Once a password was chosen, no session opened with an older one and no reset
\* link issued under an older one is accepted again.
OldSecretsAreDead ==
    /\ \A s \in Sessions :
          session[s] # NoSession /\ Usable(s) => session[s].password = person.password
    /\ \A l \in Links : ResetHolds(l) => link[l].password = person.password

=============================================================================
