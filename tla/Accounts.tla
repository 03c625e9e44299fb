------------------------------ MODULE Accounts ------------------------------
(***************************************************************************)
(* Signing up and in: the pages of one client (view models and             *)
(* AuthService) and the server's AuthRequestHandler, with a link between   *)
(* them that can be lost, calls that time out and are served all the same, *)
(* and a server that can die between the two INSERTs of a publisher. While *)
(* a call waits the user goes on typing, follows a link to another page    *)
(* and submits there: calls of different pages are nested in each other.   *)
(***************************************************************************)
EXTENDS Integers, Sequences, FiniteSets

CONSTANTS
  User,         \* usernames; also stands for the account's id
  Publishers,   \* those who sign up as publishers
  Password,
  Nobody,       \* no user, no password
  MaxFaults,    \* bound: requests given up and connections lost
  MaxWire,      \* bound: requests under way
  MaxDepth,     \* bound: calls nested in each other
  MaxCalls      \* bound: calls made

ASSUME AccountsAssumption ==
  /\ Publishers \subseteq User /\ Nobody \notin User \cup Password
  /\ MaxFaults \in Nat /\ MaxWire \in Nat /\ MaxDepth \in Nat /\ MaxCalls \in Nat

VARIABLES
  account,      \* Users: the password by username; the security answer is the owner's
  profile,      \* Publishers: users with a row
  genres,       \* users whose favoriteGenreIds holds their selection
  session,      \* userId of the connection at the server
  todo,         \* the publisher whose second INSERT is due
  wire,         \* requests on their way to the server
  up,           \* the connection
  saved,        \* credentials in QSettings
  stack,        \* the calls that wait, each in the event loop of the one before
  current,      \* AuthService: _currentUsername
  recovery,     \* username handed to the reset page, and _stashedSecurityAnswer
  calls, faults,
  unsure,       \* history: the session may have changed without an answer, or by
                \* a sign-in or sign-out while another had its answer in hand
  outdated,     \* history: what is saved was typed after the login was sent, or
                \* the password has changed since and no reset page saw it
  spoiled,      \* history: so has the password of a login whose answer is in hand
  promised,     \* history: readers told that their genres are saved
  untold,       \* history: readers whose selection had no way to their row
  torn          \* history: publishers whose registration was cut short

database == <<account, profile, genres>>
server   == <<session, todo>>
signedIn == <<current, recovery>>
others   == <<outdated, spoiled, promised, untold, torn>>
history  == <<unsure, others>>
counted  == <<calls, faults>>
vars == <<database, server, wire, up, saved, stack, signedIn, counted, history>>

-----------------------------------------------------------------------------
NoAnswer == "none"
Nothing == [user |-> Nobody]

Registered == {u \in User : account[u] # Nobody}

\* A request: what it asks for whom, the password it carries, the answer or
\* the old password that goes with it, and the place of the call that waits for
\* its reply, 0 when that has given up.
Request(do, u, p, proof, at) == [do |-> do, user |-> u, pw |-> p, proof |-> proof, at |-> at]
Wait(do, u, p) == [do |-> do, user |-> u, pw |-> p, got |-> NoAnswer]

Innermost == stack[Len(stack)]
Under == [i \in 1 .. Len(stack) - 1 |-> stack[i]]
Waiting(ops) == \E i \in DOMAIN stack : stack[i].do \in ops

\* What the fields of a page may hold whenever they are read: nothing keeps the
\* user from typing while a call waits (the setters of the view models).
Typed == [user : User, pw : Password]

Init ==
  /\ account = [u \in User |-> Nobody] /\ profile = {} /\ genres = {}
  /\ session = Nobody /\ todo = Nobody /\ wire = <<>> /\ up = TRUE
  /\ saved = Nothing /\ stack = <<>>
  /\ current = Nobody /\ recovery = Nothing /\ calls = 0 /\ faults = 0
  /\ unsure = FALSE /\ outdated = FALSE /\ spoiled = FALSE
  /\ promised = {} /\ untold = {} /\ torn = {}

-----------------------------------------------------------------------------
(* The pages.                                                              *)

\* The box "remember me" may be set whenever nothing is saved; setRememberMe
\* without it makes what is saved go at once.
SetRememberMe ==
  /\ saved # Nothing /\ saved' = Nothing
  /\ UNCHANGED <<database, server, wire, up, stack, signedIn, counted, history>>

\* A call of AuthService: whatever waits already goes on waiting below it.
SendOn(s, do, u, p, proof) ==
  /\ up /\ Len(wire) < MaxWire /\ Len(s) < MaxDepth
  /\ wire' = Append(wire, Request(do, u, p, proof, Len(s) + 1))
  /\ stack' = Append(s, Wait(do, u, p))
  /\ UNCHANGED <<database, server, up, saved, signedIn, faults, history>>

Send(do, u, p, proof) ==
  calls < MaxCalls /\ calls' = calls + 1 /\ SendOn(stack, do, u, p, proof)

\* submit: a page does not submit again while it does; its fields are read
\* when its 300 ms are over.
Login == ~ Waiting({"login"}) /\ \E t \in Typed : Send("login", t.user, t.pw, Nobody)

\* The register page first probes the username: a Register with a bad e-mail
\* address (isUsernameAvailable), rejected before the username counts.
Register == ~ Waiting({"probe", "register"}) /\ Send("probe", Nobody, Nobody, Nobody)

\* It does so at every keystroke, too, whatever waits.
ValidateUsername == Send("look", Nobody, Nobody, Nobody)

\* ForgotPasswordViewModel, answer step: nothing is verified here. An answer
\* is named after the user whose answer it is.
StashSecurityAnswer(u, a) ==
  /\ recovery' = [user |-> u, answer |-> a]
  /\ UNCHANGED <<database, server, wire, up, saved, stack, current, counted, history>>

ResetPassword ==
  /\ recovery # Nothing /\ ~ Waiting({"reset"})
  /\ \E new \in Password : Send("reset", recovery.user, new, recovery.answer)

ChangePassword ==
  /\ current # Nobody
  /\ \E old, new \in Password : Send("change", current, new, old)

SaveGenreSelection ==
  /\ current # Nobody /\ ~ Waiting({"genres"})
  /\ Send("genres", current, Nobody, Nobody)

\* Offline only a flag is flipped; nothing is kept for later.
SaveGenresOffline ==
  /\ current # Nobody /\ ~ Waiting({"genres"}) /\ ~ up
  /\ promised' = promised \cup ({current} \ Publishers)
  /\ untold' = untold \cup ({current} \ Publishers)
  /\ UNCHANGED <<database, server, wire, up, saved, stack, signedIn, counted, unsure,
                 outdated, spoiled, torn>>

Logout == current # Nobody /\ Send("logout", current, Nobody, Nobody)

LogoutOffline ==
  /\ current # Nobody /\ ~ up
  /\ current' = Nobody
  /\ UNCHANGED <<database, server, wire, up, saved, stack, recovery, counted, history>>

-----------------------------------------------------------------------------
(* The server, one request at a time.                                      *)

SignsInOrOut == {"login", "register", "logout"}

Settled == {i \in DOMAIN stack : stack[i].do \in SignsInOrOut /\ stack[i].got = "ok"}

\* Another sign-in or sign-out than the one at the head is not over.
Overlapped ==
  \/ \E i \in 2 .. Len(wire) : wire[i].do \in SignsInOrOut
  \/ \E i \in DOMAIN stack \ {Head(wire).at} :
       stack[i].do \in SignsInOrOut /\ stack[i].got \in {NoAnswer, "ok", "late"}

\* The reply to a request whose call still waits; sessions and rows change
\* for the others too.
Answer(a) ==
  LET q == Head(wire)
  IN /\ wire' = Tail(wire)
     /\ stack' = IF q.at = 0 THEN stack ELSE [stack EXCEPT ![q.at].got = a]
     /\ unsure' = IF q.at # 0 /\ q.do \in SignsInOrOut /\ a = "ok"
                  THEN Settled # {} \/ (unsure /\ Overlapped) ELSE unsure

Handle(do) == todo = Nobody /\ wire # <<>> /\ Head(wire).do = do

\* Refused with a wrong password, and with the right one while an administrator
\* blocks the account (Connections has the status).
HandleLogin ==
  /\ Handle("login")
  /\ LET q == Head(wire)
     IN \/ /\ q.user \in Registered /\ account[q.user] = q.pw
           /\ session' = q.user /\ Answer("ok")
        \/ Answer("no") /\ UNCHANGED session
  /\ UNCHANGED <<database, todo, up, saved, signedIn, counted, others>>

\* The e-mail address is rejected before the username is looked up.
HandleProbe ==
  /\ (Handle("probe") \/ Handle("look")) /\ Answer("no")
  /\ UNCHANGED <<database, server, up, saved, signedIn, counted, others>>

RegisterAccount(u) == account' = [account EXCEPT ![u] = Head(wire).pw]

RegisterAgain ==
  /\ Handle("register")
  /\ LET u == Head(wire).user
     IN /\ RegisterAccount(u)
        /\ IF u \in Publishers
           THEN todo' = u /\ UNCHANGED <<session, wire, stack, unsure>>
           ELSE session' = u /\ Answer("ok") /\ UNCHANGED todo
  /\ UNCHANGED <<profile, genres, up, saved, signedIn, counted, others>>

RegisterUnauthenticated ==
  /\ Handle("register")
  /\ LET u == Head(wire).user
     IN IF u \in Registered
        THEN Answer("taken") /\ UNCHANGED <<account, server>>
        ELSE /\ RegisterAccount(u)
             /\ IF u \in Publishers
                THEN todo' = u /\ UNCHANGED <<session, wire, stack, unsure>>
                ELSE Answer("ok") /\ UNCHANGED server
  /\ UNCHANGED <<profile, genres, up, saved, signedIn, counted, others>>

\* The account is active at once and the connection becomes the user's; a
\* publisher's profile is a statement of its own.
HandleRegister ==
  /\ Handle("register")
  /\ LET u == Head(wire).user
     IN IF u \in Registered
        THEN Answer("taken") /\ UNCHANGED <<account, server>>
        ELSE /\ RegisterAccount(u)
             /\ IF u \in Publishers
                THEN todo' = u /\ UNCHANGED <<session, wire, stack, unsure>>
                ELSE session' = u /\ Answer("ok") /\ UNCHANGED todo
  /\ UNCHANGED <<profile, genres, up, saved, signedIn, counted, others>>

SkipProfile ==
  /\ todo # Nobody
  /\ session' = todo /\ todo' = Nobody
  /\ Answer("ok")
  /\ UNCHANGED <<database, up, saved, signedIn, counted, others>>

SaveProfile ==
  /\ todo # Nobody
  /\ profile' = profile \cup {todo}
  /\ session' = todo /\ todo' = Nobody
  /\ Answer("ok")
  /\ UNCHANGED <<account, genres, up, saved, signedIn, counted, others>>

\* The new password is written if the proof of the old one was good; the
\* client learns of it from the answer, if at all.
SetPassword(u, ok) ==
  LET q == Head(wire)
      silent == q.do = "change" \/ q.at = 0
      inHand == \E i \in Settled : stack[i].do = "login" /\ stack[i].user = u
  IN /\ account' = IF ok THEN [account EXCEPT ![u] = q.pw] ELSE account
     /\ outdated' = (outdated \/ (ok /\ silent /\ saved # Nothing /\ saved.user = u))
     /\ spoiled' = (spoiled \/ (ok /\ inHand))
     /\ Answer(IF ok THEN "ok" ELSE "no")
     /\ UNCHANGED <<profile, genres, server, up, saved, signedIn, counted, promised, untold,
                    torn>>

HandleResetPassword ==
  /\ Handle("reset")
  /\ LET q == Head(wire)
     IN SetPassword(q.user, q.user \in Registered /\ q.proof = q.user)

\* The user is the connection's, whoever the client takes it for.
HandleChangePassword ==
  /\ Handle("change")
  /\ SetPassword(session, session # Nobody /\ account[session] = Head(wire).proof)

\* For readers only; the whole row is written, and it is the row of whoever the
\* connection belongs to, whatever username the request carries.
HandleSaveFavoriteGenres ==
  /\ Handle("genres")
  /\ LET ok == session # Nobody /\ session \notin Publishers
     IN /\ genres' = IF ok THEN genres \cup {session} ELSE genres
        /\ Answer(IF ok THEN "ok" ELSE "no")
  /\ LET u == Head(wire).user
         strayed == session # u /\ (unsure \/ Settled # {} \/ u # current)
     IN untold' = IF strayed THEN untold \cup ({u} \ Publishers) ELSE untold
  /\ UNCHANGED <<account, profile, server, up, saved, signedIn, counted, outdated, spoiled,
                 promised, torn>>

HandleLogout ==
  /\ Handle("logout")
  /\ session' = Nobody /\ Answer("ok")
  /\ UNCHANGED <<database, todo, up, saved, signedIn, counted, others>>

-----------------------------------------------------------------------------
(* The innermost call returns.                                             *)

Returned(do) ==
  /\ stack # <<>> /\ Innermost.do = do /\ Innermost.got # NoAnswer
  /\ stack' = Under

Sent == [user |-> Innermost.user, pw |-> Innermost.pw]

SignedIn == current' = IF Innermost.got = "ok" THEN Innermost.user ELSE current

\* What is remembered are the fields as they are now; with the box unset
\* nothing is saved before or after.
LoginReturns ==
  /\ Returned("login") /\ SignedIn
  /\ \/ /\ Innermost.got = "ok"
        /\ \E t \in Typed : saved' = t /\ outdated' = (t # Sent \/ spoiled)
     \/ /\ Innermost.got # "ok" \/ saved = Nothing
        /\ UNCHANGED <<saved, outdated>>
  /\ spoiled' = FALSE
  /\ UNCHANGED <<database, server, wire, up, recovery, counted, unsure, promised, untold,
                 torn>>

\* Anything but "taken" counts as available, no reply too, and what the fields
\* hold by now is registered, if it is valid still.
ProbeReturns ==
  /\ stack # <<>> /\ Innermost.do = "probe" /\ Innermost.got # NoAnswer
  /\ \/ /\ Innermost.got # "taken"
        /\ \E t \in Typed : SendOn(Under, "register", t.user, t.pw, Nobody)
        /\ UNCHANGED calls
     \/ /\ stack' = Under
        /\ UNCHANGED <<database, server, wire, up, saved, signedIn, counted, history>>

RegisterReturns ==
  /\ Returned("register") /\ SignedIn
  /\ UNCHANGED <<database, server, wire, up, saved, recovery, counted, history>>

ResetKeepsSaved ==
  /\ Returned("reset")
  /\ recovery' = IF Innermost.got = "ok" THEN Nothing ELSE recovery
  /\ UNCHANGED <<database, server, wire, up, saved, current, counted, history>>

\* The page, if it is still there, has what is saved removed; the way back is
\* open while the call waits.
ClearSavedCredentials ==
  \/ saved' = Nothing /\ UNCHANGED outdated
  \/ /\ outdated' = (outdated \/ (saved # Nothing /\ saved.user = Innermost.user))
     /\ UNCHANGED saved

ResetReturns ==
  /\ Returned("reset")
  /\ IF Innermost.got = "ok" THEN recovery' = Nothing /\ ClearSavedCredentials
     ELSE UNCHANGED <<recovery, saved, outdated>>
  /\ UNCHANGED <<database, server, wire, up, current, counted, unsure, spoiled, promised,
                 untold, torn>>

\* The client keeps nothing of these answers.
ChangeReturns ==
  /\ Returned("change") \/ Returned("look")
  /\ UNCHANGED <<database, server, wire, up, saved, signedIn, counted, history>>

\* The page is done whatever the reply was, and without one.
GenresReturn ==
  /\ Returned("genres")
  /\ LET told == {Innermost.user} \ Publishers
     IN /\ promised' = promised \cup told
        /\ untold' = IF Innermost.got = "late" THEN untold \cup told ELSE untold
  /\ UNCHANGED <<database, server, wire, up, saved, signedIn, counted, unsure, outdated,
                 spoiled, torn>>

\* The local session is cleared whatever the reply was, and without one.
LogoutReturns ==
  /\ Returned("logout")
  /\ current' = Nobody
  /\ UNCHANGED <<database, server, wire, up, saved, recovery, counted, history>>

\* No reply within five seconds; the server may serve the request yet.
TimesOut(i) ==
  /\ stack[i].got = NoAnswer /\ faults < MaxFaults /\ faults' = faults + 1
  /\ stack' = [stack EXCEPT ![i].got = "late"]
  /\ wire' = [w \in DOMAIN wire |->
                IF wire[w].at = i THEN [wire[w] EXCEPT !.at = 0] ELSE wire[w]]
  /\ unsure' = (unsure \/ stack[i].do \in SignsInOrOut)
  /\ UNCHANGED <<database, server, up, saved, signedIn, calls, others>>

-----------------------------------------------------------------------------
(* The connection is lost, with the server or without it; the next one     *)
(* belongs to nobody, and the client does not sign in again. Nothing comes *)
(* for the calls that wait.                                                *)
Lose ==
  /\ up /\ faults < MaxFaults /\ faults' = faults + 1
  /\ up' = FALSE /\ wire' = <<>>
  /\ stack' = [i \in DOMAIN stack |-> IF stack[i].got = NoAnswer
                                     THEN [stack[i] EXCEPT !.got = "late"] ELSE stack[i]]
  /\ session' = Nobody /\ todo' = Nobody
  /\ torn' = torn \cup ({todo} \ {Nobody})
  /\ unsure' = TRUE
  /\ UNCHANGED <<database, saved, signedIn, calls, outdated, spoiled, promised, untold>>

Reconnect ==
  /\ ~ up /\ up' = TRUE
  /\ UNCHANGED <<database, server, wire, saved, stack, signedIn, counted, history>>

Pages ==
  \/ SetRememberMe \/ Login \/ Register \/ ValidateUsername
  \/ \E u, a \in User : StashSecurityAnswer(u, a)
  \/ ResetPassword \/ ChangePassword \/ SaveGenreSelection \/ SaveGenresOffline
  \/ Logout \/ LogoutOffline
Server ==
  \/ HandleLogin \/ HandleProbe \/ HandleRegister \/ SaveProfile
  \/ HandleResetPassword \/ HandleChangePassword \/ HandleSaveFavoriteGenres
  \/ HandleLogout
Returns ==
  \/ LoginReturns \/ ProbeReturns \/ RegisterReturns \/ ResetReturns
  \/ ChangeReturns \/ GenresReturn \/ LogoutReturns
  \/ \E i \in DOMAIN stack : TimesOut(i)

Next == Pages \/ Server \/ Returns \/ Lose \/ Reconnect

Spec == Init /\ [][Next]_vars

-----------------------------------------------------------------------------
TypeOK ==
  /\ account \in [User -> Password \cup {Nobody}]
  /\ profile \subseteq Registered /\ genres \subseteq Registered
  /\ session \in Registered \cup {Nobody} /\ todo \in Registered \cup {Nobody}
  /\ saved \in {Nothing} \cup Typed
  /\ Len(wire) <= MaxWire /\ Len(stack) <= MaxDepth /\ up \in BOOLEAN
  /\ current \in Registered \cup {Nobody}
  /\ recovery \in {Nothing} \cup [user : User, answer : User]
  /\ calls \in 0 .. MaxCalls /\ faults \in 0 .. MaxFaults

\* At rest the client and the server take the connection for the same user's,
\* through logins after registrations and answers that came too late, unless
\* a sign-in or sign-out went unanswered, or two of different pages overlapped,
\* or the connection was replaced, and none has put it right alone since.
SessionAgrees ==
  up /\ stack = <<>> /\ wire = <<>> => session = current \/ unsure

\* What "remember me" keeps opens the account, through resets too, whose page
\* removes it: unless the password was changed elsewhere, or by a reset nobody
\* waited for on its page, or the user typed while the login was under way.
SavedOpensAccount ==
  saved # Nothing =>
    \/ outdated
    \/ \E i \in DOMAIN stack :
         stack[i].do = "reset" /\ stack[i].got = "ok" /\ stack[i].user = saved.user
    \/ saved.user \in Registered /\ account[saved.user] = saved.pw

\* A publisher has a profile, unless the server died between the two INSERTs;
\* nothing adds it later, and an update of the profile then finds no row.
PublisherHasProfile ==
  Registered \cap Publishers \subseteq profile \cup torn \cup {todo}

\* A registration is not taken over by another one of the same name, not even
\* by the user's own retry with another password after a timeout.
RegistrationKept ==
  [][\A u \in Registered :
       account'[u] # account[u] =>
         Head(wire).do = "reset" \/ (Head(wire).do = "change" /\ session = u)]_vars

\* A reader told that the genres are saved has them saved, unless there was no
\* connection or no answer, or the connection was no longer the reader's because
\* of a sign-in or sign-out of another page, or one that went unanswered: then
\* the genres go to another row.
GenresReachServer == promised \subseteq genres \cup untold

\* What belongs to an account comes with it: a publisher's profile, and the
\* genres a reader was told are kept, through crashes and lost answers.
AccountsComplete == TypeOK /\ PublisherHasProfile /\ GenresReachServer
=============================================================================
