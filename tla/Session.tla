-------------------------------- MODULE Session --------------------------------
(***************************************************************************)
(* Who is logged in: the auth store of every tab of one browser, the copy  *)
(* of it in localStorage that the tabs share without listening to it, and  *)
(* the answers that set it.  An answer is taken by the store whatever the  *)
(* tab has become since it asked: the page may be another one, and so may  *)
(* the account.                                                            *)
(***************************************************************************)
EXTENDS Naturals, SequencesExt

CONSTANTS
  Tabs,
  Accounts,
  MaxLogins,  \* bound: tokens issued
  MaxCalls,   \* bound: calls in flight
  MaxTurns    \* bound: what the user and the world do

ASSUME SessionAssumption ==
  0 \notin Accounts /\ {MaxLogins, MaxCalls, MaxTurns} \subseteq Nat

VARIABLES
  tabs,     \* the store and the page of every tab
  storage,  \* localStorage["kartiki-auth"]
  calls,    \* requests and answers under way, in no order
  issued,   \* whose every token is
  dead,     \* the tokens that have expired
  mode,     \* users.is_driver
  turns,
  left,     \* history: tokens a tab has logged out of
  behind    \* history: tabs whose mode was changed behind their back

vars == <<tabs, storage, calls, issued, dead, mode, turns, left, behind>>

None == 0
Tokens == 0..MaxLogins
Users == [of : Accounts, driver : BOOLEAN]
Nobody == [of |-> None, driver |-> FALSE]
Guest == {"login", "register"}
Pages == Guest \cup {"map", "profile"}
\* mixed (history): the user came with an answer to a call of another token.
Store == [token : Tokens, user : Users \cup {Nobody}, mixed : BOOLEAN]
Empty == [token |-> None, user |-> Nobody, mixed |-> FALSE]
Tab == [token : Tokens, user : Users \cup {Nobody}, mixed : BOOLEAN, page : Pages \cup {"closed"}]
Closed == [token |-> None, user |-> Nobody, mixed |-> FALSE, page |-> "closed"]
OnPage(s, page) == [token |-> s.token, user |-> s.user, mixed |-> s.mixed, page |-> page]
StoreOf(t) == [token |-> tabs[t].token, user |-> tabs[t].user, mixed |-> tabs[t].mixed]

Authed(t) == tabs[t].token # None /\ tabs[t].user # Nobody

\* login: password, signup or Facebook; read: GET me; save: names or avatar; set: the mode.
Call == [ tab : Tabs, kind : {"login", "read", "save", "set"}, token : Tokens, to : BOOLEAN,
          answer : {"none", "ok", "refused", "401"}, user : Users \cup {Nobody}, new : Tokens ]

Turn == turns < MaxTurns /\ turns' = turns + 1
Ask(t, kind, to) ==
  /\ Turn /\ Len(calls) < MaxCalls
  /\ calls' = Append(calls, [ tab |-> t, kind |-> kind, token |-> tabs[t].token, to |-> to,
                              answer |-> "none", user |-> Nobody, new |-> None ])

-----------------------------------------------------------------------------
(* What the user does.                                                     *)
\* The plugin hydrates the store; the middleware of the page decides.
Hydrated == IF storage.token = None \/ storage.token \in dead THEN Empty ELSE storage
\* The calls of the page that was there before are never answered.
OfOthers(t) == { i \in DOMAIN calls : calls[i].tab # t }
Outliving(t) == LET those == SetToSeq(OfOthers(t)) IN [k \in DOMAIN those |-> calls[those[k]]]
OpenTab(t) ==
  /\ Turn
  /\ storage' = Hydrated
  /\ tabs' = [tabs EXCEPT ![t] = OnPage(Hydrated, IF Hydrated.token = None THEN "login" ELSE "map")]
  /\ calls' = Outliving(t)
  /\ behind' = IF Hydrated.user # Nobody /\ Hydrated.user.driver # mode[Hydrated.user.of]
               THEN behind \cup {t} ELSE behind \ {t}
  /\ UNCHANGED <<issued, dead, mode, left>>

Go(t, page) ==
  /\ Turn
  /\ tabs[t].page \notin {"closed", page}
  /\ (page \in Guest) = ~Authed(t)
  /\ tabs' = [tabs EXCEPT ![t].page = page]
  /\ UNCHANGED <<storage, calls, issued, dead, mode, left, behind>>

\* submit, or the Facebook button: each page disables what it is waiting for.
LogIn(t) ==
  /\ tabs[t].page \in Guest
  /\ Ask(t, "login", FALSE)
  /\ UNCHANGED <<tabs, storage, issued, dead, mode, left, behind>>

\* The profile page: a save, a wizard that is finished, the mode.
Waits(t, kind) == \E i \in DOMAIN calls : calls[i].tab = t /\ calls[i].kind = kind
Profile(t, kind) ==
  /\ tabs[t].page = "profile"
  /\ ~Waits(t, kind)
  /\ Ask(t, kind, IF kind = "set" THEN ~tabs[t].user.driver ELSE FALSE)
  /\ UNCHANGED <<tabs, storage, issued, dead, mode, left, behind>>

\* logout of the store, and the navigation that follows it everywhere.
Leave(t) ==
  /\ storage' = Empty
  /\ tabs' = [tabs EXCEPT ![t] = OnPage(Empty, "login")]
  /\ left' = left \cup {tabs[t].token}
LogOut(t) ==
  /\ Turn
  /\ tabs[t].page = "profile"
  /\ Leave(t)
  /\ UNCHANGED <<calls, issued, dead, mode, behind>>

-----------------------------------------------------------------------------
(* The server.                                                             *)

Answer(i, answer, user, new) ==
  calls' = [calls EXCEPT ![i].answer = answer, ![i].user = user, ![i].new = new]
UserOf(a) == [of |-> a, driver |-> mode[a]]

ServeLogin(i, a) ==
  /\ calls[i].kind = "login" /\ calls[i].answer = "none"
  /\ Len(issued) < MaxLogins
  /\ issued' = Append(issued, a)
  /\ Answer(i, "ok", UserOf(a), Len(issued'))
  /\ UNCHANGED <<tabs, storage, dead, mode, turns, left, behind>>

\* A wrong password is a 401 as an expired token is.
Refuse(i) ==
  /\ calls[i].answer = "none"
  /\ \/ Answer(i, "refused", Nobody, None)
     \/ calls[i].kind = "login" /\ Answer(i, "401", Nobody, None)
  /\ UNCHANGED <<tabs, storage, issued, dead, mode, turns, left, behind>>

\* JwtAuthGuard, then the handler; its answer may be lost.
Unheard(i, t) == \E j \in DOMAIN calls : j # i /\ calls[j].tab = t /\ calls[j].answer = "ok"
ServeMe(i) ==
  LET c == calls[i]
      a == issued[c.token]
      now == IF c.kind = "set" THEN c.to ELSE mode[a]
  IN  /\ c.kind # "login" /\ c.answer = "none"
      /\ IF c.token \in dead
         THEN /\ Answer(i, "401", Nobody, None) /\ UNCHANGED <<mode, behind>>
         ELSE /\ mode' = [mode EXCEPT ![a] = now]
              /\ \/ /\ Answer(i, "ok", [of |-> a, driver |-> now], None)
                    /\ behind' = IF now = mode[a] THEN behind
                                 ELSE behind \cup { t \in Tabs : t # c.tab \/ Unheard(i, t) }
                 \/ /\ Answer(i, "refused", Nobody, None)
                    /\ behind' = IF now = mode[a] THEN behind ELSE Tabs
      /\ UNCHANGED <<tabs, storage, issued, dead, turns, left>>

\* An admin, or another device.
ChangeMode(a) ==
  /\ Turn
  /\ mode' = [mode EXCEPT ![a] = ~mode[a]]
  /\ behind' = Tabs
  /\ UNCHANGED <<tabs, storage, calls, issued, dead, left>>

Expire(n) ==
  /\ Turn
  /\ n \in DOMAIN issued \ dead
  /\ dead' = dead \cup {n}
  /\ UNCHANGED <<tabs, storage, calls, issued, mode, left, behind>>

-----------------------------------------------------------------------------
(* The answers.                                                            *)
Taken(i) == calls' = RemoveAt(calls, i)

Current(i) == LET c == calls[i] IN
  IF c.user.driver = mode[c.user.of] /\ ~Unheard(i, c.tab) THEN behind \ {c.tab}
  ELSE IF c.user.driver # mode[c.user.of] \/ c.kind = "login" THEN behind \cup {c.tab} ELSE behind

\* setAuth, then the page of whoever logged in.
TakeLogin(i) ==
  LET c == calls[i]
      s == [token |-> c.new, user |-> c.user, mixed |-> FALSE]
  IN  /\ c.kind = "login" /\ c.answer = "ok"
      /\ Taken(i)
      /\ tabs' = [tabs EXCEPT ![c.tab] = OnPage(s, "map")]
      /\ storage' = s
      /\ behind' = Current(i)
      /\ UNCHANGED <<issued, dead, mode, turns, left>>

\* Mutants: the new user goes next to the token that is stored; next to the one of the call.
BesideStored(c) == [token |-> storage.token, user |-> c.user, mixed |-> tabs[c.tab].token # c.token]
BesideAsked(c) == [token |-> c.token, user |-> c.user, mixed |-> tabs[c.tab].token # c.token]
\* Mutant: the mode is left to the next reload.
TakeNames(i) ==
  LET c == calls[i] IN
  /\ c.kind # "login" /\ c.answer = "ok"
  /\ Taken(i)
  /\ UNCHANGED <<tabs, storage, issued, dead, mode, turns, left, behind>>
\* setUser: the new user next to the token the tab has by now.
Beside(c) == [token |-> tabs[c.tab].token, user |-> c.user, mixed |-> tabs[c.tab].token # c.token]
TakeUser(i) ==
  LET c == calls[i] IN
  /\ c.kind # "login" /\ c.answer = "ok"
  /\ Taken(i)
  /\ tabs' = [tabs EXCEPT ![c.tab].user = c.user, ![c.tab].mixed = Beside(c).mixed]
  /\ storage' = IF tabs[c.tab].token = None THEN storage ELSE Beside(c)
  /\ behind' = Current(i)
  /\ UNCHANGED <<issued, dead, mode, turns, left>>

\* onResponseError: a 401 logs out whoever is logged in by now.
Take401(i) ==
  /\ calls[i].answer = "401"
  /\ Taken(i)
  /\ Leave(calls[i].tab)
  /\ UNCHANGED <<issued, dead, mode, turns, behind>>

TakeRefusal(i) ==
  /\ calls[i].answer = "refused"
  /\ Taken(i)
  /\ UNCHANGED <<tabs, storage, issued, dead, mode, turns, left, behind>>

-----------------------------------------------------------------------------
Init ==
  /\ tabs = [t \in Tabs |-> Closed]
  /\ storage = Empty
  /\ calls = << >> /\ issued = << >> /\ dead = {}
  /\ mode = [a \in Accounts |-> FALSE]
  /\ turns = 0 /\ left = {} /\ behind = {}

Next ==
  \/ \E t \in Tabs :
       \/ OpenTab(t) \/ LogIn(t) \/ LogOut(t)
       \/ \E page \in Pages : Go(t, page)
       \/ \E kind \in {"read", "save", "set"} : Profile(t, kind)
  \/ \E i \in DOMAIN calls :
       \/ \E a \in Accounts : ServeLogin(i, a)
       \/ ServeMe(i) \/ Refuse(i)
       \/ TakeLogin(i) \/ TakeUser(i) \/ Take401(i) \/ TakeRefusal(i)
  \/ \E a \in Accounts : ChangeMode(a)
  \/ \E n \in 1..MaxLogins : Expire(n)

Spec == Init /\ [][Next]_vars

-----------------------------------------------------------------------------
(* Properties.                                                             *)
TypeOK ==
  /\ tabs \in [Tabs -> Tab] /\ storage \in Store
  /\ calls \in Seq(Call) /\ Len(calls) <= MaxCalls
  /\ issued \in Seq(Accounts) /\ Len(issued) <= MaxLogins
  /\ dead \subseteq DOMAIN issued /\ left \subseteq Tokens
  /\ mode \in [Accounts -> BOOLEAN] /\ behind \subseteq Tabs /\ turns \in 0..MaxTurns

\* The account on the screen, and the one localStorage keeps, is the account its token
\* speaks for: only an answer that was asked for before a logout or a login, in the same
\* tab, can put another one there.  A page for users is only shown to somebody who has
\* a token, whatever late answer logged him in or out meanwhile.
ScreenIsTheAccount ==
  /\ \A s \in {storage} \cup { StoreOf(t) : t \in Tabs } :
       s.user # Nobody /\ ~s.mixed => s.token # None /\ issued[s.token] = s.user.of
  /\ \A t \in Tabs : tabs[t].page \notin Guest \cup {"closed"} => tabs[t].token # None

\* The driver mode a tab shows is the server's, unless it changed elsewhere, an answer
\* was lost, or an older answer was still under way when it changed.
ModeIsCurrent ==
  \A t \in Tabs : Authed(t) /\ t \notin behind /\ ~tabs[t].mixed /\ ~Unheard(0, t)
    => tabs[t].user.driver = mode[tabs[t].user.of]

\* A token somebody logged out of is not stored again, except by another tab that had
\* not been told.
LogoutIsNotUndone ==
  [][storage'.token \in left \ {None, storage.token} => \E t \in Tabs : tabs[t].token = storage'.token]_vars
=============================================================================
