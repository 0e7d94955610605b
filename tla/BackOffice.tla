------------------------------ MODULE BackOffice ------------------------------
(***************************************************************************)
(* Accounts and those who administer them: the row of a user as its owner, *)
(* Facebook login, the onboarding, the bootstrap and the admins write it;  *)
(* the guard of the admin endpoints with its cache of roles; the runtime   *)
(* settings with theirs.                                                   *)
(*                                                                         *)
(* Every handler finds the row, changes its copy and saves it.  save() of  *)
(* TypeORM reads the row again and writes every column in which the copy   *)
(* differs: also those somebody else changed in between.                   *)
(***************************************************************************)
EXTENDS Naturals, FiniteSets, SequencesExt

CONSTANTS
  Accounts,
  Bootstrap,    \* the account of BOOTSTRAP_ADMIN_EMAIL
  TTL,          \* how long the guard trusts its cache
  Default,      \* a setting as the environment has it
  Values,       \* what an admin may set it to
  MaxTime,      \* bound: the clock
  MaxHandlers,  \* bound: handlers at a time
  MaxCalls      \* bound: calls in all

ASSUME BackOfficeAssumption ==
  /\ Bootstrap \in Accounts /\ IsFiniteSet(Accounts)
  /\ {TTL, MaxTime, MaxHandlers, MaxCalls} \subseteq Nat \ {0} /\ TTL <= MaxTime

VARIABLES
  row,       \* users
  known,     \* the accounts that exist
  garage,    \* the accounts with a vehicle
  setting,   \* app_settings: is there a row of one key, what it says, and the cache
  trust,     \* the cache of the guard
  handlers,  \* the calls being served
  clock,
  made,      \* how many calls were made
  admin_at,  \* history: when an account was last an active admin
  raced      \* history: did handlers meet on an account, or on the setting

vars == <<row, known, garage, setting, trust, handlers, clock, made, admin_at, raced>>

-----------------------------------------------------------------------------
Fields == {"admin", "driver", "suspended", "deleted", "linked"}
Row == [Fields -> BOOLEAN]
Blank == [f \in Fields |-> FALSE]
Active(r) == r.admin /\ ~r.suspended /\ ~r.deleted

\* What the kinds of calls set in the copy they found.
Sets ==
  [ promote |-> [admin |-> TRUE],       demote |-> [admin |-> FALSE],
    suspend |-> [suspended |-> TRUE],   unsuspend |-> [suspended |-> FALSE],
    delete |-> [deleted |-> TRUE],      enable |-> [driver |-> TRUE],
    disable |-> [driver |-> FALSE],     mode_on |-> [driver |-> TRUE],
    mode_off |-> [driver |-> FALSE],    vehicle |-> [driver |-> TRUE],
    facebook |-> [linked |-> TRUE],     profile |-> << >>,
    bootstrap |-> [admin |-> TRUE, suspended |-> FALSE, deleted |-> FALSE],
    signup |-> << >>,                   setting |-> << >> ]
\* Mutant: an account whose profile is saved is no longer suspended.
ChangedAndLifted(kind, r) ==
  [f \in Fields |-> IF kind = "profile" /\ f = "suspended" THEN FALSE
                    ELSE IF f \in DOMAIN Sets[kind] THEN Sets[kind][f] ELSE r[f]]
Changed(kind, r) == [f \in Fields |-> IF f \in DOMAIN Sets[kind] THEN Sets[kind][f] ELSE r[f]]

OfAdmins == {"promote", "demote", "suspend", "unsuspend", "delete", "enable", "disable", "setting"}
OfUsers == {"mode_on", "mode_off", "vehicle", "facebook", "profile", "signup"}
Reopens == {"unsuspend", "bootstrap"}

\* copy: the row it found, or the guard saw; writes: the columns save() writes;
\* crossed: another handler wrote the row since it was found.
Handler == [ kind : OfAdmins \cup OfUsers \cup {"bootstrap"}, actor : Accounts, target : Accounts,
             value : Values \cup {Default}, at : 0..MaxTime,
             stage : {"arrived", "looked", "guarded", "found", "new", "diffed",
                      "absent", "differs", "same", "stored", "saved"},
             copy : Row, writes : SUBSET Fields, crossed : BOOLEAN ]
Trust == [ admin : BOOLEAN, suspended : BOOLEAN, until : Nat ]
Nobody == [ admin |-> FALSE, suspended |-> FALSE, until |-> 0 ]

Replace(i, h) == handlers' = [handlers EXCEPT ![i] = h]
Leave(i) == handlers' = RemoveAt(handlers, i)
Starts(kind, a, b, v, stage) ==
  /\ Len(handlers) < MaxHandlers /\ made < MaxCalls
  /\ made' = made + 1
  /\ handlers' = Append(handlers,
       [ kind |-> kind, actor |-> a, target |-> b, value |-> v, at |-> clock, stage |-> stage,
         copy |-> Blank, writes |-> {}, crossed |-> FALSE ])

\* The rows become rs: when an account was last an admin.
Rows(rs, now) ==
  /\ row' = rs
  /\ admin_at' = [a \in Accounts |-> IF Active(row[a]) \/ Active(rs[a]) THEN now ELSE admin_at[a]]

-----------------------------------------------------------------------------
(* The guard.                                                              *)
\* canActivate: an admin, as far as the guard knows, may go on.
MayPass(t) == t.admin /\ ~t.suspended

CallAdmin(kind, a, b, v) ==
  /\ {a, b} \subseteq known
  /\ kind # "setting" => v = Default
  /\ kind = "setting" => b = a
  /\ IF trust[a].until > clock
     THEN MayPass(trust[a]) /\ Starts(kind, a, b, v, "guarded")
     ELSE Starts(kind, a, b, v, "arrived")
  /\ UNCHANGED <<row, known, garage, setting, trust, clock, admin_at, raced>>

\* resolveFreshRole: the row is read...
Look(i) ==
  /\ handlers[i].stage = "arrived"
  /\ Replace(i, [handlers[i] EXCEPT !.stage = "looked", !.copy = row[handlers[i].actor]])
  /\ UNCHANGED <<row, known, garage, setting, trust, clock, made, admin_at, raced>>

\* ... and trusted from the time the call came.
UntilFromNow(h) == clock + TTL   \* mutant: from the time the row was read
Until(h) == h.at + TTL
Judge(i) ==
  LET h == handlers[i]
      t == IF h.copy.deleted THEN Nobody
           ELSE [admin |-> h.copy.admin, suspended |-> h.copy.suspended, until |-> Until(h)]
  IN  /\ h.stage = "looked"
      /\ trust' = [trust EXCEPT ![h.actor] = t]
      /\ IF MayPass(t) THEN Replace(i, [h EXCEPT !.stage = "guarded", !.copy = Blank]) ELSE Leave(i)
      /\ UNCHANGED <<row, known, garage, setting, clock, made, admin_at, raced>>

-----------------------------------------------------------------------------
(* The accounts.                                                           *)
\* A call behind JwtAuthGuard, which only reads the token; or without one.
CallUser(kind, a) ==
  /\ a \in known \/ kind \in {"signup", "facebook"}
  /\ Starts(kind, a, a, Default, "guarded")
  /\ UNCHANGED <<row, known, garage, setting, trust, clock, admin_at, raced>>

\* Mutant: an admin may act on himself.
AcceptsSelf(h, r) ==
  /\ h.kind \in {"suspend", "delete"} => ~r.admin
  /\ h.kind \in OfAdmins \cup {"mode_on", "mode_off"} => ~r.deleted
  /\ h.kind = "mode_on" => r.driver \/ h.target \in garage
  /\ h.kind = "facebook" => ~r.deleted /\ ~r.suspended
  /\ h.kind # "signup"
\* What a handler checks of the call and of the row it found.
Accepts(h, r) ==
  /\ h.kind \in {"promote", "demote", "suspend", "unsuspend", "delete"} => h.target # h.actor
  /\ h.kind \in {"suspend", "delete"} => ~r.admin
  /\ h.kind \in OfAdmins \cup {"mode_on", "mode_off"} => ~r.deleted
  /\ h.kind = "mode_on" => r.driver \/ h.target \in garage
  /\ h.kind = "facebook" => ~r.deleted /\ ~r.suspended
  /\ h.kind # "signup"

\* A handler without anything to save is done; there always is a name, a phone, an
\* avatar or a password to save for these.
Idle(h, r) == Changed(h.kind, r) = r /\ h.kind \notin {"profile", "bootstrap"}

\* The find.  An account nobody has may be made, if it is not by then.
Find(i) ==
  LET h == handlers[i]
      r == row[h.target]
  IN  /\ h.stage = "guarded" /\ h.kind # "setting"
      /\ IF h.target \notin known THEN Replace(i, [h EXCEPT !.stage = "new"])
         ELSE IF Accepts(h, r) /\ ~Idle(h, r)
         THEN Replace(i, [h EXCEPT !.stage = "found", !.copy = Changed(h.kind, r)])
         ELSE Leave(i)
      /\ garage' = IF h.kind = "vehicle" /\ r.driver THEN garage \cup {h.target} ELSE garage
      /\ UNCHANGED <<row, known, setting, trust, clock, made, admin_at, raced>>

\* createUserWithWallet, and the INSERT of the bootstrap; the email is unique.
Create(i) ==
  LET h == handlers[i] IN
  /\ h.stage = "new"
  /\ Leave(i)
  /\ known' = known \cup {h.target}
  /\ IF h.target \in known THEN UNCHANGED <<row, admin_at>>
     ELSE Rows([row EXCEPT ![h.target] = Changed(h.kind, Blank)], clock)
  /\ UNCHANGED <<garage, setting, trust, clock, made, raced>>

\* save(): the SELECT, which decides what is written...
Diff(i) ==
  LET h == handlers[i] IN
  /\ h.stage = "found"
  /\ Replace(i, [h EXCEPT !.stage = "diffed",
                          !.writes = { f \in Fields : h.copy[f] # row[h.target][f] }])
  /\ UNCHANGED <<row, known, garage, setting, trust, clock, made, admin_at, raced>>

\* ... and the UPDATE.  Whoever found the row before it is crossed.
AfterSave(i, h) ==
  [j \in DOMAIN handlers |->
     IF j = i THEN [h EXCEPT !.stage = "saved", !.copy = Blank, !.writes = {}]
     ELSE IF handlers[j].stage \in {"found", "diffed"} /\ handlers[j].target = h.target /\ h.writes # {}
     THEN [handlers[j] EXCEPT !.crossed = TRUE] ELSE handlers[j]]
Save(i) ==
  LET h == handlers[i]
      r == [f \in Fields |-> IF f \in h.writes THEN h.copy[f] ELSE row[h.target][f]]
      outdated == h.kind \in OfAdmins /\ ~Active(row[h.actor])
  IN  /\ h.stage = "diffed"
      /\ Rows([row EXCEPT ![h.target] = r], clock)
      /\ garage' = IF h.kind = "vehicle" THEN garage \cup {h.target} ELSE garage
      /\ raced' = IF h.crossed \/ outdated THEN raced \cup {"account"} ELSE raced
      /\ handlers' = AfterSave(i, h)
      /\ UNCHANGED <<known, setting, trust, clock, made>>

\* deleteMine of the last vehicle: the mode stays.
DeleteVehicle(a) ==
  /\ a \in garage /\ made < MaxCalls
  /\ made' = made + 1
  /\ garage' = garage \ {a}
  /\ UNCHANGED <<row, known, setting, trust, handlers, clock, admin_at, raced>>

-----------------------------------------------------------------------------
(* The settings.                                                           *)
\* setValue: the SELECT of its save() finds no row, another value, or this one...
DiffSetting(i) ==
  LET h == handlers[i] IN
  /\ h.stage = "guarded" /\ h.kind = "setting"
  /\ Replace(i, [h EXCEPT !.stage = IF ~setting.there THEN "absent"
                                    ELSE IF setting.row = h.value THEN "same" ELSE "differs"])
  /\ UNCHANGED <<row, known, garage, setting, trust, clock, made, admin_at, raced>>

\* Another update has still to cache a value that the row will not say.
Crosses(i) ==
  \E j \in DOMAIN handlers \ {i} :
    handlers[j].stage \in {"same", "stored"} /\ handlers[j].value # handlers[i].value

\* ... and the row is inserted, unless somebody did, or updated; a value found the
\* same is not written.
SaveSetting(i) ==
  LET h == handlers[i] IN
  /\ h.stage \in {"absent", "differs", "same"}
  /\ IF h.stage = "absent" /\ setting.there
     THEN Leave(i) /\ UNCHANGED setting
     ELSE /\ Replace(i, [h EXCEPT !.stage = "stored"])
          /\ setting' = IF h.stage = "same" THEN setting
                        ELSE [setting EXCEPT !.there = TRUE, !.row = h.value]
  /\ raced' = IF setting' = setting THEN raced
              ELSE IF Crosses(i) THEN raced \cup {"setting"} ELSE raced \ {"setting"}
  /\ UNCHANGED <<row, known, garage, trust, clock, made, admin_at>>

\* Mutant: the cache waits for a restart.
CacheNothing(i) ==
  /\ handlers[i].stage = "stored"
  /\ Replace(i, [handlers[i] EXCEPT !.stage = "saved"])
  /\ UNCHANGED <<row, known, garage, setting, trust, clock, made, admin_at, raced>>
\* ... and cached once the answer of the database is there.
CacheSetting(i) ==
  /\ handlers[i].stage = "stored"
  /\ setting' = [setting EXCEPT !.cache = handlers[i].value]
  /\ Replace(i, [handlers[i] EXCEPT !.stage = "saved"])
  /\ UNCHANGED <<row, known, garage, trust, clock, made, admin_at, raced>>

-----------------------------------------------------------------------------
(* The rest.                                                               *)
\* The audit row of an admin, the answer of the others.
Record(i) ==
  /\ handlers[i].stage = "saved"
  /\ Leave(i)
  /\ UNCHANGED <<row, known, garage, setting, trust, clock, made, admin_at, raced>>

\* The statement a handler waits for fails; what it saved stays.
Fail(i) ==
  /\ Leave(i)
  /\ raced' = IF handlers[i].stage = "stored" THEN raced \cup {"setting"} ELSE raced
  /\ UNCHANGED <<row, known, garage, setting, trust, clock, made, admin_at>>

\* create-admin, a process of its own.
RunScript ==
  /\ Starts("bootstrap", Bootstrap, Bootstrap, Default, "guarded")
  /\ UNCHANGED <<row, known, garage, setting, trust, clock, admin_at, raced>>

\* The overrides in the table, or the environment's when they cannot be read.
Hydrate ==
  \/ setting' = [setting EXCEPT !.cache = setting.row] /\ raced' = raced \ {"setting"}
  \/ setting' = [setting EXCEPT !.cache = Default] /\ raced' = raced \cup {"setting"}
\* The account of the environment is an admin, unless that fails.
BootstrapAdmin ==
  \/ UNCHANGED <<row, known, admin_at>>
  \/ /\ known' = known \cup {Bootstrap}
     /\ Rows([row EXCEPT ![Bootstrap] = Changed("bootstrap", row[Bootstrap])], clock)
\* The handlers of the script, a process of its own; their order tells nothing.
OfScript == { i \in DOMAIN handlers : handlers[i].kind = "bootstrap" }
Outliving == LET those == SetToSeq(OfScript) IN [k \in DOMAIN those |-> handlers[those[k]]]
\* The server dies and starts: its handlers are gone and its caches are empty; it
\* listens when both are done.
Restart ==
  /\ made < MaxCalls /\ made' = made + 1
  /\ trust' = [a \in Accounts |-> Nobody]
  /\ handlers' = Outliving
  /\ Hydrate /\ BootstrapAdmin
  /\ UNCHANGED <<garage, clock>>

Tick ==
  /\ clock < MaxTime
  /\ clock' = clock + 1
  /\ Rows(row, clock + 1)
  /\ UNCHANGED <<known, garage, setting, trust, handlers, made, raced>>

Init ==
  /\ known = {Bootstrap}
  /\ row = [a \in Accounts |-> [Blank EXCEPT !["admin"] = (a = Bootstrap)]]
  /\ garage = {}
  /\ setting = [there |-> FALSE, row |-> Default, cache |-> Default]
  /\ trust = [a \in Accounts |-> Nobody]
  /\ handlers = << >>
  /\ clock = TTL
  /\ made = 0
  /\ admin_at = [a \in Accounts |-> IF a = Bootstrap THEN TTL ELSE 0]
  /\ raced = {}

Serve(i) ==
  \/ Look(i) \/ Judge(i) \/ Find(i) \/ Create(i) \/ Diff(i) \/ Save(i)
  \/ DiffSetting(i) \/ SaveSetting(i) \/ CacheSetting(i) \/ Record(i) \/ Fail(i)
Next ==
  \/ \E a, b \in Accounts, kind \in OfAdmins, v \in Values \cup {Default} : CallAdmin(kind, a, b, v)
  \/ \E a \in Accounts : DeleteVehicle(a) \/ \E kind \in OfUsers : CallUser(kind, a)
  \/ \E i \in DOMAIN handlers : Serve(i)
  \/ RunScript \/ Restart \/ Tick

Spec == Init /\ [][Next]_vars

-----------------------------------------------------------------------------
(* Properties.                                                             *)
TypeOK ==
  /\ row \in [Accounts -> Row]
  /\ known \subseteq Accounts /\ garage \subseteq known
  /\ setting \in [there : BOOLEAN, row : Values \cup {Default}, cache : Values \cup {Default}]
  /\ trust \in [Accounts -> Trust]
  /\ handlers \in Seq(Handler) /\ Len(handlers) <= MaxHandlers
  /\ clock \in 0..MaxTime /\ made \in 0..MaxCalls
  /\ admin_at \in [Accounts -> 0..MaxTime]
  /\ raced \subseteq {"account", "setting"}

\* The guard's cache may be old, never older than it says: whoever passes was an
\* active admin less than TTL before his call came, however late the lookups of
\* others answer and whatever order they fill the cache in.
GuardIsFresh ==
  \A i \in DOMAIN handlers :
    LET h == handlers[i] IN
    h.kind \in OfAdmins /\ h.stage \notin {"arrived", "looked"} => h.at < admin_at[h.actor] + TTL

\* An account that was suspended or deleted is open again only because an admin
\* or the bootstrap wanted it, or because a handler that had found the row before
\* saved it after.
Closed(a) == row[a].suspended \/ row[a].deleted
ReopenedOnPurpose ==
  [][\A a \in known : Closed(a) /\ ~Closed(a)' =>
       \/ a = Bootstrap /\ Restart
       \/ \E i \in DOMAIN handlers :
            /\ handlers[i].target = a
            /\ handlers[i].stage = "diffed" /\ handlers'[i].stage = "saved"
            /\ handlers[i].kind \in Reopens \/ handlers[i].crossed]_vars

\* Nobody may demote, suspend or delete himself, nor suspend or delete an admin:
\* the last admin can only go when two handlers meet on a row, or when an admin
\* acts who has just ceased to be one.
AnAdminRemains == (\E a \in known : Active(row[a])) \/ "account" \in raced

\* With no written update to be cached the settings in memory are those of the table,
\* unless one was written while another, of another value, had still to be cached, a
\* written one got no answer, or the last boot could not read the table.  An update
\* that meets no other repairs all three.
SettingsAgree ==
  (\A i \in DOMAIN handlers : handlers[i].stage # "stored") /\ "setting" \notin raced
    => setting.cache = setting.row
=============================================================================
