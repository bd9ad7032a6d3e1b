----------------------------- MODULE DataBinding -----------------------------
(***************************************************************************)
(* BasicDataBindingActivity and User. Each onResume makes a new user, binds*)
(* it to the layout and starts a thread that five seconds later changes    *)
(* the user: whichever the field holds by then, read anew by every         *)
(* statement. A setter changes its field and then notifies the binding,    *)
(* which marks the property and has the main thread copy the marked ones   *)
(* to the screen. The binding and the memory model are external: the field *)
(* is not volatile, so a thread may read any user since its own.           *)
(***************************************************************************)
EXTENDS Integers, Sequences

CONSTANT MaxResumes      (* bounds the returns to the screen               *)
ASSUME DataBindingAssumption == MaxResumes \in Nat \ {0}

VARIABLES
  users,       (* the users made so far                                   *)
  threads,     (* per resume: the next statement and where in it, the     *)
               (* user it is called on, the age it computed               *)
  dirty,       (* properties the binding has to show anew                 *)
  screen       (* what is shown                                           *)

dbVars == <<users, threads, dirty, screen>>

\* id and name, set one after the other, are one property here.
Props == {"age", "name", "portrait", "address"}
Resumes == 1 .. MaxResumes
Fresh == [age |-> 25, name |-> "unixman", portrait |-> "001", address |-> "NULL"]

\* What run() does, statement by statement; the age is computed.
Program == <<[prop |-> "age"], [prop |-> "name", val |-> "shock"],
             [prop |-> "portrait", val |-> "005"], [prop |-> "address", val |-> "ShenZhen"]>>

DataBindingInit ==
  /\ users = << >>
  /\ threads = [t \in Resumes |-> [pc |-> 0, at |-> "look", on |-> 0, age |-> 0]]
  /\ dirty = {}
  /\ screen = Fresh

\* user = new User(...); binding.setUser(user), which marks every property;
\* new Thread(){...}.start()
BoundNothing == {}
Bound == Props

Latest == Len(users)

OnResume ==
  /\ Latest < MaxResumes
  /\ users' = Append(users, Fresh)
  /\ dirty' = Bound
  /\ threads' = [threads EXCEPT ![Latest + 1].pc = 1]
  /\ UNCHANGED screen

\* The field user as thread t may see it.
SeesWhenStartedFirst(t) == (IF t > 1 THEN t - 1 ELSE 1) .. Latest
Sees(t) == t .. Latest

Goes(t, from, to, on, age) ==
  /\ threads[t].pc \in DOMAIN Program /\ threads[t].at = from
  /\ threads' = [threads EXCEPT ![t] = [@ EXCEPT !.at = to, !.on = on, !.age = age]]

\* The receiver, and for user.setAge(user.getAge() + 1) its argument: each reads
\* the field for itself.
Look(t) ==
  /\ \E r \in Sees(t), a \in Sees(t) :
       Goes(t, "look", "assign", r, IF threads[t].pc = 1 THEN users[a].age + 1 ELSE 0)
  /\ UNCHANGED <<users, dirty, screen>>

\* this.age = age, and the like.
Assign(t) ==
  LET s == Program[threads[t].pc] IN
  /\ Goes(t, "assign", "notify", threads[t].on, 0)
  /\ users' = [users EXCEPT ![threads[t].on][s.prop] =
                 IF s.prop = "age" THEN threads[t].age ELSE s.val]
  /\ UNCHANGED <<dirty, screen>>

\* notifyPropertyChanged(BR.x): heard if the user is the one the layout shows.
NotifiedAsName(p) == "name"
Notified(p) == p

Notify(t) ==
  /\ threads[t].at = "notify"
  /\ threads' = [threads EXCEPT ![t] =
                   [@ EXCEPT !.pc = threads[t].pc + 1, !.at = "look", !.on = 0]]
  /\ dirty' = IF threads[t].on = Latest
                THEN dirty \cup {Notified(Program[threads[t].pc].prop)} ELSE dirty
  /\ UNCHANGED <<users, screen>>

\* onPortraitClick, on the main thread: the setter and its notification.
PortraitClick ==
  /\ Latest > 0 /\ users[Latest].portrait # "008"
  /\ users' = [users EXCEPT ![Latest].portrait = "008"]
  /\ dirty' = dirty \cup {Notified("portrait")}
  /\ UNCHANGED <<threads, screen>>

\* executePendingBindings, on the main thread.
ShowDirty == [p \in Props |-> IF p \in dirty THEN users[Latest][p] ELSE screen[p]]

ExecuteBindings ==
  /\ dirty # {}
  /\ screen' = ShowDirty
  /\ dirty' = {}
  /\ UNCHANGED <<users, threads>>

Run(t) == Look(t) \/ Assign(t) \/ Notify(t)

DataBindingNext ==
  \/ OnResume \/ PortraitClick \/ ExecuteBindings
  \/ \E t \in Resumes : Run(t)

DataBindingFair ==
  /\ WF_dbVars(ExecuteBindings)
  /\ \A t \in Resumes : WF_dbVars(Run(t))

DataBindingSpec == DataBindingInit /\ [][DataBindingNext]_dbVars /\ DataBindingFair

-----------------------------------------------------------------------------
Started == 1 .. Latest
Done(t) == threads[t].pc = Len(Program) + 1

DataBindingTypeOK ==
  /\ Latest <= MaxResumes
  /\ \A u \in Started : users[u].age \in 25 .. 25 + MaxResumes
  /\ threads \in [Resumes -> [pc : 0 .. Len(Program) + 1, on : 0 .. MaxResumes,
                              at : {"look", "assign", "notify"}, age : 0 .. 25 + MaxResumes]]
  /\ dirty \subseteq Props

\* A property that is not marked, and that no thread is about to mark, is on the
\* screen as the current user has it: no setter's change gets lost between the
\* background threads, the new users and the main thread.
CleanIsShown ==
  \A p \in Props :
    \/ Latest = 0 \/ p \in dirty
    \/ screen[p] = users[Latest][p]
    \/ \E t \in Started :
         /\ threads[t].at = "notify" /\ threads[t].on = Latest
         /\ Program[threads[t].pc].prop = p

\* Once all threads are done the last user is changed in every property, be
\* earlier users half changed or not at all: the last thread sees no other. The
\* age has grown at least once, and at most once per thread.
LastUserIsChanged ==
  (Latest > 0 /\ \A t \in Started : Done(t)) =>
    /\ users[Latest].name = "shock"
    /\ users[Latest].address = "ShenZhen" /\ users[Latest].portrait \in {"005", "008"}
    /\ users[Latest].age \in 26 .. 25 + Latest

\* The screen settles on what the last user has become.
ScreenSettles == <>[](Latest > 0 => screen = users[Latest])

\* Threads of earlier users and of the current one race with the main thread:
\* nothing they change for the current user gets lost on its way to the screen.
BindingIsRight == DataBindingTypeOK /\ CleanIsShown /\ LastUserIsChanged
=============================================================================
