---------------------------- MODULE SessionProofs ----------------------------
(***************************************************************************)
(* What a phone keeps true while accounts come and go on it, for any        *)
(* number of accounts, of pages on the navigator, of waiting writes and of  *)
(* calls of the sign-in page.                                               *)
(*                                                                         *)
(* The invariant has one part per property: StartInv follows the write      *)
(* main() waits for, from the queue to the collection; DocsInv the document *)
(* of a sign-up, from the call to the queue to the collection; PagesInv     *)
(* says why no profile is on the navigator when the user changes: the       *)
(* sign-in page is only ever the first page, and whoever can tap on it has  *)
(* nothing above it.                                                        *)
(***************************************************************************)
EXTENDS Session, TLAPS

Index(s) == 1..Len(s)
Asks(c) == c.stage \in {"signing", "creating"}

StartInv ==
  /\ boot # "up" => stack = <<>> /\ calls = {}
  /\ boot \in {"off", "starting"} => starter = Nobody
  /\ boot = "saving" => starter = user /\ user # Nobody
  /\ \A u \in Accounts : \A i \in Index(queue[u]) :
       queue[u][i] = "start" => boot = "saving" /\ u = starter
  /\ \A u \in Accounts : \A i, j \in Index(queue[u]) :
       queue[u][i] = "start" /\ queue[u][j] = "start" => i = j
  /\ TokenOnFile

DocsInv ==
  /\ \A c \in calls : c.stage \in {"created", "writing"} => c.who \in accounts
  /\ \A u \in Accounts : \A i \in Index(queue[u]) :
       queue[u][i] = "document" => u \in accounts
  /\ \A u \in accounts \ (documents \cup cut) :
       \/ \E c \in calls : c.who = u /\ c.stage = "created"
       \/ \E i \in Index(queue[u]) : queue[u][i] = "document"

PagesInv ==
  /\ \A i \in Index(stack) : stack[i].page = "login" => i = 1 /\ heard = Nobody /\ ~reading
  /\ ~overlap => \A c \in calls : Asks(c) =>
       /\ \A d \in calls : d = c
       /\ user = Nobody
       /\ Len(stack) = 1 /\ stack[1].page = "login"
  /\ ~overlap => \A i \in Index(stack) :
       stack[i].page = "profile" => stack[i].owner = user \/ user = Nobody

IInv == TypeOK /\ StartInv /\ DocsInv /\ PagesInv

-----------------------------------------------------------------------------
(* A write joins the queue of an account. *)
LEMMA EnqueueFacts ==
  ASSUME TypeOK, NEW u \in Accounts, NEW kind \in WriteKinds, Enqueue(u, kind)
  PROVE  /\ queue' \in [Accounts -> Seq(WriteKinds)]
         /\ \A v \in Accounts : v # u => queue'[v] = queue[v]
         /\ Len(queue[u]) \in Nat /\ Len(queue'[u]) = Len(queue[u]) + 1
         /\ \A i \in 1..Len(queue[u]) : queue'[u][i] = queue[u][i]
         /\ queue'[u][Len(queue[u]) + 1] = kind
<1>1. queue[u] \in Seq(WriteKinds)
  BY DEF TypeOK
<1>2. queue'[u] = Append(queue[u], kind)
  BY DEF Enqueue, TypeOK
<1> QED
  BY <1>1, <1>2 DEF Enqueue, TypeOK

(* The same, said of the entries of all the queues. *)
LEMMA EnqueueEntries ==
  ASSUME TypeOK, NEW u \in Accounts, NEW kind \in WriteKinds, Enqueue(u, kind)
  PROVE  /\ queue' \in [Accounts -> Seq(WriteKinds)]
         /\ \A v \in Accounts : \A i \in Index(queue'[v]) :
              \/ i \in Index(queue[v]) /\ queue'[v][i] = queue[v][i]
              \/ v = u /\ i = Len(queue[u]) + 1 /\ queue'[v][i] = kind
         /\ \A v \in Accounts : \A i \in Index(queue[v]) :
              i \in Index(queue'[v]) /\ queue'[v][i] = queue[v][i]
         /\ Len(queue[u]) + 1 \in Index(queue'[u])
         /\ queue'[u][Len(queue[u]) + 1] = kind
  BY EnqueueFacts DEF Index

(* The rest of a sequence, index by index. *)
LEMMA TailOf ==
  ASSUME NEW S, NEW s \in Seq(S), s # <<>>
  PROVE  /\ Len(s) \in Nat \ {0} /\ Len(Tail(s)) = Len(s) - 1
         /\ \A i \in 1..Len(s) - 1 : Tail(s)[i] = s[i + 1]
         /\ Head(s) = s[1]
  OBVIOUS

(* The oldest write of an account leaves its queue. *)
LEMMA TailEntries ==
  ASSUME TypeOK, NEW u \in Accounts, queue[u] # <<>>,
         queue' = [queue EXCEPT ![u] = Tail(@)]
  PROVE  /\ queue' \in [Accounts -> Seq(WriteKinds)]
         /\ \A v \in Accounts : v # u => queue'[v] = queue[v]
         /\ Head(queue[u]) = queue[u][1] /\ 1 \in Index(queue[u])
         /\ queue[u][1] \in WriteKinds
         /\ \A i \in Index(queue'[u]) :
              i \in Nat /\ i # 0 /\ i + 1 \in Index(queue[u]) /\ queue'[u][i] = queue[u][i + 1]
         /\ \A i \in Index(queue[u]) :
              i # 1 => i - 1 \in Index(queue'[u]) /\ queue'[u][i - 1] = queue[u][i]
<1>1. queue[u] \in Seq(WriteKinds)
  BY DEF TypeOK
<1>2. queue'[u] = Tail(queue[u])
  BY DEF TypeOK
<1>3. /\ Len(queue[u]) \in Nat \ {0} /\ Len(queue'[u]) = Len(queue[u]) - 1
      /\ \A i \in 1..Len(queue[u]) - 1 : queue'[u][i] = queue[u][i + 1]
      /\ Head(queue[u]) = queue[u][1]
  BY <1>1, <1>2, TailOf
<1>4. \A i \in Index(queue'[u]) :
        i \in Nat /\ i # 0 /\ i + 1 \in Index(queue[u]) /\ queue'[u][i] = queue[u][i + 1]
  BY <1>3 DEF Index
<1>5. \A i \in Index(queue[u]) :
        i # 1 => i - 1 \in Index(queue'[u]) /\ queue'[u][i - 1] = queue[u][i]
  BY <1>3 DEF Index
<1>6. 1 \in Index(queue[u]) /\ queue[u][1] \in WriteKinds
  BY <1>1, <1>3 DEF Index
<1>7. queue' \in [Accounts -> Seq(WriteKinds)] /\ \A v \in Accounts : v # u => queue'[v] = queue[v]
  BY <1>1 DEF TypeOK
<1> QED
  BY <1>3, <1>4, <1>5, <1>6, <1>7

(* Nothing about the documents changes but that a queue may have grown. *)
LEMMA DocsFrame ==
  ASSUME TypeOK, DocsInv, UNCHANGED <<accounts, documents, cut>>,
         \A v \in Accounts : \A i \in Index(queue'[v]) :
           (i \in Index(queue[v]) /\ queue'[v][i] = queue[v][i]) \/ queue'[v][i] # "document",
         \A v \in Accounts : \A i \in Index(queue[v]) :
           i \in Index(queue'[v]) /\ queue'[v][i] = queue[v][i],
         \A c \in calls' : \E d \in calls : d.who = c.who /\ d.stage = c.stage,
         \A c \in calls : c.stage = "created" =>
           \E d \in calls' : d.who = c.who /\ d.stage = "created"
  PROVE  DocsInv'
<1>1. \A c \in calls' : c.stage \in {"created", "writing"} => c.who \in accounts'
  BY DEF DocsInv
<1>2. \A u \in Accounts : \A i \in Index(queue'[u]) : queue'[u][i] = "document" => u \in accounts'
  BY DEF DocsInv
<1>3. ASSUME NEW u \in accounts \ (documents \cup cut)
      PROVE  \/ \E c \in calls' : c.who = u /\ c.stage = "created"
             \/ \E i \in Index(queue'[u]) : queue'[u][i] = "document"
  <2>1. u \in Accounts
    BY DEF TypeOK
  <2>2. CASE \E c \in calls : c.who = u /\ c.stage = "created"
    BY <2>2
  <2>3. CASE \E i \in Index(queue[u]) : queue[u][i] = "document"
    BY <2>1, <2>3
  <2> QED
    BY <2>2, <2>3 DEF DocsInv
<1> QED
  BY <1>1, <1>2, <1>3 DEF DocsInv

(* A new route is a route, and neither the sign-in page nor another's profile. *)
LEMMA NewRouteFacts ==
  ASSUME TypeOK, NEW t \in Tabs \cup {"menu", "dashboard"}
  PROVE  /\ NewRoute(t) \in Route /\ NewRoute(t).page = t /\ t # "login"
         /\ t = "profile" => NewRoute(t).owner = user
  BY DEF NewRoute, Route, Pages, Tabs, Who, TypeOK

(* What the phone shows first. *)
LEMMA RunAppFacts ==
  ASSUME RunApp
  PROVE  /\ boot' = "up" /\ setup' = "asking" /\ stack' \in Seq(Route)
         /\ Len(stack') = 1 /\ stack'[1].page = "loading"
<1> DEFINE r == [page |-> "loading", gate |-> TRUE, owner |-> Nobody]
<1>1. r \in Route /\ r.page = "loading"
  BY DEF Route, Pages, Who
<1>2. stack' = <<r>>
  BY DEF RunApp
<1> HIDE DEF r
<1>3. stack' \in Seq(Route) /\ Len(stack') = 1 /\ stack'[1] = r
  BY <1>1, <1>2
<1> QED
  BY <1>1, <1>3 DEF RunApp

-----------------------------------------------------------------------------
(* The phone as it is delivered. *)
LEMMA InitInv == Init => IInv
<1> SUFFICES ASSUME Init PROVE IInv
  OBVIOUS
<1>1. \A u \in Accounts : queue[u] = <<>> /\ Index(queue[u]) = {}
  BY DEF Init, Index
<1>2. Index(stack) = {}
  BY DEF Init, Index
<1>3. queue \in [Accounts -> Seq(WriteKinds)] /\ stack \in Seq(Route)
  BY DEF Init
<1>4. TypeOK
  BY <1>3 DEF Init, TypeOK, Who
<1>5. StartInv /\ DocsInv /\ PagesInv
  BY <1>1, <1>2 DEF Init, StartInv, DocsInv, PagesInv, TokenOnFile
<1> QED
  BY <1>4, <1>5 DEF IInv

(* main() begins, gives up, or goes on without a token. *)
LEMMA LaunchInv ==
  ASSUME IInv, Launch \/ StartThrows \/ SkipToken
  PROVE  IInv'
<1> USE DEF IInv, storeVars, phoneVars, pageVars, history
<1>1. CASE Launch \/ StartThrows
  BY <1>1 DEF Launch, StartThrows, TypeOK, StartInv, DocsInv, PagesInv, TokenOnFile, Index
<1>2. CASE SkipToken
  <2>1. /\ boot' = "up" /\ setup' = "asking" /\ stack' \in Seq(Route)
        /\ Len(stack') = 1 /\ stack'[1].page = "loading"
    BY <1>2, RunAppFacts DEF SkipToken
  <2>2. UNCHANGED <<storeVars, queue, user, starter, heard, reading, calls, history>>
    BY <1>2 DEF SkipToken
  <2>3. boot = "starting" /\ calls = {} /\ starter = Nobody
    BY <1>2 DEF SkipToken, StartInv
  <2>4. TypeOK'
    BY <2>1, <2>2 DEF TypeOK
  <2>5. StartInv'
    BY <2>1, <2>2, <2>3 DEF StartInv, TokenOnFile
  <2>6. DocsInv'
    BY <2>2 DEF DocsInv
  <2>7. PagesInv'
    BY <2>1, <2>2, <2>3 DEF PagesInv, Index
  <2> QED
    BY <2>4, <2>5, <2>6, <2>7
<1> QED
  BY <1>1, <1>2

(* A token joins the queue, awaited by main() or not. *)
LEMMA TokenInv ==
  ASSUME IInv, SaveToken \/ SetupToken
  PROVE  IInv'
<1> USE DEF IInv, storeVars, phoneVars, pageVars, history
<1>1. TypeOK
  OBVIOUS
<1>2. CASE SaveToken
  <2>1. user \in Accounts /\ "start" \in WriteKinds
    BY <1>2 DEF SaveToken, TypeOK, Who, WriteKinds
  <2>2. /\ queue' \in [Accounts -> Seq(WriteKinds)]
        /\ \A v \in Accounts : \A i \in Index(queue'[v]) :
             \/ i \in Index(queue[v]) /\ queue'[v][i] = queue[v][i]
             \/ v = user /\ i = Len(queue[user]) + 1 /\ queue'[v][i] = "start"
        /\ \A v \in Accounts : \A i \in Index(queue[v]) :
             i \in Index(queue'[v]) /\ queue'[v][i] = queue[v][i]
    BY <1>1, <1>2, <2>1, EnqueueEntries DEF SaveToken
  <2>3. /\ boot = "starting" /\ boot' = "saving" /\ starter' = user /\ user # Nobody
        /\ UNCHANGED <<storeVars, user, setup, pageVars, calls, history>>
    BY <1>2 DEF SaveToken
  <2>4. TypeOK'
    BY <2>2, <2>3 DEF TypeOK
  <2>5. \A v \in Accounts : \A i \in Index(queue[v]) : queue[v][i] # "start"
    BY <2>3 DEF StartInv
  <2>6. StartInv'
    BY <2>2, <2>3, <2>5 DEF StartInv, TokenOnFile
  <2>7. DocsInv'
    BY <1>1, <2>2, <2>3, DocsFrame
  <2>8. PagesInv'
    BY <2>3 DEF PagesInv
  <2> QED
    BY <2>4, <2>6, <2>7, <2>8
<1>3. CASE SetupToken /\ queue' = queue
  BY <1>3 DEF SetupToken, TypeOK, StartInv, DocsInv, PagesInv, TokenOnFile
<1>4. CASE SetupToken /\ queue' # queue
  <2>1. user \in Accounts /\ "token" \in WriteKinds /\ Enqueue(user, "token")
    BY <1>4 DEF SetupToken, TypeOK, Who, WriteKinds
  <2>2. /\ queue' \in [Accounts -> Seq(WriteKinds)]
        /\ \A v \in Accounts : \A i \in Index(queue'[v]) :
             \/ i \in Index(queue[v]) /\ queue'[v][i] = queue[v][i]
             \/ v = user /\ i = Len(queue[user]) + 1 /\ queue'[v][i] = "token"
        /\ \A v \in Accounts : \A i \in Index(queue[v]) :
             i \in Index(queue'[v]) /\ queue'[v][i] = queue[v][i]
    BY <1>1, <2>1, EnqueueEntries
  <2>3. /\ setup' = "done"
        /\ UNCHANGED <<storeVars, user, boot, starter, pageVars, calls, history>>
    BY <1>4 DEF SetupToken
  <2>4. TypeOK'
    BY <2>2, <2>3 DEF TypeOK
  <2>5. StartInv'
    BY <2>2, <2>3 DEF StartInv, TokenOnFile
  <2>6. DocsInv'
    BY <1>1, <2>2, <2>3, DocsFrame
  <2>7. PagesInv'
    BY <2>3 DEF PagesInv
  <2> QED
    BY <2>4, <2>5, <2>6, <2>7
<1> QED
  BY <1>2, <1>3, <1>4

(* A step on the pages: the routes are the old ones or new ones, above or in *)
(* the place of a page that is not the sign-in page.                        *)
LEMMA PageStep ==
  ASSUME IInv, boot = "up", stack # <<>>, Top.page # "login",
         stack' \in Seq(Route),
         \A i \in Index(stack') :
           \/ i \in Index(stack) /\ stack'[i] = stack[i]
           \/ /\ stack'[i].page # "login"
              /\ stack'[i].page = "profile" => stack'[i].owner = user,
         calls' = calls \/ Continue(calls),
         UNCHANGED <<storeVars, queue, phoneVars, heard, reading, history>>
  PROVE  IInv'
<1> USE DEF IInv, storeVars, phoneVars, history
<1>1. TypeOK /\ DocsInv
  OBVIOUS
<1>2. \A c \in calls' : c \in Call /\ \E d \in calls : d.who = c.who /\ d.stage = c.stage
  <2>1. CASE calls' = calls
    BY <2>1 DEF TypeOK
  <2>2. CASE Continue(calls)
    BY <2>2 DEF Continue, TypeOK, Call
  <2> QED
    BY <2>1, <2>2
<1>3. \A c \in calls : c.stage = "created" =>
        \E d \in calls' : d.who = c.who /\ d.stage = "created"
  <2>1. CASE calls' = calls
    BY <2>1
  <2>2. CASE Continue(calls)
    <3> SUFFICES ASSUME NEW c \in calls, c.stage = "created"
                 PROVE  \E d \in calls' : d.who = c.who /\ d.stage = "created"
      OBVIOUS
    <3> DEFINE d == [c EXCEPT !.mounted = @ /\ stack' # <<>> /\ stack'[1].page = "login"]
    <3>1. d \in calls'
      BY <2>2 DEF Continue
    <3>2. d.who = c.who /\ d.stage = "created"
      BY DEF TypeOK, Call
    <3> QED
      BY <3>1, <3>2
  <2> QED
    BY <2>1, <2>2
<1>4. TypeOK'
  BY <1>2 DEF TypeOK
<1>5. StartInv'
  BY DEF StartInv, TokenOnFile
<1>6. DocsInv'
  BY <1>1, <1>2, <1>3, DocsFrame
<1>7. PagesInv'
  <2>1. Len(stack) \in Nat \ {0} /\ stack[Len(stack)].page # "login"
    BY DEF TypeOK, Top
  <2>2. ~overlap => \A c \in calls : ~Asks(c)
    BY <2>1 DEF PagesInv
  <2>3. ~overlap => \A c \in calls' : ~Asks(c)
    BY <1>2, <2>2 DEF Asks
  <2>4. \A i \in Index(stack') : stack'[i].page = "login" => i = 1 /\ heard = Nobody /\ ~reading
    BY DEF PagesInv
  <2>5. ~overlap => \A i \in Index(stack') :
          stack'[i].page = "profile" => stack'[i].owner = user \/ user = Nobody
    BY DEF PagesInv
  <2> QED
    BY <2>3, <2>4, <2>5 DEF PagesInv
<1> QED
  BY <1>4, <1>5, <1>6, <1>7

(* Replacing the first page, putting one on top, taking the visible one away. *)
LEMMA StackOps ==
  ASSUME NEW s \in Seq(Route), s # <<>>, NEW r \in Route
  PROVE  /\ Len(s) \in Nat \ {0}
         /\ [s EXCEPT ![1] = r] \in Seq(Route) /\ Len([s EXCEPT ![1] = r]) = Len(s)
         /\ [s EXCEPT ![1] = r][1] = r
         /\ \A i \in Index(s) : i # 1 => [s EXCEPT ![1] = r][i] = s[i]
         /\ Append(s, r) \in Seq(Route)
         /\ \A i \in Index(Append(s, r)) :
              (i \in Index(s) /\ Append(s, r)[i] = s[i]) \/ Append(s, r)[i] = r
         /\ Front(s) \in Seq(Route)
         /\ \A i \in Index(Front(s)) : i \in Index(s) /\ Front(s)[i] = s[i]
<1> USE DEF Index
<1>1. Len(s) \in Nat \ {0}
  OBVIOUS
<1>2. /\ [s EXCEPT ![1] = r] \in Seq(Route) /\ Len([s EXCEPT ![1] = r]) = Len(s)
      /\ [s EXCEPT ![1] = r][1] = r
      /\ \A i \in Index(s) : i # 1 => [s EXCEPT ![1] = r][i] = s[i]
  OBVIOUS
<1>3. /\ Append(s, r) \in Seq(Route)
      /\ \A i \in Index(Append(s, r)) :
           (i \in Index(s) /\ Append(s, r)[i] = s[i]) \/ Append(s, r)[i] = r
  OBVIOUS
<1>4. /\ Front(s) \in Seq(Route)
      /\ \A i \in Index(Front(s)) : i \in Index(s) /\ Front(s)[i] = s[i]
  BY DEF Front
<1> QED
  BY <1>1, <1>2, <1>3, <1>4

(* The user finds his way. *)
LEMMA NavigateInv ==
  ASSUME IInv, Navigate
  PROVE  IInv'
<1> USE DEF IInv
<1>1. TypeOK /\ stack \in Seq(Route)
  BY DEF TypeOK
<1>2. ASSUME NEW t \in Tabs, SwitchTab(t) PROVE IInv'
  <2> DEFINE r == [NewRoute(t) EXCEPT !.gate = Top.gate]
  <2>1. /\ boot = "up" /\ stack # <<>> /\ Top.page \in Tabs
        /\ stack' = [stack EXCEPT ![Len(stack)] = r]
        /\ UNCHANGED <<storeVars, queue, phoneVars, heard, reading, calls, history>>
    BY <1>2 DEF SwitchTab, Shows
  <2>2. Top \in Route /\ Top.page # "login"
    BY <1>1, <2>1 DEF Top, Tabs
  <2>3. r \in Route /\ r.page # "login" /\ (r.page = "profile" => r.owner = user)
    BY <1>1, <2>2, NewRouteFacts DEF Route
  <2> HIDE DEF r
  <2>4. /\ stack' \in Seq(Route)
        /\ \A i \in Index(stack') :
             (i \in Index(stack) /\ stack'[i] = stack[i]) \/ stack'[i] = r
    <3>1. stack \in Seq(Route) /\ stack # <<>> /\ r \in Route
      BY <1>1, <2>1, <2>3
    <3>2. stack' = [stack EXCEPT ![Len(stack)] = r]
      BY <2>1
    <3> QED
      BY <3>1, <3>2 DEF Index
  <2>5. /\ calls' = calls
        /\ UNCHANGED <<storeVars, queue, phoneVars, heard, reading, history>>
    BY <2>1
  <2>6. boot = "up" /\ stack # <<>>
    BY <2>1
  <2> QED
    BY <2>2, <2>3, <2>4, <2>5, <2>6, PageStep
<1>3. ASSUME NEW t \in Tabs, MenuTab(t) PROVE IInv'
  <2>1. /\ boot = "up" /\ stack # <<>> /\ Top.page = "menu" /\ stack' = <<NewRoute(t)>>
        /\ Continue(calls)
        /\ UNCHANGED <<storeVars, queue, phoneVars, heard, reading, history>>
    BY <1>3 DEF MenuTab, Shows
  <2>2. NewRoute(t) \in Route /\ NewRoute(t).page # "login"
        /\ (NewRoute(t).page = "profile" => NewRoute(t).owner = user)
    BY <1>1, NewRouteFacts
  <2>3. /\ stack' \in Seq(Route) 
        /\ \A i \in Index(stack') : stack'[i] = NewRoute(t)
    BY <2>1, <2>2 DEF Index
  <2> QED
    BY <2>1, <2>2, <2>3, PageStep
<1>4. ASSUME NEW t \in {"menu", "dashboard", "home"}, NEW s \in {"home", "profile", "dashboard"},
             Shows(s), Push(t),
             UNCHANGED <<storeVars, queue, phoneVars, heard, reading, calls, history>>
      PROVE  IInv'
  <2>1. boot = "up" /\ stack # <<>> /\ Top.page # "login" /\ stack' = Append(stack, NewRoute(t))
    BY <1>4 DEF Shows, Push
  <2>2. NewRoute(t) \in Route /\ NewRoute(t).page # "login" /\ NewRoute(t).page # "profile"
    BY <1>1, NewRouteFacts DEF Tabs
  <2> QED
    BY <1>1, <1>4, <2>1, <2>2, StackOps, PageStep
<1>5. CASE OpenMenu
  BY <1>4, <1>5 DEF OpenMenu
<1>6. CASE OpenAdmin
  BY <1>4, <1>6 DEF OpenAdmin
<1>7. CASE ClientSide
  BY <1>4, <1>7 DEF ClientSide
<1>8. CASE Back \/ OrderDone
  <2>1. /\ boot = "up" /\ stack # <<>> /\ stack' = Front(stack)
        /\ calls' = calls \/ Continue(calls)
        /\ UNCHANGED <<storeVars, queue, phoneVars, heard, reading, history>>
    BY <1>1, <1>8 DEF Back, OrderDone, Shows
  <2>2. Top.page # "login"
    <3>1. CASE Back
      BY <1>1, <3>1 DEF Back, Top, PagesInv, Index
    <3>2. CASE OrderDone
      BY <3>2 DEF OrderDone, Shows
    <3> QED
      BY <1>8, <3>1, <3>2
  <2>3. stack' \in Seq(Route) /\ \A i \in Index(stack') : i \in Index(stack) /\ stack'[i] = stack[i]
    <3>1. NewRoute("home") \in Route
      BY <1>1, NewRouteFacts DEF Tabs
    <3> QED
      BY <1>1, <2>1, <3>1, StackOps
  <2> QED
    BY <2>1, <2>2, <2>3, PageStep
<1>9. CASE Logout
  <2>1. /\ user' = Nobody /\ boot = "up" /\ stack # <<>> /\ stack[Len(stack)].page = "home"
        /\ UNCHANGED <<storeVars, queue, boot, setup, starter, pageVars, calls, history>>
    BY <1>9 DEF Logout, Shows, Top
  <2>2. TypeOK' /\ StartInv' /\ DocsInv'
    BY <2>1 DEF TypeOK, StartInv, DocsInv, TokenOnFile, Who, storeVars, pageVars, history
  <2>3. PagesInv'
    BY <2>1 DEF PagesInv, storeVars, pageVars, history
  <2> QED
    BY <2>2, <2>3
<1> QED
  BY <1>2, <1>3, <1>5, <1>6, <1>7, <1>8, <1>9 DEF Navigate

(* The first route when the gate builds another page, and the routes above it. *)
LEMMA GateShowsFacts ==
  ASSUME TypeOK, stack # <<>>, NEW t \in Pages, GateShows(t)
  PROVE  /\ stack' \in Seq(Route) /\ Len(stack') = Len(stack)
         /\ stack'[1].page = t
         /\ \A i \in Index(stack) : i # 1 => stack'[i] = stack[i]
<1> DEFINE r == [page |-> t, gate |-> TRUE, owner |-> Nobody]
<1>1. r \in Route /\ r.page = t
  BY DEF Route, Who
<1>2. stack' = [stack EXCEPT ![1] = r] /\ stack \in Seq(Route)
  BY DEF GateShows, TypeOK
<1> HIDE DEF r
<1> QED
  BY <1>1, <1>2, StackOps

(* The gate hears of a change, or ends its reading. *)
LEMMA GateInv ==
  ASSUME IInv, Gate
  PROVE  IInv'
<1> USE DEF IInv
<1>1. TypeOK /\ DocsInv /\ boot = "up" /\ stack # <<>>
  BY DEF Gate, GateHears, GateLoads, GateReadFails, GateThere
<1>2. /\ UNCHANGED <<storeVars, queue, phoneVars, history>>
      /\ calls' = calls \/ Continue(calls)
  BY DEF Gate, GateHears, GateLoads, GateReadFails
<1>3. 1 \in Index(stack) /\ Len(stack) \in Nat \ {0}
  BY <1>1 DEF TypeOK, Index
<1>4. \A c \in calls' : c \in Call /\ \E d \in calls : d.who = c.who /\ d.stage = c.stage
  <2>1. CASE calls' = calls
    BY <2>1 DEF TypeOK
  <2>2. CASE Continue(calls)
    BY <2>2 DEF Continue, TypeOK, Call
  <2> QED
    BY <1>2, <2>1, <2>2
<1>5. \A c \in calls : c.stage = "created" =>
        \E d \in calls' : d.who = c.who /\ d.stage = "created"
  <2>1. CASE calls' = calls
    BY <2>1
  <2>2. CASE Continue(calls)
    <3> SUFFICES ASSUME NEW c \in calls, c.stage = "created"
                 PROVE  \E d \in calls' : d.who = c.who /\ d.stage = "created"
      OBVIOUS
    <3> DEFINE d == [c EXCEPT !.mounted = @ /\ stack' # <<>> /\ stack'[1].page = "login"]
    <3>1. d \in calls'
      BY <2>2 DEF Continue
    <3>2. d.who = c.who /\ d.stage = "created"
      BY DEF TypeOK, Call
    <3> QED
      BY <3>1, <3>2
  <2> QED
    BY <1>2, <2>1, <2>2
<1>6. DocsInv'
  BY <1>1, <1>2, <1>4, <1>5, DocsFrame DEF storeVars, history
<1>7. StartInv'
  BY <1>1, <1>2 DEF StartInv, TokenOnFile, storeVars, phoneVars
(* What the first route shows, and that nobody was about to sign in. *)
<1>8. ASSUME NEW t \in Pages,
             stack' = stack \/ GateShows(t),
             t = "login" => heard' = Nobody /\ ~reading',
             t # "profile",
             heard' \in Who \cup {Unheard}, reading' \in BOOLEAN,
             \A i \in Index(stack) : i # 1 => stack[i].page # "login",
             stack' = stack /\ stack[1].page = "login" => heard' = Nobody /\ ~reading',
             ~overlap => \A c \in calls : ~Asks(c)
      PROVE  TypeOK' /\ PagesInv'
  <2>1. stack' \in Seq(Route) /\ Len(stack') = Len(stack) /\ Index(stack') = Index(stack)
    BY <1>1, <1>8, GateShowsFacts DEF TypeOK, Index
  <2>2. \A i \in Index(stack) : stack'[i] = stack[i] \/ (i = 1 /\ stack'[i].page = t)
    BY <1>1, <1>8, GateShowsFacts
  <2>3. TypeOK'
    BY <1>2, <1>4, <1>8, <2>1 DEF TypeOK, storeVars, phoneVars, history
  <2>4. \A i \in Index(stack') : stack'[i].page = "login" => i = 1 /\ heard' = Nobody /\ ~reading'
    <3> SUFFICES ASSUME NEW i \in Index(stack), stack'[i].page = "login"
                 PROVE  i = 1 /\ heard' = Nobody /\ ~reading'
      BY <2>1
    <3>1. i = 1
      BY <1>8, <2>2
    <3>2. CASE stack' = stack
      BY <1>8, <3>1, <3>2
    <3>3. CASE GateShows(t)
      BY <1>1, <1>8, <3>1, <3>3, GateShowsFacts
    <3> QED
      BY <1>8, <3>1, <3>2, <3>3
  <2>5. ~overlap => \A c \in calls' : ~Asks(c)
    BY <1>4, <1>8 DEF Asks
  <2>6. ~overlap => \A i \in Index(stack') :
          stack'[i].page = "profile" => stack'[i].owner = user \/ user = Nobody
    BY <1>8, <2>1, <2>2 DEF PagesInv
  <2> QED
    BY <1>2, <2>3, <2>4, <2>5, <2>6 DEF PagesInv, phoneVars, history
<1>9. \A i \in Index(stack) : i # 1 => stack[i].page # "login"
  BY DEF PagesInv
<1>10. CASE GateHears
  <2>1. heard # user /\ heard' = user /\ reading' = (user # Nobody)
    BY <1>10 DEF GateHears
  <2>2. heard' \in Who \cup {Unheard} /\ reading' \in BOOLEAN
    BY <1>1, <2>1 DEF TypeOK
  <2>3. ~overlap => \A c \in calls : ~Asks(c)
    BY <1>3, <2>1 DEF PagesInv
  <2>4. CASE user = Nobody /\ GateShows("login")
    BY <1>6, <1>7, <1>8, <1>9, <2>1, <2>2, <2>3, <2>4 DEF Pages
  <2>5. CASE user # Nobody /\ GateShows("loading")
    <3>1. stack' = stack /\ stack[1].page = "login" => FALSE
      BY <1>1, <2>5, GateShowsFacts DEF Pages
    <3> QED
      BY <1>6, <1>7, <1>8, <1>9, <2>1, <2>2, <2>3, <2>5, <3>1 DEF Pages
  <2>6. CASE stack[1].page \in Tabs /\ stack' = stack
    BY <1>6, <1>7, <1>8, <1>9, <2>1, <2>2, <2>3, <2>6 DEF Pages, Tabs
  <2> QED
    BY <1>6, <1>7, <1>10, <2>4, <2>5, <2>6 DEF GateHears
<1>11. CASE GateLoads \/ GateReadFails
  <2>1. reading /\ reading' = FALSE /\ heard' = heard
    BY <1>11 DEF GateLoads, GateReadFails
  <2>2. stack[1].page # "login"
    BY <1>3, <2>1 DEF PagesInv
  <2>3. ~overlap => \A c \in calls : ~Asks(c)
    BY <2>2 DEF PagesInv
  <2>4. PICK t \in {"home", "loading"} : stack' = stack \/ GateShows(t)
    BY <1>11 DEF GateLoads, GateReadFails
  <2>5. t \in Pages /\ t # "login" /\ t # "profile"
    BY DEF Pages, Tabs
  <2>6. heard' \in Who \cup {Unheard} /\ reading' \in BOOLEAN
    BY <1>1, <2>1 DEF TypeOK
  <2> QED
    BY <1>6, <1>7, <1>8, <1>9, <2>2, <2>3, <2>4, <2>5, <2>6
<1> QED
  BY <1>10, <1>11 DEF Gate

(* Somebody taps on the sign-in page, which is then all there is. *)
LEMMA TapInv ==
  ASSUME IInv, NEW u \in Accounts, TapLogin(u) \/ TapSignup(u)
  PROVE  IInv'
<1> USE DEF IInv
<1>1. PICK stage \in {"signing", "creating"} : TapCall(u, stage)
  BY DEF TapLogin, TapSignup
<1> DEFINE c == [who |-> u, stage |-> stage, mounted |-> TRUE]
<1>2. /\ boot = "up" /\ stack # <<>> /\ Top.page = "login"
      /\ calls' = calls \cup {c}
      /\ overlap' = (overlap \/ calls # {} \/ user # Nobody)
      /\ UNCHANGED <<storeVars, queue, phoneVars, pageVars, cut>>
  BY <1>1 DEF TapCall, Shows
<1>3. c \in Call /\ c.stage = stage
  BY DEF Call
<1> HIDE DEF c
<1>4. TypeOK'
  BY <1>2, <1>3 DEF TypeOK, storeVars, phoneVars, pageVars
<1>5. StartInv'
  BY <1>2 DEF StartInv, TokenOnFile, storeVars, phoneVars, pageVars
<1>6. DocsInv'
  BY <1>2, <1>3 DEF DocsInv, storeVars
<1>7. PagesInv'
  <2>1. Len(stack) = 1 /\ stack[1].page = "login"
    <3>1. stack \in Seq(Route) /\ stack # <<>> /\ stack[Len(stack)].page = "login"
      BY <1>2 DEF Top, TypeOK
    <3>2. Len(stack) \in Index(stack)
      BY <3>1 DEF Index
    <3>3. Len(stack) = 1
      BY <3>1, <3>2 DEF PagesInv
    <3> QED
      BY <3>1, <3>3
  <2>2. ~overlap' => user = Nobody /\ \A d \in calls' : d = c
    BY <1>2
  <2> QED
    BY <1>2, <2>1, <2>2 DEF PagesInv, Index, phoneVars, pageVars
<1> QED
  BY <1>4, <1>5, <1>6, <1>7

(* A call fails, or somebody is signed in: nothing is above the sign-in page. *)
LEMMA AnswerInv ==
  ASSUME IInv, NEW c \in calls, CallFails(c) \/ LoginDone(c) \/ SignupCreated(c)
  PROVE  IInv'
<1> USE DEF IInv
<1>1. Asks(c) /\ c \in Call /\ boot = "up"
  BY DEF CallFails, LoginDone, SignupCreated, Asks, TypeOK, StartInv
<1>2. CASE CallFails(c)
  <2>1. calls' = calls \ {c} /\ UNCHANGED <<storeVars, queue, phoneVars, pageVars, history>>
    BY <1>2 DEF CallFails
  <2>2. TypeOK' /\ StartInv'
    BY <2>1 DEF TypeOK, StartInv, TokenOnFile, storeVars, phoneVars, pageVars, history
  <2>3. DocsInv'
    BY <1>1, <2>1 DEF DocsInv, Asks, storeVars, history
  <2>4. PagesInv'
    BY <2>1 DEF PagesInv, phoneVars, pageVars, history
  <2> QED
    BY <2>2, <2>3, <2>4
<1>3. ~overlap => \A i \in Index(stack) : stack[i].page # "profile"
  BY <1>1 DEF PagesInv, Index
<1>4. CASE LoginDone(c)
  <2>1. /\ calls' = calls \ {c} /\ user' = c.who
        /\ UNCHANGED <<storeVars, queue, boot, setup, starter, pageVars, history>>
    BY <1>4 DEF LoginDone
  <2>2. TypeOK' /\ StartInv'
    BY <1>1, <2>1 DEF TypeOK, StartInv, TokenOnFile, Call, Who, storeVars, pageVars, history
  <2>3. DocsInv'
    BY <1>1, <2>1 DEF DocsInv, Asks, storeVars, history
  <2>4. ~overlap => calls' = {}
    BY <1>1, <2>1 DEF PagesInv
  <2>5. PagesInv'
    BY <1>3, <2>1, <2>4 DEF PagesInv, pageVars, history
  <2> QED
    BY <2>2, <2>3, <2>5
<1>5. CASE SignupCreated(c)
  <2> DEFINE d == [c EXCEPT !.stage = "created"]
  <2>1. /\ accounts' = accounts \cup {c.who} /\ user' = c.who
        /\ calls' = (calls \ {c}) \cup {d}
        /\ UNCHANGED <<documents, tokens, queue, boot, setup, starter, pageVars, history>>
    BY <1>5 DEF SignupCreated
  <2>2. d \in Call /\ d.who = c.who /\ d.stage = "created" /\ c.who \in Accounts
    BY <1>1 DEF Call
  <2> HIDE DEF d
  <2>3. TypeOK' /\ StartInv'
    BY <1>1, <2>1, <2>2 DEF TypeOK, StartInv, TokenOnFile, Who, pageVars, history
  <2>4. DocsInv'
    BY <1>1, <2>1, <2>2 DEF DocsInv, Asks, history
  <2>5. ~overlap => \A e \in calls' : ~Asks(e)
    BY <1>1, <2>1, <2>2 DEF PagesInv, Asks
  <2>6. PagesInv'
    BY <1>3, <2>1, <2>5 DEF PagesInv, pageVars, history
  <2> QED
    BY <2>3, <2>4, <2>6
<1> QED
  BY <1>2, <1>4, <1>5

(* The rest of a sign-up: its document goes from the call to the queue. *)
LEMMA SignupInv ==
  ASSUME IInv, NEW c \in calls, SignupWrites(c) \/ SignupDone(c)
  PROVE  IInv'
<1> USE DEF IInv
<1>1. TypeOK /\ c \in Call /\ ~Asks(c) /\ boot = "up"
  BY DEF SignupWrites, SignupDone, Asks, TypeOK, StartInv
<1>2. ~overlap => \A d \in calls : ~Asks(d)
  BY <1>1 DEF PagesInv
<1>3. CASE SignupWrites(c)
  <2> DEFINE d == [c EXCEPT !.stage = "writing"]
  <2>1. /\ c.stage = "created" /\ c.who \in accounts /\ Enqueue(c.who, "document")
        /\ calls' = (calls \ {c}) \cup {d}
        /\ UNCHANGED <<storeVars, phoneVars, pageVars, history>>
    BY <1>3 DEF SignupWrites, DocsInv
  <2>2. d \in Call /\ d.who = c.who /\ d.stage = "writing" /\ c.who \in Accounts
    BY <1>1 DEF Call
  <2> HIDE DEF d
  <2>3. /\ queue' \in [Accounts -> Seq(WriteKinds)]
        /\ \A v \in Accounts : \A i \in Index(queue'[v]) :
             \/ i \in Index(queue[v]) /\ queue'[v][i] = queue[v][i]
             \/ v = c.who /\ i = Len(queue[c.who]) + 1 /\ queue'[v][i] = "document"
        /\ \A v \in Accounts : \A i \in Index(queue[v]) :
             i \in Index(queue'[v]) /\ queue'[v][i] = queue[v][i]
        /\ Len(queue[c.who]) + 1 \in Index(queue'[c.who])
        /\ queue'[c.who][Len(queue[c.who]) + 1] = "document"
    BY <1>1, <2>1, <2>2, EnqueueEntries DEF WriteKinds
  <2>4. TypeOK'
    BY <2>1, <2>2, <2>3 DEF TypeOK, storeVars, phoneVars, pageVars, history
  <2>5. StartInv'
    BY <1>1, <2>1, <2>3 DEF StartInv, TokenOnFile, storeVars, phoneVars, pageVars
  <2>6. DocsInv'
    <3>1. \A e \in calls' : e.stage \in {"created", "writing"} => e.who \in accounts'
      BY <2>1, <2>2 DEF DocsInv, storeVars
    <3>2. \A u \in Accounts : \A i \in Index(queue'[u]) :
            queue'[u][i] = "document" => u \in accounts'
      BY <2>1, <2>3 DEF DocsInv, storeVars
    <3>3. ASSUME NEW u \in accounts \ (documents \cup cut)
          PROVE  \/ \E e \in calls' : e.who = u /\ e.stage = "created"
                 \/ \E i \in Index(queue'[u]) : queue'[u][i] = "document"
      <4>1. u \in Accounts
        BY <1>1 DEF TypeOK
      <4>2. CASE u = c.who
        BY <2>3, <4>2
      <4>3. CASE u # c.who
        BY <2>1, <2>3, <4>1, <4>3 DEF DocsInv
      <4> QED
        BY <4>2, <4>3
    <3> QED
      BY <2>1, <3>1, <3>2, <3>3 DEF DocsInv, storeVars, history
  <2>7. PagesInv'
    BY <1>2, <2>1, <2>2 DEF PagesInv, Asks, phoneVars, pageVars, history
  <2> QED
    BY <2>4, <2>5, <2>6, <2>7
<1>4. CASE SignupDone(c)
  <2>1. /\ c.stage = "writing" /\ Continue(calls \ {c})
        /\ UNCHANGED <<storeVars, queue, phoneVars, heard, reading, history>>
        /\ stack' = stack \/ stack' = [stack EXCEPT ![Len(stack)] = NewRoute("home")]
    BY <1>4 DEF SignupDone
  <2>2. \A e \in calls' : e \in Call /\ \E d \in calls : d.who = e.who /\ d.stage = e.stage
    <3> SUFFICES ASSUME NEW e \in calls'
                 PROVE  e \in Call /\ \E d \in calls : d.who = e.who /\ d.stage = e.stage
      OBVIOUS
    <3>1. PICK d \in calls \ {c} :
            e = [d EXCEPT !.mounted = @ /\ stack' # <<>> /\ stack'[1].page = "login"]
      BY <2>1 DEF Continue
    <3>2. d \in Call
      BY DEF TypeOK
    <3> QED
      BY <3>1, <3>2 DEF Call
  <2>3. \A e \in calls : e.stage = "created" =>
          \E d \in calls' : d.who = e.who /\ d.stage = "created"
    <3> SUFFICES ASSUME NEW e \in calls, e.stage = "created"
                 PROVE  \E d \in calls' : d.who = e.who /\ d.stage = "created"
      OBVIOUS
    <3> DEFINE d == [e EXCEPT !.mounted = @ /\ stack' # <<>> /\ stack'[1].page = "login"]
    <3>1. d \in calls'
      BY <2>1 DEF Continue
    <3>2. d.who = e.who /\ d.stage = "created"
      BY DEF TypeOK, Call
    <3> QED
      BY <3>1, <3>2
  <2>4. NewRoute("home") \in Route /\ NewRoute("home").page = "home"
    BY <1>1, NewRouteFacts DEF Tabs
  <2>5. /\ stack' \in Seq(Route)
        /\ \A i \in Index(stack') :
             (i \in Index(stack) /\ stack'[i] = stack[i]) \/ stack'[i] = NewRoute("home")
    <3>1. stack \in Seq(Route)
      BY DEF TypeOK
    <3>2. CASE stack' = stack
      BY <3>1, <3>2
    <3>3. CASE stack' = [stack EXCEPT ![Len(stack)] = NewRoute("home")]
      <4> DEFINE r == NewRoute("home")
      <4>1. r \in Route /\ stack' = [stack EXCEPT ![Len(stack)] = r]
        BY <2>4, <3>3
      <4> HIDE DEF r
      <4>2. stack' \in Seq(Route) /\ Len(stack') = Len(stack)
        <5> DEFINE n == Len(stack)
        <5>1. n \in Nat /\ stack \in [1..n -> Route]
          BY <3>1
        <5>2. stack' = [stack EXCEPT ![n] = r]
          BY <4>1
        <5> HIDE DEF n
        <5>3. stack' \in [1..n -> Route]
          BY <4>1, <5>1, <5>2
        <5>4. stack' \in Seq(Route) /\ Len(stack') = n
          BY <5>1, <5>3
        <5> QED
          BY <5>4 DEF n
      <4>3. \A i \in Index(stack') : stack'[i] = stack[i] \/ stack'[i] = r
        BY <3>1, <4>1, <4>2 DEF Index
      <4> QED
        BY <4>2, <4>3 DEF Index, r
    <3> QED
      BY <2>1, <3>2, <3>3
  <2>6. TypeOK'
    BY <2>1, <2>2, <2>5 DEF TypeOK, storeVars, phoneVars, history
  <2>7. StartInv'
    BY <1>1, <2>1 DEF StartInv, TokenOnFile, storeVars, phoneVars
  <2>8. DocsInv'
    BY <1>1, <2>1, <2>2, <2>3, DocsFrame DEF storeVars, history
  <2>9. PagesInv'
    <3>1. ~overlap => \A d \in calls' : ~Asks(d)
      BY <1>2, <2>2 DEF Asks
    <3> QED
      BY <2>1, <2>4, <2>5, <3>1 DEF PagesInv, phoneVars, history
  <2> QED
    BY <2>6, <2>7, <2>8, <2>9
<1> QED
  BY <1>3, <1>4

(* The server takes a write: main() goes on when it is the one it waits for. *)
LEMMA DeliverInv ==
  ASSUME IInv, NEW u \in Accounts, Deliver(u)
  PROVE  IInv'
<1> USE DEF IInv
<1> DEFINE kind == queue[u][1]
<1>1. TypeOK /\ user = u /\ queue[u] # <<>> /\ queue' = [queue EXCEPT ![u] = Tail(@)]
  BY DEF Deliver, Sends
<1>2. /\ queue' \in [Accounts -> Seq(WriteKinds)]
      /\ \A v \in Accounts : v # u => queue'[v] = queue[v]
      /\ Head(queue[u]) = kind /\ 1 \in Index(queue[u])
      /\ kind \in WriteKinds
      /\ \A i \in Index(queue'[u]) :
           i \in Nat /\ i # 0 /\ i + 1 \in Index(queue[u]) /\ queue'[u][i] = queue[u][i + 1]
      /\ \A i \in Index(queue[u]) :
           i # 1 => i - 1 \in Index(queue'[u]) /\ queue'[u][i - 1] = queue[u][i]
  BY <1>1, TailEntries
<1>3. /\ documents' = IF kind = "document" THEN documents \cup {u} ELSE documents
      /\ tokens' = IF kind = "document" THEN tokens ELSE tokens \cup {u}
      /\ IF kind = "start" THEN RunApp ELSE UNCHANGED <<boot, setup, stack>>
      /\ UNCHANGED <<accounts, user, starter, heard, reading, calls, history>>
  BY <1>2 DEF Deliver
<1> HIDE DEF kind
<1>4. kind = "document" => u \in accounts
  BY <1>2 DEF kind, DocsInv
<1>5. kind = "start" => boot = "saving" /\ u = starter /\ calls = {}
  BY <1>2 DEF kind, StartInv
<1>6. kind = "start" =>
        boot' = "up" /\ setup' = "asking" /\ stack' \in Seq(Route)
        /\ Len(stack') = 1 /\ stack'[1].page = "loading"
  BY <1>3, RunAppFacts
<1>7. TypeOK'
  BY <1>2, <1>3, <1>4, <1>6 DEF TypeOK, history
<1>8. \A v \in Accounts : \A i \in Index(queue'[v]) : queue'[v][i] = "start" =>
        boot = "saving" /\ v = starter /\ kind # "start"
  <2> SUFFICES ASSUME NEW v \in Accounts, NEW i \in Index(queue'[v]), queue'[v][i] = "start"
               PROVE  boot = "saving" /\ v = starter /\ kind # "start"
    OBVIOUS
  <2>1. CASE v # u
    BY <1>2, <1>5, <2>1 DEF StartInv
  <2>2. CASE v = u
    <3>1. i + 1 \in Index(queue[u]) /\ queue[u][i + 1] = "start" /\ i + 1 # 1
      BY <1>2, <2>2
    <3> QED
      BY <1>2, <2>2, <3>1 DEF StartInv, kind
  <2> QED
    BY <2>1, <2>2
<1>9. \A v \in Accounts : \A i, j \in Index(queue'[v]) :
        queue'[v][i] = "start" /\ queue'[v][j] = "start" => i = j
  <2> SUFFICES ASSUME NEW v \in Accounts, NEW i \in Index(queue'[v]), NEW j \in Index(queue'[v]),
                      queue'[v][i] = "start", queue'[v][j] = "start"
               PROVE  i = j
    OBVIOUS
  <2>1. CASE v # u
    BY <1>2, <2>1 DEF StartInv
  <2>2. CASE v = u
    <3>1. i + 1 = j + 1
      BY <1>2, <2>2 DEF StartInv
    <3> QED
      BY <1>2, <2>2, <3>1
  <2> QED
    BY <2>1, <2>2
<1>10. StartInv'
  <2>1. CASE kind = "start"
    BY <1>3, <1>5, <1>6, <1>8, <1>9, <2>1 DEF StartInv, TokenOnFile
  <2>2. CASE kind # "start"
    BY <1>3, <1>8, <1>9, <2>2 DEF StartInv, TokenOnFile
  <2> QED
    BY <2>1, <2>2
<1>11. DocsInv'
  <2>1. \A v \in Accounts : \A i \in Index(queue'[v]) :
          queue'[v][i] = "document" => v \in accounts'
    BY <1>2, <1>3 DEF DocsInv
  <2>2. ASSUME NEW v \in accounts \ (documents' \cup cut)
        PROVE  \/ \E c \in calls : c.who = v /\ c.stage = "created"
               \/ \E i \in Index(queue'[v]) : queue'[v][i] = "document"
    <3>1. v \in Accounts /\ v \notin documents \cup cut
      BY <1>3 DEF TypeOK
    <3>2. CASE \E c \in calls : c.who = v /\ c.stage = "created"
      BY <3>2
    <3>3. CASE \E i \in Index(queue[v]) : queue[v][i] = "document"
      <4>1. PICK i \in Index(queue[v]) : queue[v][i] = "document"
        BY <3>3
      <4>2. CASE v # u
        BY <1>2, <3>1, <4>1, <4>2
      <4>3. CASE v = u /\ i = 1
        BY <1>3, <4>1, <4>3 DEF kind
      <4>4. CASE v = u /\ i # 1
        <5>1. i - 1 \in Index(queue'[v]) /\ queue'[v][i - 1] = "document"
          BY <1>2, <4>1, <4>4
        <5> QED
          BY <5>1
      <4> QED
        BY <4>2, <4>3, <4>4
    <3> QED
      BY <3>1, <3>2, <3>3 DEF DocsInv
  <2> QED
    BY <1>3, <2>1, <2>2 DEF DocsInv, history
<1>12. PagesInv'
  <2>1. CASE kind = "start"
    <3>1. \A i \in Index(stack') : i = 1 /\ stack'[i].page = "loading"
      <4>1. Index(stack') = 1..1
        BY <1>6, <2>1 DEF Index
      <4> QED
        BY <1>6, <2>1, <4>1
    <3>2. calls' = {}
      BY <1>3, <1>5, <2>1
    <3> QED
      BY <3>1, <3>2 DEF PagesInv
  <2>2. CASE kind # "start"
    BY <1>3, <2>2 DEF PagesInv, history
  <2> QED
    BY <2>1, <2>2
<1> QED
  BY <1>7, <1>10, <1>11, <1>12

(* The server turns a write down: the sign-up it belongs to was cut. *)
LEMMA RefuseInv ==
  ASSUME IInv, NEW u \in Accounts, Refuse(u)
  PROVE  IInv'
<1> USE DEF IInv
<1> DEFINE kind == queue[u][1]
<1>1. TypeOK /\ user = u /\ queue[u] # <<>> /\ queue' = [queue EXCEPT ![u] = Tail(@)]
  BY DEF Refuse, Sends
<1>2. /\ queue' \in [Accounts -> Seq(WriteKinds)]
      /\ \A v \in Accounts : v # u => queue'[v] = queue[v]
      /\ Head(queue[u]) = kind /\ 1 \in Index(queue[u])
      /\ kind \in WriteKinds
      /\ \A i \in Index(queue'[u]) :
           i \in Nat /\ i # 0 /\ i + 1 \in Index(queue[u]) /\ queue'[u][i] = queue[u][i + 1]
      /\ \A i \in Index(queue[u]) :
           i # 1 => i - 1 \in Index(queue'[u]) /\ queue'[u][i - 1] = queue[u][i]
  BY <1>1, TailEntries
<1>3. /\ cut' = IF kind = "document" THEN cut \cup {u} ELSE cut
      /\ calls' = {c \in calls : ~(kind = "document" /\ c.who = u /\ c.stage = "writing")}
      /\ boot' = IF kind = "start" THEN "stuck" ELSE boot
      /\ UNCHANGED <<storeVars, user, setup, starter, pageVars, overlap>>
  BY <1>2 DEF Refuse
<1> HIDE DEF kind
<1>4. kind = "start" => boot = "saving" /\ u = starter
  BY <1>2 DEF kind, StartInv
<1>5. calls' \subseteq calls /\ \A c \in calls : c.stage = "created" => c \in calls'
  BY <1>3
<1>6. TypeOK'
  BY <1>2, <1>3, <1>5 DEF TypeOK, storeVars, pageVars
<1>7. \A v \in Accounts : \A i \in Index(queue'[v]) : queue'[v][i] = "start" =>
        boot = "saving" /\ v = starter /\ kind # "start"
  <2> SUFFICES ASSUME NEW v \in Accounts, NEW i \in Index(queue'[v]), queue'[v][i] = "start"
               PROVE  boot = "saving" /\ v = starter /\ kind # "start"
    OBVIOUS
  <2>1. CASE v # u
    BY <1>2, <1>4, <2>1 DEF StartInv
  <2>2. CASE v = u
    <3>1. i + 1 \in Index(queue[u]) /\ queue[u][i + 1] = "start" /\ i + 1 # 1
      BY <1>2, <2>2
    <3> QED
      BY <1>2, <2>2, <3>1 DEF StartInv, kind
  <2> QED
    BY <2>1, <2>2
<1>8. \A v \in Accounts : \A i, j \in Index(queue'[v]) :
        queue'[v][i] = "start" /\ queue'[v][j] = "start" => i = j
  <2> SUFFICES ASSUME NEW v \in Accounts, NEW i \in Index(queue'[v]), NEW j \in Index(queue'[v]),
                      queue'[v][i] = "start", queue'[v][j] = "start"
               PROVE  i = j
    OBVIOUS
  <2>1. CASE v # u
    BY <1>2, <2>1 DEF StartInv
  <2>2. CASE v = u
    <3>1. i + 1 = j + 1
      BY <1>2, <2>2 DEF StartInv
    <3> QED
      BY <1>2, <2>2, <3>1
  <2> QED
    BY <2>1, <2>2
<1>9. StartInv'
  <2>1. boot # "up" => calls' = {} /\ stack' = <<>>
    BY <1>3, <1>5 DEF StartInv, pageVars
  <2> QED
    BY <1>3, <1>4, <1>7, <1>8, <2>1 DEF StartInv, TokenOnFile, storeVars, pageVars
<1>10. DocsInv'
  <2>1. \A v \in Accounts : \A i \in Index(queue'[v]) :
          queue'[v][i] = "document" => v \in accounts'
    BY <1>2, <1>3 DEF DocsInv, storeVars
  <2>2. ASSUME NEW v \in accounts \ (documents \cup cut')
        PROVE  \/ \E c \in calls' : c.who = v /\ c.stage = "created"
               \/ \E i \in Index(queue'[v]) : queue'[v][i] = "document"
    <3>1. v \in Accounts /\ v \notin documents \cup cut
      BY <1>3 DEF TypeOK
    <3>2. CASE \E c \in calls : c.who = v /\ c.stage = "created"
      BY <1>5, <3>2
    <3>3. CASE \E i \in Index(queue[v]) : queue[v][i] = "document"
      <4>1. PICK i \in Index(queue[v]) : queue[v][i] = "document"
        BY <3>3
      <4>2. CASE v # u
        BY <1>2, <3>1, <4>1, <4>2
      <4>3. CASE v = u /\ i = 1
        BY <1>3, <4>1, <4>3 DEF kind
      <4>4. CASE v = u /\ i # 1
        <5>1. i - 1 \in Index(queue'[v]) /\ queue'[v][i - 1] = "document"
          BY <1>2, <4>1, <4>4
        <5> QED
          BY <5>1
      <4> QED
        BY <4>2, <4>3, <4>4
    <3> QED
      BY <3>1, <3>2, <3>3 DEF DocsInv
  <2> QED
    BY <1>3, <1>5, <2>1, <2>2 DEF DocsInv, storeVars
<1>11. PagesInv'
  BY <1>3, <1>5 DEF PagesInv, pageVars
<1> QED
  BY <1>6, <1>9, <1>10, <1>11

(* The app ends: what is in the queues is what is left of it. *)
LEMMA KillInv ==
  ASSUME IInv, Kill
  PROVE  IInv'
<1> USE DEF IInv
<1>1. /\ boot' = "off" /\ setup' = "none" /\ starter' = Nobody /\ stack' = <<>>
      /\ heard' = Unheard /\ reading' = FALSE /\ calls' = {} /\ overlap' = FALSE
      /\ cut' = cut \cup {c.who : c \in {d \in calls : d.stage = "created"}}
      /\ UNCHANGED <<storeVars, user>>
  BY DEF Kill
<1>2. \A u \in Accounts :
        /\ queue'[u] \in Seq(WriteKinds) /\ Index(queue'[u]) = Index(queue[u])
        /\ \A i \in Index(queue[u]) :
             queue'[u][i] = IF queue[u][i] = "start" THEN "token" ELSE queue[u][i]
  <2> SUFFICES ASSUME NEW u \in Accounts
               PROVE  /\ queue'[u] \in Seq(WriteKinds) /\ Index(queue'[u]) = Index(queue[u])
                      /\ \A i \in Index(queue[u]) :
                           queue'[u][i] = IF queue[u][i] = "start" THEN "token" ELSE queue[u][i]
    OBVIOUS
  <2> DEFINE q == queue[u]
             k(i) == IF q[i] = "start" THEN "token" ELSE q[i]
  <2>1. q \in Seq(WriteKinds) /\ Len(q) \in Nat /\ DOMAIN q = 1..Len(q)
    BY DEF TypeOK
  <2>2. queue'[u] = [i \in 1..Len(q) |-> k(i)]
    BY <2>1 DEF Kill
  <2>3. \A i \in 1..Len(q) : k(i) \in WriteKinds
    BY <2>1 DEF WriteKinds
  <2> HIDE DEF q, k
  <2>4. queue'[u] \in Seq(WriteKinds) /\ Len(queue'[u]) = Len(q)
    BY <2>1, <2>2, <2>3
  <2>5. \A i \in 1..Len(q) : queue'[u][i] = k(i)
    BY <2>2
  <2> QED
    BY <2>4, <2>5 DEF Index, q, k
<1>3. queue' \in [Accounts -> Seq(WriteKinds)]
  <2>1. queue' = [u \in Accounts |-> queue'[u]]
    BY DEF Kill
  <2> QED
    BY <1>2, <2>1
<1>4. TypeOK'
  <2>1. stack' \in Seq(Route) /\ heard' \in Who \cup {Unheard} /\ starter' \in Who
    BY <1>1 DEF Who
  <2>2. cut' \subseteq Accounts
    BY <1>1 DEF TypeOK, Call
  <2> QED
    BY <1>1, <1>3, <2>1, <2>2 DEF TypeOK, storeVars
<1>5. StartInv'
  BY <1>1, <1>2 DEF StartInv, TokenOnFile
<1>6. DocsInv'
  <2>1. \A u \in Accounts : \A i \in Index(queue'[u]) :
          queue'[u][i] = "document" => u \in accounts'
    BY <1>1, <1>2 DEF DocsInv, storeVars
  <2>2. ASSUME NEW u \in accounts \ (documents \cup cut')
        PROVE  \E i \in Index(queue'[u]) : queue'[u][i] = "document"
    <3>1. u \in Accounts /\ u \notin documents \cup cut
      BY <1>1 DEF TypeOK
    <3>2. ~ \E c \in calls : c.who = u /\ c.stage = "created"
      BY <1>1
    <3>3. PICK i \in Index(queue[u]) : queue[u][i] = "document"
      BY <3>1, <3>2 DEF DocsInv
    <3> QED
      BY <1>2, <3>1, <3>3
  <2> QED
    BY <1>1, <2>1, <2>2 DEF DocsInv, storeVars
<1>7. PagesInv'
  BY <1>1 DEF PagesInv, Index
<1> QED
  BY <1>4, <1>5, <1>6, <1>7

-----------------------------------------------------------------------------
(* Every step keeps the invariant: one case per group of actions. *)
LEMMA NextInv == IInv /\ [Next]_vars => IInv'
<1> SUFFICES ASSUME IInv, [Next]_vars PROVE IInv'
  OBVIOUS
<1>1. CASE UNCHANGED vars
  BY <1>1 DEF vars, storeVars, phoneVars, pageVars, history, IInv, TypeOK, StartInv, DocsInv,
     PagesInv, TokenOnFile
<1>2. CASE Main
  BY <1>2, LaunchInv, TokenInv DEF Main
<1>3. ASSUME NEW u \in Accounts, TapLogin(u) \/ TapSignup(u) \/ Deliver(u) \/ Refuse(u)
      PROVE  IInv'
  BY <1>3, TapInv, DeliverInv, RefuseInv
<1>4. ASSUME NEW c \in calls, CallStep(c) PROVE IInv'
  BY <1>4, AnswerInv, SignupInv DEF CallStep
<1> QED
  BY <1>1, <1>2, <1>3, <1>4, GateInv, NavigateInv, KillInv DEF Next

(* The invariant holds in every state. *)
LEMMA Invariance == Spec => []IInv
  BY InitInv, NextInv, PTL DEF Spec

-----------------------------------------------------------------------------
(* What the gate shows follows from what it has heard, be it up to date or not. *)
GateBuilt ==
  /\ boot # "up" => heard = Unheard /\ ~reading
  /\ GateThere => /\ reading => heard # Nobody
                  /\ stack[1].page = "login" <=> heard = Nobody

(* The gate is built for an event or an answer. *)
LEMMA GateBuilds ==
  ASSUME IInv, GateBuilt, Gate
  PROVE  GateBuilt'
<1>1. boot = "up" /\ boot' = boot /\ stack \in Seq(Route) /\ stack # <<>> /\ stack[1].gate
  BY DEF Gate, GateHears, GateLoads, GateReadFails, GateThere, IInv, TypeOK, phoneVars
<1>2. Len(stack) \in Nat \ {0}
  BY <1>1
<1>3. ASSUME NEW p \in Pages, GateShows(p)
      PROVE  stack'[1].page = p
  <2> DEFINE r == [page |-> p, gate |-> TRUE, owner |-> Nobody]
  <2>1. r \in Route /\ r.page = p
    BY DEF Route, Who
  <2>2. stack' = [stack EXCEPT ![1] = r]
    BY <1>3 DEF GateShows
  <2> HIDE DEF r
  <2>3. stack'[1] = r
    BY <1>1, <2>1, <2>2, StackOps
  <2> QED
    BY <2>1, <2>3
<1>4. {"login", "loading", "home"} \subseteq Pages
  BY DEF Pages, Tabs
<1>5. stack[1].page = "login" => heard = Nobody /\ ~reading
  BY <1>1, <1>2 DEF IInv, PagesInv, Index
<1>6. CASE GateHears
  <2>1. CASE user = Nobody /\ GateShows("login")
    BY <1>1, <1>3, <1>4, <1>6, <2>1 DEF GateHears, GateBuilt
  <2>2. CASE user # Nobody /\ GateShows("loading")
    BY <1>1, <1>3, <1>4, <1>6, <2>2 DEF GateHears, GateBuilt
  <2>3. CASE user # Nobody /\ stack[1].page \in Tabs /\ stack' = stack
    BY <1>1, <1>6, <2>3 DEF GateHears, GateBuilt, Tabs
  <2> QED
    BY <1>6, <2>1, <2>2, <2>3 DEF GateHears
<1>7. CASE GateLoads
  <2>1. reading /\ ~reading' /\ heard' = heard /\ heard # Nobody /\ stack[1].page # "login"
    BY <1>5, <1>7 DEF GateLoads, GateBuilt
  <2>2. stack' = stack \/ GateShows("home")
    BY <1>7 DEF GateLoads
  <2>3. stack'[1].page # "login"
    BY <1>3, <1>4, <2>1, <2>2
  <2> QED
    BY <1>1, <2>1, <2>3 DEF GateBuilt
<1>8. CASE GateReadFails
  <2>1. ~reading' /\ heard' = heard /\ heard # Nobody /\ GateShows("loading")
    BY <1>8 DEF GateReadFails, GateBuilt
  <2> QED
    BY <1>1, <1>3, <1>4, <2>1 DEF GateBuilt
<1> QED
  BY <1>6, <1>7, <1>8 DEF Gate

(* Nothing else puts a sign-in page in the place of another first page of the *)
(* gate, or the other way round.                                            *)
LEMMA GateKept ==
  ASSUME IInv, GateBuilt, UNCHANGED <<heard, reading>>, boot' = boot,
         stack' = <<>> \/ ~stack'[1].gate \/ stack'[1] = stack[1]
           \/ (stack[1].gate /\ {stack[1].page, stack'[1].page} \subseteq Tabs),
         stack' # <<>> => stack # <<>>
  PROVE  GateBuilt'
  BY DEF GateBuilt, GateThere, Tabs

(* The user on the pages, the first of which may be the gate's. *)
LEMMA NavigateBuilt ==
  ASSUME IInv, GateBuilt, Navigate
  PROVE  GateBuilt'
<1>1. stack \in Seq(Route) /\ TypeOK
  BY DEF IInv, TypeOK
<1>3. CASE Logout
  BY <1>3, GateKept DEF Logout, pageVars
<1>4. ASSUME NEW t \in Tabs, SwitchTab(t) PROVE GateBuilt'
  <2> DEFINE n == Len(stack)
             r == [NewRoute(t) EXCEPT !.gate = Top.gate]
  <2>1. stack # <<>> /\ n \in Nat \ {0} /\ Top = stack[n] /\ Top.page \in Tabs
    BY <1>1, <1>4 DEF SwitchTab, Shows, Top
  <2>2. stack' = [stack EXCEPT ![n] = r] /\ UNCHANGED <<heard, reading>> /\ boot' = boot
    BY <1>4 DEF SwitchTab, phoneVars
  <2>3. r.page = t /\ r.gate = Top.gate
    BY DEF NewRoute
  <2>4. stack[1] \in Route
    BY <1>1, <2>1
  <2> HIDE DEF r
  <2>5. n \in 1..Len(stack) /\ 1 \in 1..Len(stack) /\ DOMAIN stack = 1..Len(stack)
    BY <1>1, <2>1
  <2>6. CASE n = 1
    <3>1. stack'[1] = r
      BY <2>2, <2>5, <2>6
    <3>2. ~stack'[1].gate \/ (stack[1].gate /\ {stack[1].page, stack'[1].page} \subseteq Tabs)
      BY <2>1, <2>3, <2>6, <3>1
    <3> QED
      BY <2>1, <2>2, <3>2, GateKept
  <2>7. CASE n # 1
    <3>1. stack'[1] = stack[1]
      BY <2>2, <2>5, <2>7
    <3> QED
      BY <2>1, <2>2, <3>1, GateKept
  <2> QED
    BY <2>6, <2>7
<1>5. ASSUME NEW t \in Tabs, MenuTab(t) PROVE GateBuilt'
  <2>1. stack' = <<NewRoute(t)>> /\ stack # <<>> /\ UNCHANGED <<heard, reading>> /\ boot' = boot
    BY <1>5 DEF MenuTab, Shows, phoneVars
  <2>2. ~stack'[1].gate
    BY <2>1 DEF NewRoute
  <2> QED
    BY <2>1, <2>2, GateKept
<1>6. CASE OpenMenu \/ OpenAdmin \/ ClientSide
  <2>1. PICK t \in {"menu", "dashboard", "home"} : Push(t)
    BY <1>6 DEF OpenMenu, OpenAdmin, ClientSide
  <2>2. stack # <<>> /\ UNCHANGED <<heard, reading>> /\ boot' = boot
    BY <1>6 DEF OpenMenu, OpenAdmin, ClientSide, Shows, phoneVars
  <2>3. NewRoute(t) \in Route
    BY <1>1, NewRouteFacts DEF Tabs
  <2>4. stack'[1] = stack[1]
    BY <1>1, <2>1, <2>2, <2>3 DEF Push
  <2> QED
    BY <2>2, <2>4, GateKept
<1>7. CASE Back \/ OrderDone
  <2>1. stack # <<>> /\ stack' = Front(stack) /\ UNCHANGED <<heard, reading>> /\ boot' = boot
    BY <1>1, <1>7 DEF Back, OrderDone, Shows, phoneVars
  <2>2. stack' \in Seq(Route) /\ \A i \in Index(stack') : stack'[i] = stack[i]
    <3>1. stack[1] \in Route
      BY <1>1, <2>1
    <3> QED
      BY <1>1, <2>1, <3>1, StackOps
  <2>3. stack' = <<>> \/ stack'[1] = stack[1]
    BY <2>2 DEF Index
  <2> QED
    BY <2>1, <2>3, GateKept
<1> QED
  BY <1>3, <1>4, <1>5, <1>6, <1>7 DEF Navigate

(* A call of the sign-in page ends, or goes on; one of its ends shows a page. *)
LEMMA CallBuilt ==
  ASSUME IInv, GateBuilt, NEW c \in calls, CallStep(c)
  PROVE  GateBuilt'
<1>1. CASE CallFails(c) \/ LoginDone(c) \/ SignupCreated(c) \/ SignupWrites(c)
  BY <1>1, GateKept DEF CallFails, LoginDone, SignupCreated, SignupWrites, phoneVars, pageVars
<1>2. CASE SignupDone(c) /\ stack' = stack
  BY <1>2, GateKept DEF SignupDone, phoneVars
<1>3. CASE SignupDone(c) /\ stack' = [stack EXCEPT ![Len(stack)] = NewRoute("home")]
  <2>1. UNCHANGED <<heard, reading>> /\ boot' = boot /\ stack \in Seq(Route) /\ ~NewRoute("home").gate
    BY <1>3 DEF SignupDone, phoneVars, IInv, TypeOK, NewRoute
  <2>2. CASE stack = <<>>
    <3>1. stack' = <<>>
      BY <1>3, <2>2
    <3> QED
      BY <2>1, <3>1, GateKept
  <2>3. CASE stack # <<>>
    <3>1. Len(stack) \in 1..Len(stack) /\ 1 \in 1..Len(stack) /\ DOMAIN stack = 1..Len(stack)
      BY <2>1, <2>3
    <3>2. stack'[1] = NewRoute("home") \/ stack'[1] = stack[1]
      BY <1>3, <3>1
    <3> QED
      BY <2>1, <2>3, <3>2, GateKept
  <2> QED
    BY <2>2, <2>3
<1> QED
  BY <1>1, <1>2, <1>3 DEF CallStep, SignupDone

(* Every step keeps what the gate shows in line with what it has heard. *)
LEMMA GateBuiltStep ==
  ASSUME IInv, GateBuilt, [Next]_vars
  PROVE  GateBuilt'
<1>1. CASE UNCHANGED vars
  BY <1>1 DEF vars, phoneVars, pageVars, GateBuilt, GateThere
<1>2. CASE Launch \/ StartThrows \/ SaveToken \/ SetupToken
  BY <1>2 DEF Launch, StartThrows, SaveToken, SetupToken, pageVars, GateBuilt, GateThere
<1>3. ASSUME RunApp, boot # "up", UNCHANGED <<heard, reading>> PROVE GateBuilt'
  BY <1>3, RunAppFacts, SessionAssumption DEF GateBuilt, Who
<1>4. CASE SkipToken
  BY <1>3, <1>4 DEF SkipToken
<1>5. CASE Kill
  BY <1>5 DEF Kill, GateBuilt, GateThere
<1>6. ASSUME NEW u \in Accounts, TapLogin(u) \/ TapSignup(u) PROVE GateBuilt'
  BY <1>6, GateKept DEF TapLogin, TapSignup, TapCall, phoneVars, pageVars
<1>7. ASSUME NEW u \in Accounts, Sends(u), Head(queue[u]) = "start" PROVE boot # "up"
  <2>1. queue[u] # <<>> /\ queue[u] \in Seq(WriteKinds)
    BY <1>7 DEF Sends, IInv, TypeOK
  <2>2. 1 \in Index(queue[u]) /\ queue[u][1] = "start"
    BY <1>7, <2>1, TailOf DEF Index
  <2> QED
    BY <2>2 DEF IInv, StartInv
<1>8. ASSUME NEW u \in Accounts, Deliver(u) PROVE GateBuilt'
  <2>1. CASE Head(queue[u]) = "start"
    <3>1. RunApp /\ UNCHANGED <<heard, reading>>
      BY <1>8, <2>1 DEF Deliver
    <3> QED
      BY <1>3, <1>7, <1>8, <2>1, <3>1 DEF Deliver
  <2>2. CASE Head(queue[u]) # "start"
    BY <1>8, <2>2, GateKept DEF Deliver
  <2> QED
    BY <2>1, <2>2
<1>9. ASSUME NEW u \in Accounts, Refuse(u) PROVE GateBuilt'
  <2>1. UNCHANGED pageVars /\ (boot' = boot \/ (boot' = "stuck" /\ boot # "up"))
    <3>1. Sends(u) /\ UNCHANGED pageVars
          /\ boot' = IF Head(queue[u]) = "start" THEN "stuck" ELSE boot
      BY <1>9 DEF Refuse
    <3> QED
      BY <1>7, <3>1
  <2> QED
    BY <2>1 DEF pageVars, GateBuilt, GateThere
<1> QED
  BY <1>1, <1>2, <1>4, <1>5, <1>6, <1>8, <1>9, GateBuilds, NavigateBuilt, CallBuilt DEF Next, Main

(* Once it has heard of the user, the gate shows the sign-in page to nobody   *)
(* but who is signed out, whatever was above it meanwhile.                  *)
THEOREM GateSettledHolds == Spec => []GateSettled
<1>1. Init => GateBuilt
  BY DEF Init, GateBuilt, GateThere
<1>2. IInv /\ GateBuilt /\ [Next]_vars => GateBuilt'
  BY GateBuiltStep
<1>3. GateBuilt => GateSettled
  BY DEF GateBuilt, GateSettled
<1> QED
  BY <1>1, <1>2, <1>3, Invariance, PTL DEF Spec

-----------------------------------------------------------------------------
(* What main() waits for, said with the indices of the queue. *)
Awaited ==
  boot = "saving" => \E i \in Index(queue[user]) : queue[user][i] = "start"

(* It is put there when main() begins to wait. *)
LEMMA AwaitedBegins ==
  ASSUME IInv, Awaited, SaveToken \/ SetupToken
  PROVE  Awaited'
<1>1. TypeOK
  BY DEF IInv
<1>2. CASE SaveToken
  <2>1. user \in Accounts /\ "start" \in WriteKinds /\ Enqueue(user, "start") /\ user' = user
    BY <1>1, <1>2 DEF SaveToken, TypeOK, Who, WriteKinds
  <2>2. Len(queue[user]) + 1 \in Index(queue'[user])
        /\ queue'[user][Len(queue[user]) + 1] = "start"
    BY <1>1, <2>1, EnqueueEntries
  <2> QED
    BY <2>1, <2>2 DEF Awaited
<1>3. CASE SetupToken /\ queue' = queue
  BY <1>3 DEF SetupToken, Awaited
<1>4. CASE SetupToken /\ queue' # queue
  <2>1. user \in Accounts /\ "token" \in WriteKinds /\ Enqueue(user, "token")
        /\ UNCHANGED <<user, boot>>
    BY <1>1, <1>4 DEF SetupToken, TypeOK, Who, WriteKinds
  <2>2. \A v \in Accounts : \A i \in Index(queue[v]) :
          i \in Index(queue'[v]) /\ queue'[v][i] = queue[v][i]
    BY <1>1, <2>1, EnqueueEntries
  <2> QED
    BY <2>1, <2>2 DEF Awaited
<1> QED
  BY <1>2, <1>3, <1>4

(* It leaves the queue only by being answered, and then main() goes on or ends. *)
LEMMA AwaitedAnswered ==
  ASSUME IInv, Awaited, NEW u \in Accounts, Deliver(u) \/ Refuse(u)
  PROVE  Awaited'
<1>1. /\ TypeOK /\ user = u /\ user' = user /\ queue[u] # <<>>
      /\ queue' = [queue EXCEPT ![u] = Tail(@)]
  BY DEF IInv, Deliver, Refuse, Sends, storeVars
<1>2. /\ Head(queue[u]) = queue[u][1]
      /\ \A i \in Index(queue[u]) :
           i # 1 => i - 1 \in Index(queue'[u]) /\ queue'[u][i - 1] = queue[u][i]
  BY <1>1, TailEntries
<1>3. CASE Head(queue[u]) = "start"
  <2>1. boot' \in {"up", "stuck"}
    BY <1>3 DEF Deliver, Refuse, RunApp
  <2> QED
    BY <2>1 DEF Awaited
<1>4. CASE Head(queue[u]) # "start"
  <2>1. boot' = boot
    BY <1>4 DEF Deliver, Refuse
  <2> SUFFICES ASSUME boot = "saving"
               PROVE  \E i \in Index(queue'[u]) : queue'[u][i] = "start"
    BY <1>1, <2>1 DEF Awaited
  <2>2. PICK i \in Index(queue[u]) : queue[u][i] = "start"
    BY <1>1 DEF Awaited
  <2>3. i - 1 \in Index(queue'[u]) /\ queue'[u][i - 1] = "start"
    BY <1>2, <1>4, <2>2
  <2> QED
    BY <2>3
<1> QED
  BY <1>3, <1>4

(* The other steps are taken on pages, when main() no longer waits, or by     *)
(* Kill, or leave the queue alone.                                          *)
LEMMA AwaitedStep ==
  ASSUME IInv, Awaited, [Next]_vars
  PROVE  Awaited'
<1>1. boot = "saving" => stack = <<>> /\ calls = {}
  BY DEF IInv, StartInv
<1>2. CASE UNCHANGED vars
  BY <1>2 DEF vars, phoneVars, Awaited
<1>3. CASE Launch \/ SkipToken \/ StartThrows
  BY <1>3 DEF Launch, SkipToken, StartThrows, RunApp, Awaited
<1>4. CASE SaveToken \/ SetupToken
  BY <1>4, AwaitedBegins
<1>5. CASE Gate
  BY <1>5 DEF Gate, GateHears, GateLoads, GateReadFails, GateThere, phoneVars, Awaited
<1>6. CASE Navigate
  BY <1>6 DEF Navigate, SwitchTab, MenuTab, OpenMenu, OpenAdmin, ClientSide, Back, OrderDone,
     Logout, Shows, phoneVars, Awaited
<1>7. CASE Kill
  BY <1>7 DEF Kill, Awaited
<1>8. ASSUME NEW u \in Accounts, TapLogin(u) \/ TapSignup(u) PROVE Awaited'
  BY <1>8 DEF TapLogin, TapSignup, TapCall, phoneVars, Awaited
<1>9. ASSUME NEW u \in Accounts, Deliver(u) \/ Refuse(u) PROVE Awaited'
  BY <1>9, AwaitedAnswered
<1>10. ASSUME NEW c \in calls, CallStep(c) PROVE Awaited'
  <2>1. boot # "saving"
    BY <1>1
  <2>2. boot' = boot
    BY <1>10 DEF CallStep, CallFails, LoginDone, SignupCreated, SignupWrites, SignupDone, phoneVars
  <2> QED
    BY <2>1, <2>2 DEF Awaited
<1> QED
  BY <1>2, <1>3, <1>4, <1>5, <1>6, <1>7, <1>8, <1>9, <1>10 DEF Next, Main

(* main() never waits for a write that cannot be sent. *)
THEOREM StartUnderwayHolds == Spec => []StartUnderway
<1>1. Init => Awaited
  BY DEF Init, Awaited
<1>2. IInv /\ Awaited /\ [Next]_vars => Awaited'
  BY AwaitedStep
<1>3. IInv /\ Awaited => StartUnderway
  <2> SUFFICES ASSUME IInv, Awaited, boot = "saving"
               PROVE  user # Nobody /\ \E i \in DOMAIN queue[user] : queue[user][i] = "start"
    BY DEF StartUnderway
  <2>1. user # Nobody /\ user \in Accounts
    BY DEF IInv, StartInv, TypeOK, Who
  <2>2. DOMAIN queue[user] = Index(queue[user])
    BY <2>1 DEF IInv, TypeOK, Index
  <2> QED
    BY <2>1, <2>2 DEF Awaited
<1> QED
  BY <1>1, <1>2, <1>3, Invariance, PTL DEF Spec

(* The types of the collections, the queues, the routes and the calls. *)
THEOREM TypeCorrect == Spec => []TypeOK
<1>1. IInv => TypeOK
  BY DEF IInv
<1> QED
  BY <1>1, Invariance, PTL

(* The app is not run before the token of its user is on file. *)
THEOREM TokenOnFileHolds == Spec => []TokenOnFile
<1>1. IInv => TokenOnFile
  BY DEF IInv, StartInv
<1> QED
  BY <1>1, Invariance, PTL

(* An account without document has it on its way, or its sign-up was cut. *)
THEOREM DocumentUnderwayHolds == Spec => []DocumentUnderway
<1>1. IInv => DocumentUnderway
  <2> SUFFICES ASSUME IInv, NEW u \in accounts \ (documents \cup cut)
               PROVE  \/ \E c \in calls : c.who = u /\ c.stage = "created"
                      \/ \E i \in DOMAIN queue[u] : queue[u][i] = "document"
    BY DEF DocumentUnderway
  <2>1. DOMAIN queue[u] = Index(queue[u])
    BY DEF IInv, TypeOK, Index
  <2> QED
    BY <2>1 DEF IInv, DocsInv
<1> QED
  BY <1>1, Invariance, PTL

(* No page shows the profile of another than the one who is signed in. *)
THEOREM ProfileBelongsToUserHolds == Spec => []ProfileBelongsToUser
<1>1. IInv => ProfileBelongsToUser
  <2> SUFFICES ASSUME IInv PROVE ProfileBelongsToUser
    OBVIOUS
  <2>1. DOMAIN stack = Index(stack)
    BY DEF IInv, TypeOK, Index
  <2> QED
    BY <2>1 DEF IInv, PagesInv, ProfileBelongsToUser
<1> QED
  BY <1>1, Invariance, PTL

=============================================================================
