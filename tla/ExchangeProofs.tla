--------------------------- MODULE ExchangeProofs ---------------------------
(***************************************************************************)
(* That within one engine a flow holds one exchange and keeps its outcome, *)
(* for any number of connections and requests and every window.            *)
(***************************************************************************)
EXTENDS Exchange, TLAPS

Xs      == {1} \X Nat
FlowOfX == [x : Xs, kind : {"here", "socket", "forward"}, state : States,
            answered : Xs \union {NoExchange},
            reqBody : Xs \union {NoExchange},
            resBody : Xs \union {NoExchange},
            cut : BOOLEAN]
Entry   == [id : Nat, data : FlowOfX]
Tees    == [id : Nat, side : {"request", "response"}, x : Xs, cut : BOOLEAN]

Before  == {"ready", "paused", "resumed", "upstream"}
After   == {"answering", "streaming"}
Serving == {"numbered"} \union Before \union After
Places  == {"closed", "open", "socket", "tunnel"} \union Serving

Entries  == {log[i] : i \in DOMAIN log}
Counter  == nextSeq[1]
Id(c)    == IdOf(now[c])

Types ==
  /\ log \in Seq(Entry)
  /\ DOMAIN nextSeq = 1..MaxEngines /\ Counter \in Nat
  /\ at \in [Conns -> Places]
  /\ own \in [Conns -> {1}]
  /\ now \in [Conns -> Xs \union {NoExchange}]
  /\ pending \in [Conns -> Seq(Nat)]
  /\ popped \in [Conns -> Nat]
  /\ tees \subseteq Tees

(* What an entry says comes from the exchange it is named after... *)
True(e) ==
  /\ e.data.x = <<1, e.id>> /\ e.id < Counter
  /\ {e.data.answered, e.data.reqBody, e.data.resBody} \subseteq {e.data.x, NoExchange}
  /\ (e.data.kind = "forward" /\ e.data.state = "Completed")
       => e.data.answered = e.data.x /\ e.data.resBody = e.data.x
EntriesTrue  == \A e \in Entries : True(e)
EntriesApart == \A e, f \in Entries : e.id = f.id => e = f

(* ...as does what a tee brings, and a response's only to an answered one. *)
TeesTrue ==
  \A t \in tees : /\ t.x = <<1, t.id>> /\ t.id < Counter
                  /\ t.side = "response" =>
                       \A e \in Entries : e.id = t.id => e.data.answered = e.data.x

(* A connection serves an exchange of its own, and its queue holds that    *)
(* one's id exactly while it awaits the response.                          *)
ConnTrue(c) ==
  /\ at[c] \in Serving => now[c] = <<1, Id(c)>> /\ Id(c) \in Nat /\ Id(c) < Counter
  /\ at[c] \in Serving => \A t \in tees : t.side = "response" => t.id # Id(c)
  /\ at[c] = "upstream" => pending[c] = <<Id(c)>>
  /\ at[c] # "upstream" => pending[c] = <<>>
  /\ at[c] \in After => popped[c] = Id(c)
ConnsTrue  == \A c \in Conns : ConnTrue(c)
ConnsApart ==
  \A c, d \in Conns : at[c] \in Serving /\ at[d] \in Serving /\ Id(c) = Id(d) => c = d

(* Its flow is not there yet, has no outcome yet, or has its answer.       *)
FlowTrue(c) ==
  /\ at[c] = "numbered" => \A e \in Entries : e.id # Id(c)
  /\ at[c] = "numbered" => \A t \in tees : t.id # Id(c)
  /\ at[c] \in Before => \A e \in Entries : e.id = Id(c) => e.data.state \notin Final
  /\ at[c] \in After => \A e \in Entries : e.id = Id(c) => e.data.answered = e.data.x
FlowsTrue == \A c \in Conns : FlowTrue(c)

FirstEngine ==
  /\ Types /\ EntriesTrue /\ EntriesApart /\ TeesTrue /\ ConnsTrue /\ ConnsApart /\ FlowsTrue

(* An entry that had its outcome still has it after the step, if it is there. *)
Stands ==
  \A e \in Entries, g \in Entries' :
    e.id = g.id /\ e.data.state \in Final => g.data.state = e.data.state

ExchangeInv == engine \in Nat \ {0} /\ (engine = 1 => FirstEngine)

------------------------------------------------------------------------------
(* The store: an insert adds one entry, and may let others go; an update   *)
(* changes the entry of one id, if there is one.                           *)
LEMMA InsertFacts ==
  ASSUME Types, NEW e \in Entry, Store!Insert(e), \A f \in Entries : f.id # e.id
  PROVE  log' \in Seq(Entry) /\ Entries' \subseteq Entries \union {e}
<1>1. e.id \notin Store!Logged
  BY DEF Store!Logged, Entries
<1>2. log' = Store!Window(Append(log, e))
  BY <1>1 DEF Store!Insert
<1> DEFINE s == Append(log, e)
           m == IF Len(s) > MaxFlows THEN Len(s) - MaxFlows + 1 ELSE 1
<1>3. /\ s \in Seq(Entry) /\ Len(s) = Len(log) + 1 /\ Len(log) \in Nat
      /\ \A i \in 1..Len(log) : s[i] = log[i]
      /\ s[Len(s)] = e /\ DOMAIN log = 1..Len(log)
  BY DEF Types
<1>4. m \in 1..Len(s)
  BY <1>3, ExchangeAssumption
<1>5. log' = SubSeq(s, m, Len(s))
  BY <1>2 DEF Store!Window
<1> HIDE DEF s, m
<1>6. /\ log' \in Seq(Entry) /\ Len(log') = Len(s) - m + 1
      /\ \A i \in 1..Len(log') : log'[i] = s[m + i - 1]
  BY <1>3, <1>4, <1>5
<1>7. ASSUME NEW i \in DOMAIN log' PROVE log'[i] \in Entries \union {e}
  <2>1. i \in 1..Len(log') /\ m + i - 1 \in 1..Len(s)
    BY <1>3, <1>4, <1>6
  <2> QED BY <1>3, <1>6, <2>1 DEF Entries
<1> QED BY <1>6, <1>7 DEF Entries

LEMMA UpdateFacts ==
  ASSUME Types, NEW id \in Nat, NEW flow, id \in Store!Logged => flow \in FlowOfX, Update(id, flow)
  PROVE  /\ log' \in Seq(Entry)
         /\ \A f \in Entries' : IF f.id = id THEN f.data = flow /\ id \in Store!Logged
                                             ELSE f \in Entries
         /\ \A f \in Entries : f.id # id => f \in Entries'
<1>1. CASE id \notin Store!Logged
  <2>1. log' = log
    BY <1>1 DEF Update
  <2> QED BY <1>1, <2>1 DEF Types, Entries, Store!Logged
<1>2. CASE id \in Store!Logged
  <2> DEFINE e == [id |-> id, data |-> flow]
  <2>1. log' = [i \in DOMAIN log |-> IF log[i].id = e.id THEN e ELSE log[i]]
    BY <1>2 DEF Update, Store!Update, Store!Changed
  <2>2. e \in Entry /\ e.id = id /\ e.data = flow
    BY <1>2 DEF Entry
  <2> HIDE DEF e
  <2>3. log \in [1..Len(log) -> Entry] /\ Len(log) \in Nat /\ DOMAIN log = 1..Len(log)
    BY DEF Types
  <2>4. log' \in [1..Len(log) -> Entry]
    BY <2>1, <2>2, <2>3
  <2>5. log' \in Seq(Entry)
    BY <2>3, <2>4
  <2>6. \A i \in DOMAIN log : log'[i] = IF log[i].id = id THEN e ELSE log[i]
    BY <2>1, <2>2
  <2>7. DOMAIN log' = DOMAIN log
    BY <2>1
  <2> QED BY <1>2, <2>2, <2>5, <2>6, <2>7 DEF Entries
<1> QED BY <1>1, <1>2

(* The flow of a logged id is what its entry says. *)
LEMMA FlowFacts ==
  ASSUME Types, NEW id, id \in Store!Logged
  PROVE  \E e \in Entries : e.id = id /\ e.data = FlowOf(id)
<1>1. PICK i \in DOMAIN log : log[i].id = id
  BY DEF Store!Logged
<1>2. Store!Place(id) \in DOMAIN log /\ log[Store!Place(id)].id = id
  BY <1>1 DEF Store!Place
<1> QED BY <1>2 DEF FlowOf, Store!At, Entries

LEMMA EntryTypes == ASSUME Types PROVE Entries \subseteq Entry
BY DEF Types, Entries

------------------------------------------------------------------------------
(* The entries of this moment are those of the moment before, the one of   *)
(* an id aside, which may have got its answer.                             *)
Descend(id) ==
  \A e \in Entries' : \E f \in Entries :
    /\ f.id = e.id /\ f.data.x = e.data.x
    /\ f.data.answered = e.data.answered \/ e.data.answered = e.data.x
    /\ e.id # id => e = f

LEMMA Updates ==
  ASSUME FirstEngine, NEW id \in Nat, NEW flow, Update(id, flow), nextSeq' = nextSeq,
         id \in Store!Logged =>
           /\ flow \in FlowOfX /\ flow.x = FlowOf(id).x
           /\ flow.answered = FlowOf(id).answered \/ flow.answered = flow.x
           /\ {flow.answered, flow.reqBody, flow.resBody} \subseteq {flow.x, NoExchange}
           /\ (flow.kind = "forward" /\ flow.state = "Completed")
                => flow.answered = flow.x /\ flow.resBody = flow.x
  PROVE  /\ log' \in Seq(Entry) /\ EntriesTrue' /\ EntriesApart' /\ Descend(id)
         /\ \A e \in Entries' : e.id = id => e.data = flow /\ id \in Store!Logged
<1>1. Types /\ EntriesTrue /\ EntriesApart
  BY DEF FirstEngine
<1>2. /\ log' \in Seq(Entry)
      /\ \A f \in Entries' : IF f.id = id THEN f.data = flow /\ id \in Store!Logged
                                          ELSE f \in Entries
  BY <1>1, UpdateFacts
<1>3. Entries' \subseteq Entry
  BY <1>2 DEF Entries
<1>4. ASSUME NEW e \in Entries', e.id = id
      PROVE  /\ True(e)'
             /\ \E f \in Entries : /\ f.id = e.id /\ f.data.x = e.data.x
                                   /\ f.data.answered = e.data.answered \/ e.data.answered = e.data.x
  <2>1. e.data = flow /\ id \in Store!Logged
    BY <1>2, <1>4
  <2>2. PICK f \in Entries : f.id = id /\ f.data = FlowOf(id)
    BY <1>1, <2>1, FlowFacts
  <2>3. f.data.x = <<1, id>> /\ id < Counter
    BY <1>1, <2>2 DEF EntriesTrue, True
  <2>4. flow.x = f.data.x /\ (flow.answered = f.data.answered \/ flow.answered = flow.x)
    BY <2>1, <2>2
  <2> QED BY <1>4, <2>1, <2>2, <2>3, <2>4 DEF True, Counter
<1>5. ASSUME NEW e \in Entries', e.id # id
      PROVE  e \in Entries /\ True(e)'
  BY <1>1, <1>2, <1>5 DEF EntriesTrue, True, Counter
<1>6. EntriesTrue'
  BY <1>4, <1>5 DEF EntriesTrue
<1>7. EntriesApart'
  <2> SUFFICES ASSUME NEW e \in Entries', NEW f \in Entries', e.id = f.id PROVE e = f
    BY DEF EntriesApart
  <2>1. CASE e.id = id
    <3>1. e.data = f.data
      BY <1>2, <2>1
    <3> QED BY <1>3, <3>1 DEF Entry
  <2>2. CASE e.id # id
    BY <1>1, <1>5, <2>2 DEF EntriesApart
  <2> QED BY <2>1, <2>2
<1>8. Descend(id)
  <2> SUFFICES ASSUME NEW e \in Entries'
               PROVE  \E f \in Entries :
                        /\ f.id = e.id /\ f.data.x = e.data.x
                        /\ f.data.answered = e.data.answered \/ e.data.answered = e.data.x
                        /\ e.id # id => e = f
    BY DEF Descend
  <2>1. CASE e.id = id
    <3>1. PICK f \in Entries : /\ f.id = e.id /\ f.data.x = e.data.x
                               /\ f.data.answered = e.data.answered \/ e.data.answered = e.data.x
      BY <1>4, <2>1
    <3>2. e.id # id => e = f
      BY <2>1
    <3> QED BY <3>1, <3>2, Zenon
  <2>2. CASE e.id # id
    BY <1>5, <2>2, Zenon
  <2> QED BY <2>1, <2>2
<1> QED BY <1>2, <1>6, <1>7, <1>8

(* What follows for the tees and for the connections that stay. *)
LEMMA DescendTees ==
  ASSUME FirstEngine, NEW id, Descend(id), tees' \subseteq tees, nextSeq' = nextSeq
  PROVE  TeesTrue'
<1> SUFFICES ASSUME NEW t \in tees'
             PROVE  /\ t.x = <<1, t.id>> /\ t.id < Counter
                    /\ t.side = "response" =>
                         \A e \in Entries' : e.id = t.id => e.data.answered = e.data.x
  BY DEF TeesTrue, Counter
<1>1. /\ t.x = <<1, t.id>> /\ t.id < Counter
      /\ t.side = "response" => \A f \in Entries : f.id = t.id => f.data.answered = f.data.x
  BY DEF FirstEngine, TeesTrue
<1> QED BY <1>1 DEF Descend

LEMMA DescendFlow ==
  ASSUME FirstEngine, NEW id, Descend(id), tees' \subseteq tees,
         NEW d \in Conns, at'[d] = at[d], now' = now, at[d] \in Before => Id(d) # id
  PROVE  FlowTrue(d)'
<1>1. FlowTrue(d) /\ Id(d)' = Id(d)
  BY DEF FirstEngine, FlowsTrue, Id
<1> QED BY <1>1 DEF FlowTrue, Descend

(* A connection whose own steps left it where it was. *)
LEMMA ConnStays ==
  ASSUME FirstEngine, NEW d \in Conns, at'[d] = at[d], now'[d] = now[d], pending'[d] = pending[d],
         popped'[d] = popped[d], nextSeq'[1] \in Nat, Counter <= nextSeq'[1],
         \A t \in tees' : t.side = "response" => t \in tees \/ at[d] \notin Serving \/ t.id # Id(d)
  PROVE  ConnTrue(d)'
<1>1. ConnTrue(d) /\ Id(d)' = Id(d) /\ Counter' = nextSeq'[1] /\ Counter \in Nat
  BY DEF FirstEngine, Types, ConnsTrue, Id, Counter
<1> QED BY <1>1 DEF ConnTrue

------------------------------------------------------------------------------
(* What a step of a connection leaves to the others, and to itself unless  *)
(* it closes.                                                              *)
Keeps(c, to) ==
  /\ own' \in [Conns -> {1}] /\ pending' \in [Conns -> Seq(Nat)]
  /\ now' \in [Conns -> Xs \union {NoExchange}] /\ popped' \in [Conns -> Nat]
  /\ \A d \in Conns : d # c =>
       now'[d] = now[d] /\ pending'[d] = pending[d] /\ popped'[d] = popped[d]
  /\ to # "closed" => now'[c] = now[c] /\ popped'[c] = popped[c]

LEMMA DropKeeps ==
  ASSUME FirstEngine, NEW c \in Conns, Drop(c)
  PROVE  Keeps(c, "closed") /\ pending'[c] = <<>>
BY DEF FirstEngine, Types, Drop, Keeps

LEMMA SameKeeps ==
  ASSUME FirstEngine, NEW c \in Conns, UNCHANGED <<now, popped>>,
         own' \in [Conns -> {1}], pending' \in [Conns -> Seq(Nat)],
         \A d \in Conns : d # c => pending'[d] = pending[d]
  PROVE  \A to \in Places : Keeps(c, to)
BY DEF FirstEngine, Types, Keeps

(* Steps of a connection that touch neither flows nor tees. *)
LEMMA QuietInv ==
  ASSUME FirstEngine, NEW c \in Conns, UNCHANGED <<log, nextSeq, tees>>,
         NEW to \in Places, at' = [at EXCEPT ![c] = to], Keeps(c, to), pending'[c] = <<>>,
         to = "closed" \/ to = "open" \/ (to = "streaming" /\ at[c] = "answering")
  PROVE  FirstEngine' /\ Stands
<1>1. Entries' = Entries /\ Counter' = Counter
  BY DEF Entries, Counter
<1>2. /\ at' \in [Conns -> Places] /\ at'[c] = to
      /\ \A d \in Conns : d # c => at'[d] = at[d]
  BY DEF FirstEngine, Types
<1>3. Types'
  BY <1>1, <1>2 DEF FirstEngine, Types, Keeps
<1>4. EntriesTrue' /\ EntriesApart' /\ TeesTrue'
  BY <1>1 DEF FirstEngine, EntriesTrue, True, EntriesApart, TeesTrue
<1>5. ConnTrue(c)' /\ FlowTrue(c)'
  <2>1. ConnTrue(c) /\ FlowTrue(c)
    BY DEF FirstEngine, ConnsTrue, FlowsTrue
  <2>2. CASE to = "streaming"
    <3>1. Id(c)' = Id(c) /\ now'[c] = now[c] /\ popped'[c] = popped[c]
      BY <2>2 DEF Keeps, Id
    <3> QED BY <1>1, <1>2, <2>1, <2>2, <3>1 DEF ConnTrue, FlowTrue, Serving, Before, After
  <2>3. CASE to \in {"closed", "open"}
    BY <1>1, <1>2, <2>3 DEF ConnTrue, FlowTrue, Serving, Before, After
  <2> QED BY <2>2, <2>3
<1>6. ASSUME NEW d \in Conns, d # c PROVE ConnTrue(d)' /\ FlowTrue(d)' /\ Id(d)' = Id(d)
  <2>1. ConnTrue(d) /\ FlowTrue(d) /\ Id(d)' = Id(d)
    BY <1>6 DEF FirstEngine, ConnsTrue, FlowsTrue, Keeps, Id
  <2>2. now'[d] = now[d] /\ pending'[d] = pending[d] /\ popped'[d] = popped[d]
    BY <1>6 DEF Keeps
  <2> QED BY <1>1, <1>2, <1>6, <2>1, <2>2 DEF ConnTrue, FlowTrue
<1>7. ConnsTrue' /\ FlowsTrue'
  BY <1>5, <1>6 DEF ConnsTrue, FlowsTrue
<1>8. ConnsApart'
  <2>1. ASSUME NEW d \in Conns, at'[d] \in Serving PROVE at[d] \in Serving /\ Id(d)' = Id(d)
    <3>1. CASE d = c
      BY <1>2, <2>1, <3>1 DEF Serving, Before, After, Keeps, Id
    <3> QED BY <1>2, <1>6, <2>1, <3>1
  <2> QED BY <2>1 DEF FirstEngine, ConnsApart
<1> QED BY <1>1, <1>3, <1>4, <1>7, <1>8 DEF FirstEngine, EntriesApart, Stands

LEMMA NumberInv ==
  ASSUME FirstEngine, NEW c \in Conns, Number(c)
  PROVE  FirstEngine' /\ Stands
<1>1. /\ own[c] = 1 /\ 1 \in DOMAIN nextSeq /\ Counter \in Nat
  BY ExchangeAssumption DEF FirstEngine, Types
<1>2. /\ at' \in [Conns -> Places] /\ at[c] = "open" /\ at'[c] = "numbered"
      /\ \A d \in Conns : d # c => at'[d] = at[d]
  BY DEF FirstEngine, Types, Number, Go, Places, Serving
<1>3. /\ UNCHANGED <<log, own, pending, popped, tees>> /\ Entries' = Entries
      /\ DOMAIN nextSeq' = DOMAIN nextSeq /\ Counter' = Counter + 1
  BY <1>1 DEF Number, Entries, Counter
<1>4. /\ now' \in [Conns -> Xs \union {NoExchange}]
      /\ now'[c] = <<1, Counter>> /\ Id(c)' = Counter
      /\ \A d \in Conns : d # c => now'[d] = now[d] /\ Id(d)' = Id(d)
  BY <1>1 DEF Number, FirstEngine, Types, Id, IdOf, Xs, Counter
<1>5. Types'
  BY <1>1, <1>2, <1>3, <1>4 DEF FirstEngine, Types
<1>6. EntriesTrue' /\ EntriesApart' /\ TeesTrue'
  <2>1. \A e \in Entries : e.id \in Nat
    BY EntryTypes DEF FirstEngine, Entry
  <2>2. \A t \in tees : t.id \in Nat
    BY DEF FirstEngine, Types, Tees
  <2> QED BY <1>1, <1>3, <2>1, <2>2 DEF FirstEngine, EntriesTrue, True, EntriesApart, TeesTrue
<1>7. ConnTrue(c)'
  <2>1. pending[c] = <<>>
    BY <1>2 DEF FirstEngine, ConnsTrue, ConnTrue
  <2>2. \A t \in tees : t.id < Counter /\ t.id \in Nat
    BY DEF FirstEngine, Types, Tees, TeesTrue
  <2> QED BY <1>1, <1>2, <1>3, <1>4, <2>1, <2>2 DEF ConnTrue, After
<1>8. FlowTrue(c)'
  <2>1. \A e \in Entries : e.id < Counter /\ e.id \in Nat
    BY EntryTypes DEF FirstEngine, EntriesTrue, True, Entry
  <2>2. \A t \in tees : t.id < Counter /\ t.id \in Nat
    BY DEF FirstEngine, Types, Tees, TeesTrue
  <2> QED BY <1>1, <1>2, <1>3, <1>4, <2>1, <2>2 DEF FlowTrue, Before, After
<1>9. ASSUME NEW d \in Conns, d # c PROVE ConnTrue(d)' /\ FlowTrue(d)'
  <2>1. ConnTrue(d)'
    BY <1>1, <1>2, <1>3, <1>4, <1>9, ConnStays DEF Counter
  <2>2. FlowTrue(d)
    BY DEF FirstEngine, FlowsTrue
  <2> QED BY <1>2, <1>3, <1>4, <1>9, <2>1, <2>2 DEF FlowTrue
<1>10. ConnsApart'
  <2>1. \A d \in Conns : d # c /\ at[d] \in Serving => Id(d) < Counter /\ Id(d) \in Nat
    BY DEF FirstEngine, ConnsTrue, ConnTrue
  <2> QED BY <1>1, <1>2, <1>4, <2>1 DEF FirstEngine, ConnsApart
<1>11. Stands
  BY <1>3 DEF FirstEngine, EntriesApart, Stands
<1> QED BY <1>5, <1>6, <1>7, <1>8, <1>9, <1>10, <1>11 DEF FirstEngine, ConnsTrue, FlowsTrue

------------------------------------------------------------------------------
(* A new flow, stored as its outcome calls for. *)
LEMMA DescribeInv ==
  ASSUME FirstEngine, NEW c \in Conns,
         NEW kind \in {"here", "socket", "forward"}, NEW state \in {"Started", "Completed", "Error"},
         NEW to \in {"open", "socket", "tunnel", "ready"},
         to = "ready" => state = "Started", kind = "forward" => state # "Completed",
         Describe(c, kind, state, to)
  PROVE  FirstEngine' /\ Stands
<1> DEFINE x == now[c]
           e == [id |-> IdOf(x), data |-> NewFlow(x, kind, state)]
<1>1. /\ at' \in [Conns -> Places] /\ at[c] = "numbered" /\ at'[c] = to
      /\ \A d \in Conns : d # c => at'[d] = at[d]
  BY DEF FirstEngine, Types, Describe, Go, Places, Serving, Before
<1>2. /\ UNCHANGED <<nextSeq, own, now, pending, popped, tees>> /\ Counter' = Counter
      /\ \A d \in Conns : Id(d)' = Id(d)
  BY DEF Describe, Counter, Id
<1>3. /\ x = <<1, Id(c)>> /\ Id(c) \in Nat /\ Id(c) < Counter
      /\ \A f \in Entries : f.id # Id(c)
      /\ \A t \in tees : t.id # Id(c)
  BY <1>1 DEF FirstEngine, ConnsTrue, ConnTrue, FlowsTrue, FlowTrue, Serving
<1>4. x \in Xs /\ Store!Insert(e) /\ e.id = Id(c)
  <2>1. Store!Insert(e)
    BY DEF Describe, Insert
  <2>2. x \in Xs
    BY <1>3 DEF Xs
  <2> QED BY <2>1, <2>2 DEF Id
<1>5. /\ e.data \in FlowOfX /\ e.data.x = x /\ e.data.kind = kind /\ e.data.state = state
      /\ e.data.answered = NoExchange /\ e.data.reqBody = NoExchange /\ e.data.resBody = NoExchange
  BY <1>4 DEF NewFlow, FlowOfX, States
<1>6. e \in Entry
  BY <1>3, <1>4, <1>5 DEF Entry
<1> HIDE DEF e, x
<1>7. log' \in Seq(Entry) /\ Entries' \subseteq Entries \union {e}
  BY <1>3, <1>4, <1>6, InsertFacts DEF FirstEngine
<1>8. Types'
  BY <1>1, <1>2, <1>7 DEF FirstEngine, Types
<1>9. EntriesTrue'
  <2>1. True(e)
    BY <1>3, <1>4, <1>5 DEF True
  <2> QED BY <1>2, <1>7, <2>1 DEF FirstEngine, EntriesTrue, True
<1>10. EntriesApart'
  BY <1>3, <1>4, <1>7 DEF FirstEngine, EntriesApart
<1>11. TeesTrue'
  BY <1>2, <1>3, <1>4, <1>7 DEF FirstEngine, TeesTrue
<1>12. ConnTrue(c)'
  BY <1>1, <1>2, <1>3 DEF FirstEngine, ConnsTrue, ConnTrue, Serving, Before, After
<1>13. FlowTrue(c)'
  BY <1>1, <1>2, <1>3, <1>4, <1>5, <1>7 DEF FlowTrue, Before, After, Final
<1>14. ASSUME NEW d \in Conns, d # c PROVE ConnTrue(d)' /\ FlowTrue(d)'
  <2>1. ConnTrue(d) /\ FlowTrue(d)
    BY DEF FirstEngine, ConnsTrue, FlowsTrue
  <2>2. ConnTrue(d)'
    BY <1>1, <1>2, <1>14, <2>1 DEF ConnTrue
  <2>3. at[d] \in Serving => Id(d) # Id(c)
    BY <1>1, <1>14 DEF FirstEngine, ConnsApart, Serving
  <2>4. FlowTrue(d)'
    BY <1>1, <1>2, <1>4, <1>7, <1>14, <2>1, <2>3 DEF FlowTrue, Serving
  <2> QED BY <2>2, <2>4
<1>15. ConnsApart'
  <2>1. \A d \in Conns : at'[d] \in Serving => at[d] \in Serving
    BY <1>1 DEF Serving
  <2> QED BY <1>2, <2>1 DEF FirstEngine, ConnsApart
<1>16. Stands
  BY <1>3, <1>4, <1>7 DEF FirstEngine, EntriesApart, Stands
<1> QED BY <1>8, <1>9, <1>10, <1>11, <1>12, <1>13, <1>14, <1>15, <1>16
        DEF FirstEngine, ConnsTrue, FlowsTrue

------------------------------------------------------------------------------
(* The handler, or the user, changes the flow it is at. *)
OwnChange(id, flow) ==
  id \in Store!Logged =>
    /\ flow \in FlowOfX /\ flow.x = FlowOf(id).x
    /\ flow.answered = FlowOf(id).answered \/ flow.answered = flow.x
    /\ {flow.answered, flow.reqBody, flow.resBody} \subseteq {flow.x, NoExchange}
    /\ (flow.kind = "forward" /\ flow.state = "Completed")
         => flow.answered = flow.x /\ flow.resBody = flow.x

LEMMA OwnFlowInv ==
  ASSUME FirstEngine, NEW c \in Conns, at[c] \in Before,
         NEW flow, Update(Id(c), flow), OwnChange(Id(c), flow),
         NEW to \in {"paused", "resumed", "open", "answering"}, at' = [at EXCEPT ![c] = to],
         Id(c) \in Store!Logged /\ to \in Before => flow.state \notin Final,
         Id(c) \in Store!Logged /\ to = "answering" => flow.answered = flow.x,
         to = "answering" => popped'[c] = Id(c),
         UNCHANGED <<nextSeq, own, now, tees>>,
         popped' \in [Conns -> Nat],
         pending' \in [Conns -> Seq(Nat)], pending'[c] = <<>>,
         \A d \in Conns : d # c => pending'[d] = pending[d] /\ popped'[d] = popped[d]
  PROVE  FirstEngine' /\ Stands
<1> DEFINE id == Id(c)
<1>1. /\ at' \in [Conns -> Places] /\ at'[c] = to
      /\ \A d \in Conns : d # c => at'[d] = at[d]
  BY DEF FirstEngine, Types, Places, Serving, Before, After
<1>2. Counter' = Counter /\ \A d \in Conns : Id(d)' = Id(d)
  BY DEF Counter, Id
<1>3. id \in Nat /\ at[c] \in Serving
  BY DEF FirstEngine, ConnsTrue, ConnTrue, Serving
<1>4. /\ log' \in Seq(Entry) /\ EntriesTrue' /\ EntriesApart' /\ Descend(id)
      /\ \A e \in Entries' : e.id = id => e.data = flow /\ id \in Store!Logged
  BY <1>3, Updates DEF OwnChange
<1>5. Types'
  <2>1. /\ DOMAIN nextSeq' = 1..MaxEngines /\ Counter' \in Nat
        /\ own' \in [Conns -> {1}] /\ now' \in [Conns -> Xs \union {NoExchange}]
        /\ tees' \subseteq Tees
    BY <1>2 DEF FirstEngine, Types
  <2> QED BY <1>1, <1>4, <2>1 DEF Types
<1>6. TeesTrue'
  BY <1>4, DescendTees
<1>7. ConnTrue(c)'
  <2>1. ConnTrue(c) /\ at[c] \in Serving
    BY DEF FirstEngine, ConnsTrue, Serving
  <2> QED BY <1>1, <1>2, <2>1 DEF ConnTrue, Serving, Before, After
<1>8. FlowTrue(c)'
  <2>1. to \in Before => \A e \in Entries' : e.id = id => e.data.state \notin Final
    BY <1>4
  <2>2. to = "answering" => \A e \in Entries' : e.id = id => e.data.answered = e.data.x
    BY <1>4
  <2> QED BY <1>1, <1>2, <2>1, <2>2 DEF FlowTrue, Before, After
<1>9. ASSUME NEW d \in Conns, d # c PROVE ConnTrue(d)' /\ FlowTrue(d)'
  <2>1. ConnTrue(d)'
    BY <1>1, <1>9, ConnStays DEF FirstEngine, Types, Counter
  <2>2. at[d] \in Serving => Id(d) # id
    BY <1>3, <1>9 DEF FirstEngine, ConnsApart
  <2>3. FlowTrue(d)'
    BY <1>1, <1>4, <1>9, <2>2, DescendFlow DEF Serving
  <2> QED BY <2>1, <2>3
<1>10. ConnsApart'
  <2>1. \A d \in Conns : at'[d] \in Serving => at[d] \in Serving
    BY <1>1, <1>3
  <2> QED BY <1>2, <2>1 DEF FirstEngine, ConnsApart
<1>11. Stands
  <2> SUFFICES ASSUME NEW e \in Entries, NEW g \in Entries', e.id = g.id, e.data.state \in Final
               PROVE  g.data.state = e.data.state
    BY DEF Stands
  <2>1. e.id # id
    BY DEF FirstEngine, FlowsTrue, FlowTrue
  <2>2. PICK f \in Entries : f.id = g.id /\ (g.id # id => g = f)
    BY <1>4 DEF Descend
  <2> QED BY <2>1, <2>2 DEF FirstEngine, EntriesApart
<1> QED BY <1>4, <1>5, <1>6, <1>7, <1>8, <1>9, <1>10, <1>11 DEF FirstEngine, ConnsTrue, FlowsTrue

(* What the flow at a connection says before it is changed. *)
LEMMA OwnFlow ==
  ASSUME FirstEngine, NEW c \in Conns, at[c] \in Before, Id(c) \in Store!Logged
  PROVE  /\ FlowOf(Id(c)) \in FlowOfX /\ FlowOf(Id(c)).x = now[c]
         /\ {FlowOf(Id(c)).answered, FlowOf(Id(c)).reqBody, FlowOf(Id(c)).resBody}
              \subseteq {now[c], NoExchange}
         /\ FlowOf(Id(c)).state \notin Final
<1>1. now[c] = <<1, Id(c)>>
  BY DEF FirstEngine, ConnsTrue, ConnTrue, Serving
<1>2. PICK e \in Entries : e.id = Id(c) /\ e.data = FlowOf(Id(c))
  BY FlowFacts DEF FirstEngine
<1>3. True(e) /\ e \in Entry /\ e.data.state \notin Final
  BY <1>2, EntryTypes DEF FirstEngine, EntriesTrue, FlowsTrue, FlowTrue
<1> QED BY <1>1, <1>2, <1>3 DEF True, Entry

LEMMA StateInv ==
  ASSUME FirstEngine, NEW c \in Conns, at[c] \in Before,
         NEW state \in {"Started", "Paused", "Error"}, SetState(Id(c), state),
         NEW to \in {"paused", "resumed", "open"}, at' = [at EXCEPT ![c] = to],
         to # "open" => state # "Error",
         UNCHANGED <<nextSeq, own, now, popped, tees>>,
         pending' \in [Conns -> Seq(Nat)], pending'[c] = <<>>,
         \A d \in Conns : d # c => pending'[d] = pending[d]
  PROVE  FirstEngine' /\ Stands
<1> DEFINE flow == [FlowOf(Id(c)) EXCEPT !.state = state]
<1>1. Update(Id(c), flow)
  BY DEF SetState
<1>2. OwnChange(Id(c), flow) /\ (Id(c) \in Store!Logged => flow.state = state)
  BY OwnFlow DEF OwnChange, FlowOfX, States
<1> HIDE DEF flow
<1>3. popped' \in [Conns -> Nat]
  BY DEF FirstEngine, Types
<1> QED BY <1>1, <1>2, <1>3, OwnFlowInv DEF Final, Before

LEMMA RespondInv ==
  ASSUME FirstEngine, NEW c \in Conns, Respond(c)
  PROVE  FirstEngine' /\ Stands
<1> DEFINE flow == [FlowOf(Id(c)) EXCEPT !.answered = now[c]]
<1>1. at[c] = "upstream" /\ at[c] \in Before /\ at' = [at EXCEPT ![c] = "answering"]
  BY DEF Respond, Go, Before
<1>2. pending[c] = <<Id(c)>> /\ Id(c) \in Nat
  BY <1>1 DEF FirstEngine, ConnsTrue, ConnTrue, Serving
<1>3. Head(pending[c]) = Id(c) /\ Tail(pending[c]) = <<>>
  BY <1>2
<1>4. Update(Id(c), flow) /\ UNCHANGED <<nextSeq, own, now, tees>>
  BY <1>3 DEF Respond
<1>5. /\ popped' \in [Conns -> Nat] /\ popped'[c] = Id(c)
      /\ pending' \in [Conns -> Seq(Nat)] /\ pending'[c] = <<>>
      /\ \A d \in Conns : d # c => pending'[d] = pending[d] /\ popped'[d] = popped[d]
  BY <1>2, <1>3 DEF Respond, FirstEngine, Types
<1>6. now[c] = <<1, Id(c)>> /\ now[c] \in Xs
  <2>1. now[c] = <<1, Id(c)>>
    BY <1>1 DEF FirstEngine, ConnsTrue, ConnTrue, Serving
  <2> QED BY <1>2, <2>1 DEF Xs
<1>7. /\ OwnChange(Id(c), flow)
      /\ Id(c) \in Store!Logged => flow.answered = flow.x
  BY <1>1, <1>6, OwnFlow DEF OwnChange, FlowOfX, Final
<1> HIDE DEF flow
<1> QED BY <1>1, <1>4, <1>5, <1>7, OwnFlowInv DEF Before

------------------------------------------------------------------------------
(* A body is teed: the request's on its way, the response's when it ended. *)
LEMMA TeeInv ==
  ASSUME FirstEngine, NEW c \in Conns,
         NEW to \in {"upstream", "open", "closed"}, at' = [at EXCEPT ![c] = to],
         NEW side \in {"request", "response"}, NEW cut \in BOOLEAN,
         Captured(Id(c), side, now[c], cut),
         UNCHANGED <<log, nextSeq>>, Keeps(c, to),
         \/ /\ to = "upstream" /\ at[c] \in {"ready", "resumed"} /\ side = "request"
            /\ pending'[c] = <<Id(c)>>
         \/ to # "upstream" /\ at[c] = "streaming" /\ side = "response" /\ pending'[c] = <<>>
  PROVE  FirstEngine' /\ Stands
<1> DEFINE t == [id |-> Id(c), side |-> side, x |-> now[c], cut |-> cut]
<1>1. /\ at' \in [Conns -> Places] /\ at'[c] = to /\ at[c] \in Serving \ {"numbered"}
      /\ \A d \in Conns : d # c => at'[d] = at[d]
  BY DEF FirstEngine, Types, Places, Serving, Before, After
<1>2. /\ Entries' = Entries /\ Counter' = Counter
      /\ \A d \in Conns : d # c \/ to # "closed" =>
           now'[d] = now[d] /\ popped'[d] = popped[d] /\ Id(d)' = Id(d)
  BY DEF Entries, Counter, Id, Keeps
<1>3. now[c] = <<1, Id(c)>> /\ Id(c) \in Nat /\ Id(c) < Counter
  BY <1>1 DEF FirstEngine, ConnsTrue, ConnTrue
<1>4. t \in Tees /\ t.id = Id(c) /\ t.side = side /\ t.x = <<1, Id(c)>>
  <2>1. now[c] \in Xs
    BY <1>3 DEF Xs
  <2> QED BY <1>3, <2>1 DEF Tees
<1> HIDE DEF t
<1>5. tees' = tees \union {t}
  BY DEF t, Captured
<1>6. Types'
  <2>1. /\ DOMAIN nextSeq' = 1..MaxEngines /\ Counter' \in Nat /\ log' \in Seq(Entry)
        /\ own' \in [Conns -> {1}] /\ now' \in [Conns -> Xs \union {NoExchange}]
        /\ popped' \in [Conns -> Nat]
    BY <1>2 DEF FirstEngine, Types, Keeps
  <2>2. tees' \subseteq Tees /\ pending' \in [Conns -> Seq(Nat)]
    BY <1>4, <1>5 DEF FirstEngine, Types, Keeps
  <2> QED BY <1>1, <2>1, <2>2 DEF Types
<1>7. EntriesTrue' /\ EntriesApart' /\ Stands
  BY <1>2 DEF FirstEngine, EntriesTrue, True, EntriesApart, Stands
<1>8. TeesTrue'
  <2>1. side = "response" => \A e \in Entries : e.id = Id(c) => e.data.answered = e.data.x
    BY DEF FirstEngine, FlowsTrue, FlowTrue, After
  <2> QED BY <1>2, <1>3, <1>4, <1>5, <2>1 DEF FirstEngine, TeesTrue
<1>9. ConnTrue(c)' /\ FlowTrue(c)'
  <2>1. ConnTrue(c) /\ FlowTrue(c)
    BY DEF FirstEngine, ConnsTrue, FlowsTrue
  <2>2. CASE to = "closed"
    BY <1>1, <2>2 DEF ConnTrue, FlowTrue, Serving, Before, After
  <2>3. CASE to # "closed"
    BY <1>1, <1>2, <1>3, <1>4, <1>5, <2>1, <2>3 DEF ConnTrue, FlowTrue, Serving, Before, After
  <2> QED BY <2>2, <2>3
<1>10. ASSUME NEW d \in Conns, d # c PROVE ConnTrue(d)' /\ FlowTrue(d)'
  <2>1. ConnTrue(d) /\ FlowTrue(d)
    BY DEF FirstEngine, ConnsTrue, FlowsTrue
  <2>2. at[d] \in Serving => Id(d) # Id(c)
    BY <1>1, <1>10 DEF FirstEngine, ConnsApart
  <2>3. ConnTrue(d)'
    BY <1>1, <1>2, <1>4, <1>5, <1>10, <2>1, <2>2 DEF ConnTrue, Keeps
  <2>4. FlowTrue(d)'
    BY <1>1, <1>2, <1>4, <1>5, <1>10, <2>1, <2>2 DEF FlowTrue, Serving
  <2> QED BY <2>3, <2>4
<1>11. ConnsApart'
  <2>1. \A d \in Conns : at'[d] \in Serving => at[d] \in Serving /\ Id(d)' = Id(d)
    BY <1>1, <1>2 DEF Serving, Before, After
  <2> QED BY <2>1 DEF FirstEngine, ConnsApart
<1> QED BY <1>6, <1>7, <1>8, <1>9, <1>10, <1>11 DEF FirstEngine, ConnsTrue, FlowsTrue

LEMMA FoldInv ==
  ASSUME FirstEngine, NEW t \in tees, Fold(t)
  PROVE  FirstEngine' /\ Stands
<1> DEFINE old  == FlowOf(t.id)
           flow == IF t.side = "request" THEN Body(old, t)
                                         ELSE [Body(old, t) EXCEPT !.state = Ended(@)]
<1>1. Update(t.id, flow) /\ tees' = tees \ {t} /\ UNCHANGED <<nextSeq, at, own, now, pending, popped>>
  BY DEF Fold, conn
<1>2. /\ t.id \in Nat /\ t.x \in Xs /\ t.cut \in BOOLEAN /\ t.side \in {"request", "response"} /\ t.x = <<1, t.id>>
      /\ t.side = "response" => \A e \in Entries : e.id = t.id => e.data.answered = e.data.x
  BY DEF FirstEngine, Types, Tees, TeesTrue
<1>3. ASSUME t.id \in Store!Logged
      PROVE  /\ old \in FlowOfX /\ old.x = t.x
             /\ {old.answered, old.reqBody, old.resBody} \subseteq {old.x, NoExchange}
             /\ (old.kind = "forward" /\ old.state = "Completed")
                  => old.answered = old.x /\ old.resBody = old.x
             /\ t.side = "response" => old.answered = old.x
             /\ \A e \in Entries : e.id = t.id => e.data = old
  <2>1. PICK e \in Entries : e.id = t.id /\ e.data = old
    BY <1>3, FlowFacts DEF FirstEngine
  <2>2. True(e) /\ e \in Entry
    BY EntryTypes DEF FirstEngine, EntriesTrue
  <2>3. \A f \in Entries : f.id = t.id => f = e
    BY <2>1 DEF FirstEngine, EntriesApart
  <2> QED BY <1>2, <2>1, <2>2, <2>3 DEF True, Entry
<1>4. ASSUME t.id \in Store!Logged
      PROVE  /\ OwnChange(t.id, flow)
             /\ t.side = "request" => flow.state = old.state
             /\ old.state \in Final => flow.state = old.state
  <2>1. CASE t.side = "request"
    BY <1>2, <1>3, <1>4, <2>1 DEF OwnChange, FlowOfX, Body
  <2>2. CASE t.side = "response"
    BY <1>2, <1>3, <1>4, <2>2 DEF OwnChange, FlowOfX, Body, Ended, States, Final
  <2> QED BY <1>2, <2>1, <2>2
<1> HIDE DEF old, flow
<1>5. /\ log' \in Seq(Entry) /\ EntriesTrue' /\ EntriesApart' /\ Descend(t.id)
      /\ \A e \in Entries' : e.id = t.id => e.data = flow /\ t.id \in Store!Logged
  BY <1>1, <1>2, <1>4, Updates DEF OwnChange
<1>6. Types'
  <2>1. /\ DOMAIN nextSeq' = 1..MaxEngines /\ Counter' \in Nat
        /\ at' \in [Conns -> Places] /\ own' \in [Conns -> {1}]
        /\ now' \in [Conns -> Xs \union {NoExchange}]
        /\ pending' \in [Conns -> Seq(Nat)] /\ popped' \in [Conns -> Nat] /\ tees' \subseteq Tees
    BY <1>1 DEF FirstEngine, Types, Counter
  <2> QED BY <1>5, <2>1 DEF Types
<1>7. TeesTrue'
  BY <1>1, <1>5, DescendTees
<1>8. ASSUME NEW d \in Conns PROVE ConnTrue(d)' /\ FlowTrue(d)'
  <2>1. ConnTrue(d)'
    BY <1>1, ConnStays DEF FirstEngine, Types, Counter
  <2>2. CASE at[d] \in Before /\ Id(d) = t.id
    <3>1. t.side = "request"
      BY <1>2, <2>2 DEF FirstEngine, ConnsTrue, ConnTrue, Serving
    <3>2. \A e \in Entries' : e.id = t.id => e.data.state \notin Final
      BY <1>3, <1>4, <1>5, <2>2, <3>1, FlowFacts DEF FirstEngine, FlowsTrue, FlowTrue
    <3>3. at'[d] = at[d] /\ Id(d)' = Id(d)
      BY <1>1 DEF Id
    <3> QED BY <2>1, <2>2, <3>2, <3>3 DEF FlowTrue, Before, After
  <2>3. CASE ~(at[d] \in Before /\ Id(d) = t.id)
    BY <1>1, <1>5, <2>1, <2>3, DescendFlow
  <2> QED BY <2>2, <2>3
<1>9. ConnsApart'
  BY <1>1 DEF FirstEngine, ConnsApart, Id
<1>10. Stands
  <2> SUFFICES ASSUME NEW e \in Entries, NEW g \in Entries', e.id = g.id, e.data.state \in Final
               PROVE  g.data.state = e.data.state
    BY DEF Stands
  <2>1. CASE e.id = t.id
    BY <1>3, <1>4, <1>5, <2>1
  <2>2. CASE e.id # t.id
    <3>1. PICK f \in Entries : f.id = g.id /\ (g.id # t.id => g = f)
      BY <1>5 DEF Descend
    <3> QED BY <2>2, <3>1 DEF FirstEngine, EntriesApart
  <2> QED BY <2>1, <2>2
<1> QED BY <1>5, <1>6, <1>7, <1>8, <1>9, <1>10 DEF FirstEngine, ConnsTrue, FlowsTrue

LEMMA ClearInv == ASSUME FirstEngine, Clear PROVE FirstEngine' /\ Stands
<1>1. /\ log' = <<>> /\ UNCHANGED <<nextSeq, at, own, now, pending, popped, tees>>
  BY DEF Clear, Store!Clear, conn
<1>2. Entries' = {} /\ Counter' = Counter /\ \A c \in Conns : Id(c)' = Id(c)
  BY <1>1 DEF Entries, Counter, Id
<1>3. Types'
  <2>1. log' \in Seq(Entry)
    BY <1>1
  <2> QED BY <1>1, <1>2, <2>1 DEF FirstEngine, Types
<1>4. EntriesTrue' /\ EntriesApart' /\ TeesTrue' /\ Stands
  BY <1>1, <1>2 DEF FirstEngine, EntriesTrue, EntriesApart, TeesTrue, Stands
<1>5. ConnsTrue' /\ FlowsTrue' /\ ConnsApart'
  BY <1>1, <1>2 DEF FirstEngine, ConnsTrue, ConnTrue, FlowsTrue, FlowTrue, ConnsApart
<1> QED BY <1>3, <1>4, <1>5 DEF FirstEngine

------------------------------------------------------------------------------
(* Every step, put together. *)
LEMMA HandlerInv ==
  ASSUME FirstEngine, NEW c \in Conns, Handler(c)
  PROVE  FirstEngine' /\ Stands
<1> USE DEF Handler
<1>0. pending \in [Conns -> Seq(Nat)]
  BY DEF FirstEngine, Types
<1>1. CASE Tunnel(c)
  BY <1>1, DescribeInv DEF Tunnel
<1>2. CASE Block(c)
  BY <1>2, DescribeInv DEF Block
<1>3. CASE MapLocal(c)
  BY <1>3, DescribeInv DEF MapLocal
<1>4. CASE Upgrade(c)
  BY <1>4, DescribeInv DEF Upgrade
<1>5. CASE Forward(c)
  BY <1>5, DescribeInv DEF Forward
<1>6. CASE Pause(c)
  <2>1. at[c] \in Before /\ pending[c] = <<>>
    BY <1>6 DEF Pause, Go, Before, FirstEngine, ConnsTrue, ConnTrue
  <2> QED BY <1>0, <1>6, <2>1, StateInv DEF Pause, Go, Id
<1>7. CASE ScriptAbort(c)
  <2>1. at[c] \in Before /\ pending[c] = <<>>
    BY <1>7 DEF ScriptAbort, Go, Before, FirstEngine, ConnsTrue, ConnTrue
  <2> QED BY <1>0, <1>7, <2>1, StateInv DEF ScriptAbort, Go, Id
<1>8. CASE Send(c)
  <2>1. pending[c] = <<>> /\ Id(c) \in Nat
    BY <1>8 DEF Send, Go, FirstEngine, ConnsTrue, ConnTrue, Serving, Before
  <2>2. /\ pending' \in [Conns -> Seq(Nat)] /\ pending'[c] = <<Id(c)>>
        /\ \A d \in Conns : d # c => pending'[d] = pending[d]
    BY <1>0, <1>8, <2>1 DEF Send, Id
  <2>3. own' \in [Conns -> {1}] /\ "upstream" \in Places
    BY <1>8 DEF Send, FirstEngine, Types, Places, Serving, Before
  <2>4. Keeps(c, "upstream")
    BY <1>8, <2>2, <2>3, SameKeeps DEF Send
  <2> QED BY <1>8, <2>2, <2>4, TeeInv DEF Send, Go, Id
<1>9. CASE Stream(c)
  <2>1. UNCHANGED <<log, nextSeq, own, now, pending, popped, tees>>
        /\ at[c] = "answering" /\ at' = [at EXCEPT ![c] = "streaming"]
    BY <1>9 DEF Stream, Go
  <2>2. own' \in [Conns -> {1}]
    BY <2>1 DEF FirstEngine, Types
  <2>3. "streaming" \in Places
    BY DEF Places, Serving, After
  <2>4. Keeps(c, "streaming") /\ pending'[c] = <<>>
    BY <1>0, <2>1, <2>2, <2>3, SameKeeps DEF FirstEngine, ConnsTrue, ConnTrue
  <2> QED BY <2>1, <2>3, <2>4, QuietInv
<1> QED BY <1>1, <1>2, <1>3, <1>4, <1>5, <1>6, <1>7, <1>8, <1>9

LEMMA UpstreamInv ==
  ASSUME FirstEngine, NEW c \in Conns, Upstream(c)
  PROVE  FirstEngine' /\ Stands
<1>0. pending \in [Conns -> Seq(Nat)]
  BY DEF FirstEngine, Types
<1>1. CASE Respond(c)
  BY <1>1, RespondInv
<1>2. CASE Fail(c)
  <2>1. at[c] \in Before /\ at' = [at EXCEPT ![c] = "open"]
    BY <1>2 DEF Fail, Go, Before
  <2>2. pending[c] = <<Id(c)>> /\ Id(c) \in Nat
    BY <1>2 DEF Fail, Go, FirstEngine, ConnsTrue, ConnTrue, Serving, Before
  <2>3. Head(pending[c]) = Id(c) /\ Tail(pending[c]) = <<>>
    BY <2>2
  <2>4. /\ pending' \in [Conns -> Seq(Nat)] /\ pending'[c] = <<>>
        /\ \A d \in Conns : d # c => pending'[d] = pending[d]
    BY <1>0, <1>2, <2>3 DEF Fail
  <2> QED BY <1>2, <2>1, <2>3, <2>4, StateInv DEF Fail
<1>3. CASE EndBody(c)
  <2>1. /\ at[c] = "streaming" /\ at' = [at EXCEPT ![c] = "open"]
        /\ UNCHANGED <<log, nextSeq, own, now, pending, popped>>
    BY <1>3 DEF EndBody, Go
  <2>2. popped[c] = Id(c) /\ pending[c] = <<>>
    BY <2>1 DEF FirstEngine, ConnsTrue, ConnTrue, After
  <2>3. Captured(Id(c), "response", now[c], FALSE)
    BY <1>3, <2>2 DEF EndBody
  <2>4. own' \in [Conns -> {1}] /\ "open" \in Places
    BY <2>1 DEF FirstEngine, Types, Places
  <2>5. Keeps(c, "open")
    BY <1>0, <2>1, <2>4, SameKeeps
  <2> QED BY <2>1, <2>2, <2>3, <2>5, TeeInv
<1>4. CASE CutBody(c)
  <2>1. /\ at[c] = "streaming" /\ at' = [at EXCEPT ![c] = "closed"]
        /\ UNCHANGED <<log, nextSeq>> /\ Drop(c)
    BY <1>4 DEF CutBody, Go
  <2>2. popped[c] = Id(c)
    BY <2>1 DEF FirstEngine, ConnsTrue, ConnTrue, After
  <2>3. Captured(Id(c), "response", now[c], TRUE)
    BY <1>4, <2>2 DEF CutBody
  <2> QED BY <2>1, <2>3, DropKeeps, TeeInv
<1> QED BY <1>1, <1>2, <1>3, <1>4 DEF Upstream

LEMMA UserInv ==
  ASSUME FirstEngine, NEW c \in Conns, User(c)
  PROVE  FirstEngine' /\ Stands
<1>0. pending \in [Conns -> Seq(Nat)]
  BY DEF FirstEngine, Types
<1>1. at[c] \in Before /\ pending[c] = <<>>
  BY DEF User, Continue, Abort, Go, Before, FirstEngine, ConnsTrue, ConnTrue
<1>2. CASE Continue(c)
  BY <1>0, <1>1, <1>2, StateInv DEF Continue, Go, Id
<1>3. CASE Abort(c)
  BY <1>0, <1>1, <1>3, StateInv DEF Abort, Go, Id
<1> QED BY <1>2, <1>3 DEF User

LEMMA ConnInv ==
  ASSUME FirstEngine, engine = 1, NEW c \in Conns,
         Open(c) \/ Close(c) \/ Number(c) \/ ClientGone(c)
  PROVE  FirstEngine' /\ Stands
<1>0. pending \in [Conns -> Seq(Nat)] /\ own \in [Conns -> {1}]
  BY DEF FirstEngine, Types
<1>1. "open" \in Places /\ "closed" \in Places
  BY DEF Places
<1>2. CASE Open(c)
  <2>1. own' \in [Conns -> {1}]
    BY <1>0, <1>2 DEF Open
  <2>2. Keeps(c, "open") /\ pending'[c] = <<>>
    BY <1>0, <1>1, <1>2, <2>1, SameKeeps DEF Open, Go, FirstEngine, ConnsTrue, ConnTrue
  <2> QED BY <1>1, <1>2, <2>1, <2>2, QuietInv DEF Open, Go
<1>3. CASE Close(c)
  <2>1. UNCHANGED <<log, nextSeq, tees>> /\ at' = [at EXCEPT ![c] = "closed"] /\ Drop(c)
    BY <1>3 DEF Close, Go
  <2> QED BY <1>1, <2>1, DropKeeps, QuietInv
<1>4. CASE Number(c)
  BY <1>4, NumberInv
<1>5. CASE ClientGone(c)
  <2>1. UNCHANGED <<log, nextSeq, tees>> /\ at' = [at EXCEPT ![c] = "closed"] /\ Drop(c)
    BY <1>5 DEF ClientGone, Go
  <2> QED BY <1>1, <2>1, DropKeeps, QuietInv
<1> QED BY <1>2, <1>3, <1>4, <1>5

LEMMA ExchangeInitInv == Init => ExchangeInv
<1> SUFFICES ASSUME Init PROVE engine \in Nat \ {0} /\ FirstEngine
  BY DEF ExchangeInv
<1>1. log = <<>> /\ Entries = {} /\ tees = {}
  BY DEF Init, Store!Init, Entries
<1>2. Types
  <2>1. log \in Seq(Entry)
    BY <1>1
  <2>2. DOMAIN nextSeq = 1..MaxEngines /\ Counter \in Nat
    BY ExchangeAssumption DEF Init, Counter
  <2>3. at \in [Conns -> Places] /\ pending \in [Conns -> Seq(Nat)]
    BY DEF Init, Places
  <2>4. /\ own \in [Conns -> {1}] /\ now \in [Conns -> Xs \union {NoExchange}]
        /\ popped \in [Conns -> Nat] /\ tees \subseteq Tees
    BY <1>1 DEF Init
  <2> QED BY <2>1, <2>2, <2>3, <2>4 DEF Types
<1>3. EntriesTrue /\ EntriesApart /\ TeesTrue
  BY <1>1 DEF EntriesTrue, EntriesApart, TeesTrue
<1>4. \A c \in Conns : at[c] = "closed"
  BY DEF Init
<1>5. ConnsTrue /\ ConnsApart /\ FlowsTrue
  BY <1>4 DEF Init, ConnsTrue, ConnTrue, ConnsApart, FlowsTrue, FlowTrue, Serving, Before, After
<1> QED BY <1>2, <1>3, <1>5 DEF FirstEngine, Init

LEMMA ExchangeNextInv ==
  ASSUME ExchangeInv, [Next]_vars
  PROVE  ExchangeInv' /\ (engine' = 1 => FirstEngine /\ FirstEngine' /\ Stands)
<1> USE DEF ExchangeInv
<1>1. CASE Restart
  BY <1>1 DEF Restart
<1>2. ASSUME engine' = engine, engine = 1, [Next]_vars, ~Restart
      PROVE  FirstEngine' /\ Stands
  <2>1. FirstEngine
    BY <1>2
  <2>2. CASE UNCHANGED vars
    <3>1. UNCHANGED <<log, nextSeq, at, own, now, pending, popped, tees>>
      BY <2>2 DEF vars, conn
    <3>2. FirstEngine'
      <4>1. Entries' = Entries /\ Counter' = Counter /\ \A c \in Conns : Id(c)' = Id(c)
        BY <3>1 DEF Entries, Counter, Id
      <4>2. Types' /\ EntriesTrue' /\ EntriesApart' /\ TeesTrue'
        BY <2>1, <3>1, <4>1 DEF FirstEngine, Types, EntriesTrue, True, EntriesApart, TeesTrue
      <4>3. ConnsTrue'
        BY <2>1, <3>1, <4>1 DEF FirstEngine, ConnsTrue, ConnTrue
      <4>4. ConnsApart' /\ FlowsTrue'
        BY <2>1, <3>1, <4>1 DEF FirstEngine, ConnsApart, FlowsTrue, FlowTrue
      <4> QED BY <4>2, <4>3, <4>4 DEF FirstEngine
    <3>3. Stands
      BY <2>1, <3>1 DEF FirstEngine, EntriesApart, Stands, Entries
    <3> QED BY <3>2, <3>3
  <2>3. CASE Clear
    BY <2>1, <2>3, ClearInv
  <2>4. CASE \E t \in tees : Fold(t)
    BY <2>1, <2>4, FoldInv
  <2>5. ASSUME NEW c \in Conns, Open(c) \/ Close(c) \/ Number(c) \/ ClientGone(c)
        PROVE  FirstEngine' /\ Stands
    BY <1>2, <2>1, <2>5, ConnInv
  <2>6. ASSUME NEW c \in Conns, Handler(c) \/ Upstream(c) \/ User(c)
        PROVE  FirstEngine' /\ Stands
    BY <2>1, <2>6, HandlerInv, UpstreamInv, UserInv
  <2> QED BY <1>2, <2>2, <2>3, <2>4, <2>5, <2>6 DEF Next
<1>3. Restart \/ engine' = engine
  <2>1. CASE UNCHANGED vars
    BY <2>1 DEF vars
  <2>2. CASE Clear \/ \E t \in tees : Fold(t)
    BY <2>2 DEF Clear, Fold
  <2>3. ASSUME NEW c \in Conns, Open(c) \/ Close(c) \/ Number(c) \/ ClientGone(c)
        PROVE  engine' = engine
    BY <2>3 DEF Open, Close, Number, ClientGone
  <2>4. ASSUME NEW c \in Conns, Handler(c)
        PROVE  engine' = engine
    BY <2>4 DEF Handler, Tunnel, Block, MapLocal, Upgrade, Forward, Describe, Pause, ScriptAbort, Send, Stream
  <2>5. ASSUME NEW c \in Conns, Upstream(c) \/ User(c)
        PROVE  engine' = engine
    BY <2>5 DEF Upstream, User, Respond, Fail, EndBody, CutBody, Continue, Abort
  <2> QED BY <2>1, <2>2, <2>3, <2>4, <2>5 DEF Next
<1> QED BY <1>1, <1>2, <1>3

(* The invariant holds in every reachable state.                           *)
THEOREM ExchangeInductive == Spec => []ExchangeInv
<1>1. Init => ExchangeInv
  BY ExchangeInitInv
<1>2. ExchangeInv /\ [Next]_vars => ExchangeInv'
  BY ExchangeNextInv
<1> QED BY <1>1, <1>2, PTL DEF Spec

(* Within one engine a flow holds one exchange: what is pushed to and      *)
(* popped from the queue of a connection, and what is teed, folded, failed *)
(* or evicted meanwhile, never mixes two of them.                          *)
THEOREM ExchangesStayApart == Spec => []OneExchangePerFlow
<1>1. ExchangeInv => OneExchangePerFlow
  BY DEF ExchangeInv, FirstEngine, EntriesTrue, True, Entries, OneExchangePerFlow, Retained
<1> QED BY <1>1, ExchangeInductive, PTL

(* Within one engine a forwarded flow is completed only by a response that *)
(* was recorded for its own exchange and what was captured of its body.    *)
THEOREM CompletionsAreAnswered == Spec => []CompletedIsAnswered
<1>1. ExchangeInv => CompletedIsAnswered
  BY DEF ExchangeInv, FirstEngine, EntriesTrue, True, Entries, CompletedIsAnswered, Retained
<1> QED BY <1>1, ExchangeInductive, PTL

(* Within one engine the outcome of a flow is never taken back.            *)
THEOREM OutcomesStand == Spec => OutcomeStands
<1> DEFINE Kept == engine' = 1 => \A f \in Retained : f.state \in Final =>
                      \A g \in Retained' : g.x = f.x => g.state = f.state
<1>1. ExchangeInv /\ [Next]_vars => [Kept]_vars
  <2> SUFFICES ASSUME ExchangeInv, [Next]_vars, engine' = 1,
                      NEW e \in Entries, NEW h \in Entries',
                      e.data.state \in Final, h.data.x = e.data.x
               PROVE  h.data.state = e.data.state
    BY DEF Retained, Entries
  <2>1. FirstEngine /\ FirstEngine' /\ Stands
    BY ExchangeNextInv
  <2>2. e.data.x = <<1, e.id>> /\ h.data.x = <<1, h.id>>
    BY <2>1 DEF FirstEngine, EntriesTrue, True
  <2>3. e.id = h.id
    BY <2>2
  <2> QED BY <2>1, <2>3 DEF Stands
<1> HIDE DEF Kept
<1>2. Spec => [][Kept]_vars
  BY <1>1, ExchangeInductive, PTL DEF Spec
<1> QED BY <1>2 DEF Kept, OutcomeStands
=============================================================================
