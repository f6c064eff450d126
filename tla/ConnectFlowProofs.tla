------------------------- MODULE ConnectFlowProofs -------------------------
(***************************************************************************)
(* Proofs about ConnectFlow for every number of connections, commands and  *)
(* failures.                                                               *)
(***************************************************************************)
EXTENDS ConnectFlow, TLAPS

-----------------------------------------------------------------------------
(* The inductive invariant, in parts.                                      *)

Early == {"serve", "entitle", "checkout", "create"}
Updates == {"resume", "share", "pause"}

\* Which step belongs to which command, and which connection it is about.
Formed(command) ==
    /\ command.at = "idle" => command = Idle
    /\ command.at \in {"clean", "verify"} \cup Early => command.op = "connect"
    /\ command.at = "stop" => command.op \in {"share", "pause"}
    /\ command.at = "file" => command.op \in {"connect"} \cup Updates
    /\ command.at = "install" => command.op \in {"connect", "resume", "share"}
    /\ command.at \in {"remote", "uninstall", "remove"} => command.op = "delete"
    /\ command.at = "approve" => command.op = "signIn"
    /\ command.at = "config" => command.op # "none"
    /\ command.op = "connect" => (command.conn = Other <=> command.at \in Early)
    /\ command.op = "delete" => command.conn # Other
    /\ command.op \in Updates => command.conn # Other /\ command.conn \in command.copy.conns
    /\ command.op \in {"none", "signIn", "signOut"} => command.conn = Other
    /\ command.op # "connect" \/ command.at \in Early => command.replaced = {}
    /\ command.conn \notin command.replaced
    /\ command.at = "install" => command.conn \in command.copy.conns

FormedInv == \A p \in Procs : Formed(proc[p])

\* Nothing is about a connection that has not been made.
Made(p) == /\ proc[p].conn \in 0 .. made
           /\ proc[p].replaced \cup proc[p].copy.conns \subseteq 1 .. made

MadeInv == /\ \A p \in Procs : Made(p)
           /\ \A c \in Conns : c > made => remote[c] = "none"

\* The connections that p alone may make, remove or clean away; those it has still to
\* clean away others may write as well.
Owned(p) == ({proc[p].conn} \ {Other}) \cup (proc[p].replaced \ proc[p].copy.conns)

Clashed(c) == Marked(c, {"clashed"})

\* When two commands came to own one, they clashed.
OwnersInv ==
    \A p, q \in Procs : p # q => \A c \in Owned(p) \cap Owned(q) : Clashed(c)

\* The connection of a command is where the command believes it to be.
Placed(p) ==
    \/ Clashed(proc[p].conn)
    \/ /\ proc[p].op \in Updates \/ proc[p].at \in {"install", "verify"}
              => proc[p].conn \in cfg.conns
       /\ proc[p].at \in {"install", "verify"} => proc[p].conn \in files
       /\ proc[p].at = "config" /\ proc[p].op \in {"connect", "share"}
              => proc[p].conn \in files
       /\ proc[p].op = "connect" /\ proc[p].at \in {"clean", "file", "config"}
              => proc[p].conn \notin services \cup agents

\* What a command is about to take off the list is gone, or there is a cause.
Deleted(c) == remote[c] = "none" \/ Marked(c, {"unverified"})

Cleared(p) ==
    /\ \A c \in proc[p].replaced :
          remote[c] = "none" /\ (c \in proc[p].copy.conns \/ Clashed(c) \/ Explained(c))
    /\ proc[p].op = "delete" =>
          /\ proc[p].at \in {"uninstall", "remove"} => Deleted(proc[p].conn)
          /\ proc[p].at = "remove" => Clashed(proc[p].conn) \/ proc[p].conn \notin services
          /\ proc[p].at = "config" => Clashed(proc[p].conn) \/ Explained(proc[p].conn)

\* The owner knows of whatever was listed when a command began, or is about to.
Told(c) == Marked(c, {"known", "killed", "failed", "rolledBack"}) \/ Finishing(c)

Known(p) == \A c \in proc[p].copy.conns : Told(c)

CommandsInv ==
    \A p \in Procs : (proc[p].conn # Other => Placed(p)) /\ Cleared(p) /\ Known(p)

IInv ==
    /\ TypeOK /\ FormedInv /\ MadeInv /\ OwnersInv /\ CommandsInv
    /\ NothingIsForgotten /\ KeyIsReturned

-----------------------------------------------------------------------------
(* What a step does to the connections and to the other command.           *)

MarksGrow == fate' \in [Conns -> SUBSET Marks] /\ \A c \in Conns : fate[c] \subseteq fate'[c]

\* Marks stay, connections are made one after the other, and no key is lost on the way.
Grows ==
    /\ MarksGrow
    /\ made' \in {made, made + 1}
    /\ \A c \in Conns : \/ remote'[c] \in {remote[c], "none"}
                        \/ c = made' /\ c > made
    /\ \A c \in Conns : Told(c) => Told(c)'

\* A step that at most takes c away, but not from the list.
Lessens(c) ==
    /\ c \in cfg.conns => c \in cfg'.conns \/ Clashed(c)'
    /\ c \in files' => c \in files \cup agents
    /\ c \in services' => c \in services
    /\ c \in agents' => c \in agents \cup services
    /\ remote'[c] \in {remote[c], "none"}

\* All that an agent, or a command that is not about c, may do to it.
Calm(c) == Lessens(c) /\ (c \in files => c \in files')

\* Nobody but p is about c, unless they clash.
Alone(p, c) == \A q \in Procs \ {p} : c \in Owned(q) => Clashed(c)'

Settled(c) == c \in cfg.conns \/ UnderWay(c) \/ Clashed(c) \/ Explained(c)

Types ==
    /\ account \in {"trial", "over", "paid"} /\ session \in BOOLEAN
    /\ remote \in [{Other} \cup Conns -> {"none", "trial", "permanent"}]
    /\ made \in 0 .. MaxConns
    /\ cfg \in Config
    /\ files \cup services \cup agents \cup cfg.conns \subseteq 1 .. made
    /\ fate \in [Conns -> SUBSET Marks]
    /\ faults \in 0 .. MaxFaults /\ begun \in 0 .. MaxCommands
    /\ proc \in [Procs -> Commands]

\* What is true of a command of its own, and what there is to show of a step of p.
Own(p) == Formed(proc[p]) /\ Made(p) /\ (proc[p].conn # Other => Placed(p)) /\ Cleared(p) /\ Known(p)

Others(p) == \A q \in Procs \ {p} : proc'[q] = proc[q]

Kept(p) ==
    /\ Types' /\ Others(p) /\ Grows
    /\ \A c \in Conns : Calm(c) \/ Alone(p, c)
    /\ \A c \in Owned(p)' \ Owned(p) : Alone(p, c)
    /\ Own(p)' /\ NothingIsForgotten' /\ KeyIsReturned'

\* TypeOK is the types of the variables and where an installed connection has its file.
LEMMA TypesOfTypeOK ==
    /\ TypeOK => Types
    /\ Types /\ FormedInv /\ CommandsInv => TypeOK
<1>1. TypeOK => Types
  BY DEF TypeOK, Types
<1>2. ASSUME Types, FormedInv, CommandsInv, NEW p \in Procs, proc[p].at \in {"install", "verify"}
      PROVE  proc[p].conn \in files \/ Marked(proc[p].conn, {"clashed"})
  BY <1>2 DEF CommandsInv, Placed, FormedInv, Formed, Early, Updates, Clashed
<1> QED
  BY <1>1, <1>2 DEF TypeOK, Types

\* Connections are numbered in the order they are made.
LEMMA MadeAreConns ==
    ASSUME Types
    PROVE  /\ 1 .. made \subseteq Conns /\ made \in Nat /\ Other \notin Conns
           /\ \A p \in Procs : proc[p] \in Commands
  BY BoundsAssumption DEF Types, Conns, Other

\* What the invariant says of command p.
LEMMA OwnOfIInv ==
    ASSUME IInv, NEW p \in Procs
    PROVE  /\ Types /\ 1 .. made \subseteq Conns /\ made \in Nat /\ proc[p] \in Commands
           /\ Own(p) /\ Owned(p) \subseteq 1 .. made
           /\ proc[p].replaced \cup proc[p].copy.conns \subseteq 1 .. made
<1>1. Types /\ 1 .. made \subseteq Conns /\ made \in Nat /\ proc[p] \in Commands
  BY TypesOfTypeOK, MadeAreConns DEF IInv
<1>2. Own(p)
  BY DEF IInv, FormedInv, MadeInv, CommandsInv, Own
<1>3. Owned(p) \subseteq 1 .. made
  BY <1>1 DEF Owned, IInv, MadeInv, Made, Other
<1> QED
  BY <1>1, <1>2, <1>3 DEF Own, Made

\* A mark stays, and so does whatever a calm step leaves alone.
LEMMA CalmKeeps ==
    ASSUME Types, Grows, NEW c \in Conns, c <= made
    PROVE  /\ \A marks : Marked(c, marks) => Marked(c, marks)'
           /\ Clashed(c) => Clashed(c)'
           /\ remote[c] = "none" => remote'[c] = "none"
           /\ Deleted(c) => Deleted(c)'
           /\ Calm(c) /\ Explained(c) => Explained(c)'
<1>1. fate[c] \subseteq fate'[c]
  BY DEF Grows, MarksGrow
<1>2. \A marks : Marked(c, marks) => Marked(c, marks)'
  BY <1>1 DEF Marked
<1>3. remote[c] = "none" => remote'[c] = "none"
  BY DEF Grows, Conns, Types
<1>4. Calm(c) /\ Explained(c) => Explained(c)'
  BY <1>1 DEF Calm, Lessens, Explained, Marked
<1> QED
  BY <1>1, <1>2, <1>3, <1>4 DEF Clashed, Deleted, Marked

\* This is where two commands meet: a step that is calm about what command q owns, or
\* clashes with it, keeps what is known of q.
LEMMA OthersAreKept ==
    ASSUME IInv, Types', Grows, NEW q \in Procs, proc'[q] = proc[q],
           \A c \in Owned(q) : Calm(c) \/ Clashed(c)'
    PROVE  Own(q)' /\ Owned(q)' = Owned(q)
<1>1. /\ Types /\ 1 .. made \subseteq Conns /\ made \in Nat /\ Own(q) /\ Owned(q) \subseteq 1 .. made
      /\ proc[q].replaced \cup proc[q].copy.conns \subseteq 1 .. made
  BY OwnOfIInv
<1>2. Owned(q)' = Owned(q)
  BY DEF Owned
<1>3. Formed(proc[q])'
  BY <1>1 DEF Own, Formed
<1>4. Made(q)'
  BY <1>1 DEF Own, Made, Grows
<1>5. proc[q].conn # Other => Placed(q)'
  <2> SUFFICES ASSUME proc[q].conn # Other, ~Clashed(proc[q].conn)' PROVE Placed(q)'
    BY DEF Placed, Clashed, Marked
  <2>1. proc[q].conn \in Owned(q) /\ proc[q].conn \in Conns /\ proc[q].conn <= made
    BY <1>1 DEF Owned
  <2>2. Calm(proc[q].conn) /\ ~Clashed(proc[q].conn)
    BY <1>1, <2>1, CalmKeeps
  <2> QED
    BY <1>1, <2>2 DEF Own, Placed, Calm, Lessens, Clashed, Marked
<1>6. Cleared(q)'
  <2>1. ASSUME NEW c \in proc[q].replaced
        PROVE  remote'[c] = "none" /\ (c \in proc[q].copy.conns \/ Clashed(c)' \/ Explained(c)')
    <3>1. c \in Conns /\ c <= made
      BY <1>1
    <3>2. c \in Owned(q) \/ c \in proc[q].copy.conns
      BY DEF Owned
    <3> QED
      BY <1>1, <3>1, <3>2, CalmKeeps DEF Own, Cleared
  <2>2. ASSUME proc[q].op = "delete", NEW c \in {proc[q].conn}
        PROVE  /\ Deleted(c) => Deleted(c)'
               /\ Clashed(c) \/ c \notin services => Clashed(c)' \/ c \notin services'
               /\ Clashed(c) \/ Explained(c) => Clashed(c)' \/ Explained(c)'
    <3>1. c \in Owned(q) /\ c \in Conns /\ c <= made
      BY <1>1, <2>2 DEF Own, Formed, Owned
    <3> QED
      BY <1>1, <3>1, CalmKeeps DEF Calm, Lessens
  <2> QED
    BY <1>1, <2>1, <2>2 DEF Own, Cleared, Clashed, Explained, Deleted, Marked
<1>7. Known(q)'
  BY <1>1 DEF Own, Known, Grows
<1> QED
  BY <1>2, <1>3, <1>4, <1>5, <1>6, <1>7 DEF Own

\* What all commands keep of their own adds up.
LEMMA OwnAddsUp ==
    ASSUME IInv, Types', Grows, \A q \in Procs : Own(q)'
    PROVE  TypeOK' /\ FormedInv' /\ MadeInv' /\ CommandsInv'
<1>1. Types /\ made \in Nat
  BY TypesOfTypeOK, MadeAreConns DEF IInv
<1>2. FormedInv' /\ CommandsInv'
  BY DEF Own, FormedInv, CommandsInv
<1>3. \A c \in Conns : c > made' => remote'[c] = "none"
  BY <1>1 DEF Grows, IInv, MadeInv, Conns
<1>4. MadeInv'
  BY <1>3 DEF Own, MadeInv
<1>5. TypeOK'
  BY <1>2, TypesOfTypeOK, PTL
<1> QED
  BY <1>2, <1>4, <1>5

\* A step that keeps what there is to show of it keeps the invariant.
LEMMA StepKeepsAll ==
    ASSUME IInv, NEW p \in Procs, Kept(p)
    PROVE  IInv'
<1>1. /\ \A q \in Procs : Owned(q) \subseteq Conns
      /\ \A q \in Procs \ {p} : proc'[q] = proc[q]
      /\ Types
  <2>1. \A q \in Procs : Owned(q) \subseteq Conns
    BY OwnOfIInv
  <2> QED
    BY <2>1, TypesOfTypeOK DEF Kept, Others, IInv
<1>2. \A q \in Procs \ {p} : Own(q)' /\ Owned(q)' = Owned(q)
  <2> SUFFICES ASSUME NEW q \in Procs \ {p}, NEW c \in Owned(q) PROVE Calm(c) \/ Clashed(c)'
    BY <1>1, OthersAreKept DEF Kept
  <2> QED
    BY <1>1 DEF Kept, Alone
<1>3. TypeOK' /\ FormedInv' /\ MadeInv' /\ CommandsInv'
  BY <1>2, OwnAddsUp DEF Kept
<1>4. OwnersInv'
  <2>1. ASSUME NEW q \in Procs, NEW r \in Procs \ {q}, r # p, NEW c \in Owned(q)' \cap Owned(r)'
        PROVE  Clashed(c)'
    <3>1. c \in Owned(r) /\ c \in Conns
      BY <1>1, <1>2, <2>1
    <3>2. CASE q = p /\ c \notin Owned(p)
      BY <2>1, <3>1, <3>2 DEF Kept, Alone
    <3>3. CASE q # p \/ c \in Owned(p)
      <4>1. c \in Owned(q)
        BY <1>2, <2>1, <3>3
      <4> QED
        BY <2>1, <3>1, <4>1 DEF IInv, OwnersInv, Kept, Grows, MarksGrow, Clashed, Marked
    <3> QED
      BY <3>2, <3>3
  <2> SUFFICES ASSUME NEW q \in Procs, NEW r \in Procs \ {q}, NEW c \in Owned(q)' \cap Owned(r)'
               PROVE  Clashed(c)'
    BY DEF OwnersInv, Clashed, Marked, Owned
  <2> QED
    BY <2>1
<1> QED
  BY <1>3, <1>4 DEF IInv, Kept

\* A connection that a step leaves alone stays settled.
LEMMA CalmIsSettled ==
    ASSUME IInv, NEW p \in Procs, Types', Others(p), Grows, NEW c \in Conns, Lessens(c),
           ~(proc[p].op = "connect" /\ proc[p].conn = c /\ proc[p].at \in {"clean", "file", "config"})
    PROVE  Settled(c)'
<1>1. Settled(c)
  BY DEF IInv, NothingIsForgotten, Settled, Clashed
<1>2. UnderWay(c) => UnderWay(c)'
  BY DEF UnderWay, Others
<1>3. fate[c] \subseteq fate'[c]
  BY DEF Grows, MarksGrow
<1> QED
  BY <1>1, <1>2, <1>3 DEF Settled, Lessens, Clashed, Explained, Marked

LEMMA SettledIsEnough ==
    ASSUME \A c \in Conns : Settled(c)'
    PROVE  NothingIsForgotten'
  BY DEF Settled, NothingIsForgotten, Clashed

-----------------------------------------------------------------------------
(* Steps that are calm about every connection.                             *)

LEMMA MarkFacts ==
    ASSUME NEW marks \in [Conns -> SUBSET Marks], NEW conns, NEW mark \in Marks
    PROVE  /\ Mark(marks, conns, mark) \in [Conns -> SUBSET Marks]
           /\ \A c \in Conns : /\ marks[c] \subseteq Mark(marks, conns, mark)[c]
                               /\ c \in conns => mark \in Mark(marks, conns, mark)[c]
  BY DEF Mark

\* No key is lost when what p was about to return is returned, or marked.
LEMMA ToldIsKept ==
    ASSUME NEW p \in Procs, Others(p), MarksGrow,
           \A c \in Conns : proc[p].op = "connect" /\ proc[p].conn = c
                              /\ proc[p].at \in {"install", "verify"} => Told(c)'
    PROVE  \A c \in Conns : Told(c) => Told(c)'
<1> SUFFICES ASSUME NEW c \in Conns, Told(c) PROVE Told(c)'
  OBVIOUS
<1>1. fate[c] \subseteq fate'[c]
  BY DEF MarksGrow
<1>2. CASE Finishing(c)
  <2>1. PICK q \in Procs : proc[q].op = "connect" /\ proc[q].conn = c /\ proc[q].at \in {"install", "verify"}
    BY <1>2 DEF Finishing
  <2>2. CASE q = p
    BY <2>1, <2>2
  <2>3. CASE q # p
    BY <2>1, <2>3 DEF Finishing, Others, Told
  <2> QED
    BY <2>2, <2>3
<1>3. CASE ~Finishing(c)
  BY <1>1, <1>3 DEF Told, Marked
<1> QED
  BY <1>2, <1>3

\* What there is to show of a step that is calm about every connection and writes neither
\* the list nor a new connection.
Quiet(p) ==
    /\ Types' /\ Others(p) /\ MarksGrow
    /\ UNCHANGED <<made, cfg>>
    /\ \A c \in Conns : Calm(c)
    /\ \A c \in Conns : proc[p].op = "connect" /\ proc[p].conn = c =>
          /\ proc[p].at \in {"clean", "file", "config"} => Settled(c)'
          /\ proc[p].at \in {"install", "verify"} => Told(c)'

LEMMA QuietGrows ==
    ASSUME NEW p \in Procs, Quiet(p)
    PROVE  Grows
  BY ToldIsKept DEF Quiet, Grows, Calm, Lessens

LEMMA QuietStep ==
    ASSUME IInv, NEW p \in Procs, Quiet(p), Own(p)',
           \A c \in Owned(p)' \ Owned(p) : Alone(p, c)
    PROVE  Kept(p)
<1>1. Types /\ Grows
  BY TypesOfTypeOK, QuietGrows DEF IInv
<1>2. NothingIsForgotten'
  <2>1. ASSUME NEW c \in Conns PROVE Settled(c)'
    <3>1. CASE proc[p].op = "connect" /\ proc[p].conn = c /\ proc[p].at \in {"clean", "file", "config"}
      BY <3>1 DEF Quiet
    <3>2. CASE ~(proc[p].op = "connect" /\ proc[p].conn = c /\ proc[p].at \in {"clean", "file", "config"})
      BY <1>1, <2>1, <3>2, CalmIsSettled DEF Quiet, Calm
    <3> QED
      BY <3>1, <3>2
  <2> QED
    BY <2>1, SettledIsEnough
<1>3. KeyIsReturned'
  <2>1. cfg'.conns \cup services' \subseteq cfg.conns \cup services
    BY <1>1, MadeAreConns DEF Quiet, Calm, Lessens, Types
  <2>2. cfg.conns \cup services \subseteq Conns
    BY <1>1, MadeAreConns DEF Types
  <2>3. \A c \in cfg.conns \cup services : Told(c)
    BY DEF IInv, KeyIsReturned, Told
  <2>4. \A c \in cfg'.conns \cup services' : Told(c)'
    BY <1>1, <2>1, <2>2, <2>3 DEF Grows
  <2> QED
    BY <2>4 DEF KeyIsReturned, Told
<1> QED
  BY <1>1, <1>2, <1>3 DEF Kept, Quiet

\* A step that leaves the machine and the control plane alone.
LEMMA NothingHappens ==
    ASSUME Types, UNCHANGED <<remote, machine>>
    PROVE  \A c \in Conns : Calm(c)
  BY DEF Calm, Lessens, machine

\* A step that only takes services and agents away.
LEMMA ServicesGo ==
    ASSUME Types, UNCHANGED <<remote, cfg, files>>, services' \subseteq services, agents' \subseteq agents
    PROVE  \A c \in Conns : Calm(c)
  BY DEF Calm, Lessens

\* Marks that do not change have grown, trivially.
LEMMA SameMarks ==
    ASSUME Types, UNCHANGED fate
    PROVE  MarksGrow
  BY DEF MarksGrow, Types

\* The command that is changed, and the other one.
LEMMA CommandChanged ==
    ASSUME Types, NEW p \in Procs, NEW command \in Commands, proc' = [proc EXCEPT ![p] = command]
    PROVE  proc' \in [Procs -> Commands] /\ proc'[p] = command /\ Others(p)
  BY DEF Types, Others

\* A process without a command is well formed and owns nothing.
LEMMA IdleIsFormed ==
    /\ Idle \in Commands /\ Formed(Idle)
    /\ Idle.op = "none" /\ Idle.at = "idle" /\ Idle.conn = Other /\ Idle.from = {}
    /\ Idle.replaced = {} /\ Idle.copy.conns = {}
  BY DEF Idle, Commands, Config, Formed, Early, Updates, Other

LEMMA EndFacts ==
    ASSUME Types, NEW p \in Procs, End(p), made' \in Nat
    PROVE  /\ proc' \in [Procs -> Commands] /\ proc'[p] = Idle /\ Others(p)
           /\ Own(p)' /\ Owned(p)' = {}
<1>1. proc' \in [Procs -> Commands] /\ proc'[p] = Idle /\ Others(p)
  BY CommandChanged, IdleIsFormed DEF End
<1>2. Own(p)' /\ Owned(p)' = {}
  BY <1>1, IdleIsFormed DEF Own, Owned, Made, Cleared, Known, Other
<1> QED
  BY <1>1, <1>2

\* A command that ends: it remains to show what it leaves.
LEMMA EndStep ==
    ASSUME IInv, NEW p \in Procs, End(p), Quiet(p)
    PROVE  Kept(p)
<1>1. Types /\ made' \in Nat
  BY TypesOfTypeOK, MadeAreConns DEF IInv, Quiet
<1> QED
  BY <1>1, EndFacts, QuietStep

Places == {"uninstall", "remove", "file", "config", "verify", "install"}

\* What a command that goes on keeps: all but where it is.
LEMMA GoFacts ==
    ASSUME Types, NEW p \in Procs, NEW at \in Places, Go(p, at)
    PROVE  /\ proc' \in [Procs -> Commands] /\ Others(p)
           /\ proc'[p].at = at /\ proc'[p].op = proc[p].op /\ proc'[p].conn = proc[p].conn
           /\ proc'[p].copy = proc[p].copy /\ proc'[p].replaced = proc[p].replaced
           /\ Owned(p)' = Owned(p)
<1>1. proc[p] \in Commands
  BY DEF Types
<1>2. [proc[p] EXCEPT !.at = at] \in Commands
  BY <1>1 DEF Commands, Places
<1>3. proc' = [proc EXCEPT ![p] = [proc[p] EXCEPT !.at = at]]
  BY <1>1 DEF Go, Types
<1>4. proc' \in [Procs -> Commands] /\ Others(p) /\ proc'[p] = [proc[p] EXCEPT !.at = at]
  BY <1>2, <1>3, CommandChanged
<1>5. /\ proc'[p].at = at /\ proc'[p].op = proc[p].op /\ proc'[p].conn = proc[p].conn
      /\ proc'[p].copy = proc[p].copy /\ proc'[p].replaced = proc[p].replaced
  BY <1>1, <1>4 DEF Commands
<1> QED
  BY <1>4, <1>5 DEF Owned

\* Its part that does not depend on where it is.
LEMMA GoKeeps ==
    ASSUME IInv, NEW p \in Procs, NEW at \in Places, Go(p, at), Grows
    PROVE  Made(p)' /\ Known(p)'
<1>1. Types /\ 1 .. made \subseteq Conns /\ made \in Nat /\ Own(p) /\ proc[p].copy.conns \subseteq 1 .. made
  BY OwnOfIInv
<1>2. /\ proc'[p].conn = proc[p].conn
      /\ proc'[p].copy = proc[p].copy /\ proc'[p].replaced = proc[p].replaced
  BY <1>1, GoFacts
<1>3. Made(p)'
  BY <1>1, <1>2 DEF Own, Made, Grows
<1>4. \A c \in proc[p].copy.conns : Told(c)'
  BY <1>1 DEF Own, Known, Grows
<1> QED
  BY <1>2, <1>3, <1>4 DEF Known

\* A command that is about no connection, before the step and after it.
LEMMA PlainStep ==
    ASSUME IInv, NEW p \in Procs, UNCHANGED <<remote, made, machine, fate>>, Types',
           NEW command \in Commands, proc' = [proc EXCEPT ![p] = command],
           proc[p].op # "connect" \/ proc[p].at \in Early,
           Formed(command), command.conn = Other, command.replaced = {},
           command.copy.conns \in {{}, cfg.conns, proc[p].copy.conns}
    PROVE  Kept(p)
<1>1. Types /\ 1 .. made \subseteq Conns /\ Own(p) /\ proc[p].copy.conns \subseteq 1 .. made
  BY OwnOfIInv
<1>2. proc'[p] = command /\ Others(p)
  BY <1>1, CommandChanged
<1>3. Quiet(p)
  <2>1. \A c \in Conns : Calm(c)
    BY <1>1, NothingHappens
  <2> QED
    BY <1>1, <1>2, <2>1, SameMarks DEF Quiet, Early, machine
<1>4. Grows
  BY <1>3, QuietGrows
<1>5. Known(p)'
  <2>1. cfg.conns \subseteq Conns /\ \A c \in cfg.conns : Told(c)
    BY <1>1 DEF Types, IInv, KeyIsReturned, Told
  <2>2. proc[p].copy.conns \subseteq Conns /\ \A c \in proc[p].copy.conns : Told(c)
    BY <1>1 DEF Own, Known
  <2>3. \A c \in command.copy.conns : Told(c)'
    BY <1>4, <2>1, <2>2 DEF Grows
  <2> QED
    BY <1>2, <2>3 DEF Known
<1>6. Formed(proc[p])' /\ Made(p)' /\ Cleared(p)'
  <2>1. command.copy.conns \subseteq 1 .. made
    BY <1>1 DEF Types
  <2>2. made \in Nat /\ made' = made
    BY <1>1, MadeAreConns
  <2>3. command.op # "delete"
    BY DEF Formed
  <2> QED
    BY <1>2, <2>1, <2>2, <2>3 DEF Formed, Made, Cleared, Other
<1>7. Own(p)' /\ Owned(p)' = {}
  BY <1>2, <1>5, <1>6 DEF Own, Owned
<1> QED
  BY <1>3, <1>7, QuietStep

\* Everything that happens before a connect has made its connection.
LEMMA EarlySteps ==
    ASSUME IInv, NEW p \in Procs, UNCHANGED begun,
           Serve(p) \/ Entitle(p) \/ Checkout(p) \/ GiveUp(p)
    PROVE  Kept(p)
<1>1. Types /\ proc[p] \in Commands /\ Formed(proc[p])
  BY OwnOfIInv DEF Own
<1>2. /\ proc[p].at \in Early /\ proc[p].op = "connect"
      /\ proc[p].conn = Other /\ proc[p].replaced = {}
  BY <1>1 DEF Serve, Entitle, Checkout, GiveUp, Formed, Early, At
<1>3. UNCHANGED <<server, machine, faults, fate>>
  BY DEF Serve, Entitle, Checkout, GiveUp
<1>4. \E command \in Commands :
         /\ proc' = [proc EXCEPT ![p] = command]
         /\ Formed(command) /\ command.conn = Other /\ command.replaced = {}
         /\ command.copy.conns \in {{}, cfg.conns, proc[p].copy.conns}
  <2>1. CASE Serve(p)
    <3> DEFINE new == [proc[p] EXCEPT !.at = "entitle", !.copy = cfg]
    <3>1. new \in Commands
      BY <1>1 DEF Commands, Types
    <3>2. /\ new.at = "entitle" /\ new.op = "connect" /\ new.conn = Other /\ new.replaced = {}
          /\ new.copy = cfg
      BY <1>1, <1>2 DEF Commands
    <3>3. Formed(new)
      BY <3>2 DEF Formed, Early, Updates
    <3> QED
      BY <1>1, <1>2, <2>1, <3>1, <3>2, <3>3 DEF Serve
  <2>2. CASE Entitle(p) \/ Checkout(p)
    <3>1. PICK at \in {"checkout", "create"}, paid \in BOOLEAN :
             proc' = [proc EXCEPT ![p] = [proc[p] EXCEPT !.at = at, !.paid = paid]]
      BY <1>1, <2>2 DEF Entitle, Checkout, Types
    <3> DEFINE new == [proc[p] EXCEPT !.at = at, !.paid = paid]
    <3>2. new \in Commands
      BY <1>1 DEF Commands
    <3>3. /\ new.at = at /\ new.op = "connect" /\ new.conn = Other /\ new.replaced = {}
          /\ new.copy = proc[p].copy
      BY <1>1, <1>2 DEF Commands
    <3>4. Formed(new)
      BY <3>3 DEF Formed, Early, Updates
    <3> QED
      BY <1>1, <1>2, <3>1, <3>2, <3>3, <3>4
  <2>3. CASE GiveUp(p)
    BY <2>3, IdleIsFormed DEF GiveUp, End
  <2> QED
    BY <2>1, <2>2, <2>3
<1>5. Types'
  <2>1. proc' \in [Procs -> Commands]
    BY <1>1, <1>4 DEF Types
  <2> QED
    BY <1>1, <1>3, <2>1 DEF Types, server, machine
<1> QED
  BY <1>2, <1>3, <1>4, <1>5, PlainStep DEF server

\* What starting a command changes.
LEMMA StartFacts ==
    ASSUME Types, NEW p \in Procs, NEW command, Start(p, command)
    PROVE  /\ proc[p] = Idle /\ proc' = [proc EXCEPT ![p] = command]
           /\ begun' \in 0 .. MaxCommands
  BY BoundsAssumption DEF Start, Types

\* The commands that begin about no connection.
LEMMA PlainBegins ==
    ASSUME IInv, NEW p \in Procs,
           \/ BeginConnect(p) \/ BeginSignIn(p)
           \/ p = "app" /\ BeginSignOut
    PROVE  Kept(p)
<1>1. Types
  BY TypesOfTypeOK DEF IInv
<1>2. /\ proc[p] = Idle /\ begun' \in 0 .. MaxCommands
      /\ UNCHANGED <<account, remote, made, machine, faults, fate>> /\ session' \in BOOLEAN
  BY <1>1, StartFacts DEF BeginConnect, BeginSignIn, BeginSignOut, server, machine, Types
<1>3. \E command \in Commands :
         /\ proc' = [proc EXCEPT ![p] = command]
         /\ Formed(command) /\ command.conn = Other /\ command.replaced = {}
         /\ command.copy.conns \in {{}, cfg.conns, proc[p].copy.conns}
  <2>1. CASE BeginConnect(p)
    <3>1. PICK from \in SUBSET OtherTrials :
             proc' = [proc EXCEPT ![p] = [Idle EXCEPT !.op = "connect", !.at = "serve", !.from = from]]
      BY <2>1 DEF BeginConnect, Start
    <3> DEFINE new == [Idle EXCEPT !.op = "connect", !.at = "serve", !.from = from]
    <3>2. from \subseteq {Other} \cup Conns
      BY <1>1 DEF OtherTrials, Trials, Types
    <3>3. new \in Commands /\ Formed(new) /\ new.conn = Other /\ new.replaced = {} /\ new.copy.conns = {}
      BY <3>2 DEF Early, Updates, Commands, Config, Formed, Idle, Other
    <3> QED
      BY <3>1, <3>3
  <2>2. CASE BeginSignIn(p)
    <3> DEFINE new == [Idle EXCEPT !.op = "signIn", !.at = "approve", !.copy = cfg]
    <3>1. new \in Commands /\ Formed(new) /\ new.conn = Other /\ new.replaced = {} /\ new.copy = cfg
      BY <1>1 DEF Early, Updates, Commands, Config, Formed, Idle, Other, Types
    <3> QED
      BY <2>2, <3>1 DEF BeginSignIn, Start
  <2>3. CASE p = "app" /\ BeginSignOut
    <3> DEFINE new == [Idle EXCEPT !.op = "signOut", !.at = "config", !.copy = cfg]
    <3>1. new \in Commands /\ Formed(new) /\ new.conn = Other /\ new.replaced = {} /\ new.copy = cfg
      BY <1>1 DEF Early, Updates, Commands, Config, Formed, Idle, Other, Types
    <3> QED
      BY <2>3, <3>1 DEF BeginSignOut, Start
  <2> QED
    BY <2>1, <2>2, <2>3
<1>4. proc[p].op # "connect"
  BY <1>2, IdleIsFormed
<1>5. Types'
  <2>1. proc' \in [Procs -> Commands]
    BY <1>1, <1>3 DEF Types
  <2> QED
    BY <1>1, <1>2, <2>1 DEF Types, machine
<1> QED
  BY <1>2, <1>3, <1>4, <1>5, PlainStep

\* The owner approves of a sign-in, or does not.
LEMMA ApproveStep ==
    ASSUME IInv, NEW p \in Procs, UNCHANGED begun, Approve(p)
    PROVE  Kept(p)
<1>1. Types /\ proc[p] \in Commands /\ Formed(proc[p])
  BY OwnOfIInv DEF Own
<1>2. proc[p].op = "signIn" /\ proc[p].conn = Other /\ proc[p].replaced = {}
  BY <1>1 DEF Approve, Formed, At
<1>3. \E command \in Commands :
         /\ proc' = [proc EXCEPT ![p] = command]
         /\ Formed(command) /\ command.conn = Other /\ command.replaced = {}
         /\ command.copy.conns \in {{}, cfg.conns, proc[p].copy.conns}
  <2>1. CASE Go(p, "config")
    <3> DEFINE new == [proc[p] EXCEPT !.at = "config"]
    <3>1. new \in Commands /\ Formed(new) /\ new.conn = Other /\ new.replaced = {} /\ new.copy = proc[p].copy
      BY <1>1, <1>2 DEF Early, Updates, Commands, Formed
    <3> QED
      BY <1>1, <2>1, <3>1 DEF Go, Types
  <2>2. CASE End(p)
    BY <2>2, IdleIsFormed DEF End
  <2> QED
    BY <2>1, <2>2 DEF Approve
<1>4. Types'
  <2>1. proc' \in [Procs -> Commands]
    BY <1>1, <1>3 DEF Types
  <2> QED
    BY <1>1, <2>1 DEF Types, Approve, server, machine
<1> QED
  BY <1>2, <1>3, <1>4, PlainStep DEF Approve, server

\* The connections a command owns are among those it handles.
LEMMA OwnedAreHandled ==
    ASSUME NEW p \in Procs, NEW c \in Owned(p)
    PROVE  Handles(p, c)
  BY DEF Owned, Handles

\* Whoever else is about a connection is recorded as clashing about it.
LEMMA SharedFacts ==
    ASSUME NEW marks \in [Conns -> SUBSET Marks], NEW p \in Procs, NEW c \in Conns
    PROVE  LET met == Mark(marks, Shared(p, c), "clashed")
           IN  /\ met \in [Conns -> SUBSET Marks]
               /\ \A d \in Conns : marks[d] \subseteq met[d]
               /\ \A q \in Procs \ {p} : Handles(q, c) => "clashed" \in met[c]
<1>1. "clashed" \in Marks
  BY DEF Marks
<1>2. \A q \in Procs \ {p} : Handles(q, c) => c \in Shared(p, c)
  BY DEF Shared
<1> QED
  BY <1>1, <1>2, MarkFacts

\* The commands that begin about a connection of the list: delete and the updates.
LEMMA BeginAbout ==
    ASSUME IInv, NEW p \in Procs,
           \/ \E c \in Conns : BeginDelete(p, c)
           \/ p = "app" /\ \E c \in Conns : BeginUpdate(c)
    PROVE  Kept(p)
<1>1. Types /\ 1 .. made \subseteq Conns /\ made \in Nat /\ Other \notin Conns
  BY TypesOfTypeOK, MadeAreConns DEF IInv
<1>2. PICK c \in Conns, op \in {"delete"} \cup Updates, at \in {"remote", "file", "stop"} :
         /\ op = "delete" <=> at = "remote"
         /\ at = "stop" => op \in {"share", "pause"}
         /\ c \in cfg.conns /\ fate' = Mark(fate, Shared(p, c), "clashed")
         /\ Start(p, [Idle EXCEPT !.op = op, !.at = at, !.conn = c, !.copy = cfg])
         /\ UNCHANGED <<server, machine, faults>>
  <2>1. CASE \E c \in Conns : BeginDelete(p, c)
    BY <2>1 DEF BeginDelete
  <2>2. CASE p = "app" /\ \E c \in Conns : BeginUpdate(c)
    BY <2>2 DEF BeginUpdate, Updates
  <2> QED
    BY <2>1, <2>2
<1> DEFINE new == [Idle EXCEPT !.op = op, !.at = at, !.conn = c, !.copy = cfg]
<1>3. /\ new.op = op /\ new.at = at /\ new.conn = c /\ new.copy = cfg /\ new.replaced = {}
      /\ new \in Commands /\ Formed(new)
  <2>1. new.op = op /\ new.at = at /\ new.conn = c /\ new.copy = cfg /\ new.replaced = {}
    BY DEF Idle
  <2>2. new \in Commands
    BY <1>1, <1>2, IdleIsFormed DEF Commands, Types, Updates
  <2>3. Formed(new)
    BY <1>1, <1>2, <2>1 DEF Formed, Early, Updates
  <2> QED
    BY <2>1, <2>2, <2>3
<1> HIDE DEF new
<1>4. /\ proc' \in [Procs -> Commands] /\ proc'[p] = new /\ Others(p)
      /\ proc[p] = Idle /\ begun' \in 0 .. MaxCommands
  BY <1>1, <1>2, <1>3, StartFacts, CommandChanged DEF new
<1>5. MarksGrow /\ Alone(p, c)
  <2>1. fate \in [Conns -> SUBSET Marks]
    BY <1>1 DEF Types
  <2>2. MarksGrow /\ \A q \in Procs \ {p} : Handles(q, c) => "clashed" \in fate'[c]
    BY <1>2, <2>1, SharedFacts DEF MarksGrow
  <2> QED
    BY <2>2, OwnedAreHandled DEF Alone, Clashed, Marked
<1>6. Owned(p)' = {c}
  BY <1>1, <1>3, <1>4 DEF Owned
<1>7. Types'
  BY <1>1, <1>2, <1>4, <1>5 DEF Types, server, machine, MarksGrow
<1>8. Quiet(p) /\ Grows
  <2>1. \A d \in Conns : Calm(d)
    BY <1>1, <1>2, NothingHappens DEF server
  <2>2. proc[p].op # "connect"
    BY <1>4, IdleIsFormed
  <2> QED
    BY <1>2, <1>4, <1>5, <1>7, <2>1, <2>2, QuietGrows DEF Quiet, server, machine
<1>9. Own(p)'
  <2>1. Formed(proc[p])' /\ Made(p)'
    BY <1>1, <1>2, <1>3, <1>4 DEF Formed, Made, Types, server
  <2>2. Placed(p)' /\ Cleared(p)'
    BY <1>2, <1>3, <1>4 DEF Placed, Cleared, machine, Updates
  <2>3. Known(p)'
    <3>1. \A d \in cfg.conns : d \in Conns /\ Told(d)
      BY <1>1 DEF Types, IInv, KeyIsReturned, Told
    <3> QED
      BY <1>3, <1>4, <1>8, <3>1 DEF Known, Grows
  <2> QED
    BY <2>1, <2>2, <2>3 DEF Own
<1> QED
  BY <1>5, <1>6, <1>8, <1>9, QuietStep

\* waitForReady and the result.
LEMMA VerifyStep ==
    ASSUME IInv, NEW p \in Procs, UNCHANGED begun, Verify(p)
    PROVE  Kept(p)
<1>1. Types /\ made' \in Nat /\ End(p) /\ UNCHANGED <<server, machine, faults, begun>>
  BY TypesOfTypeOK, MadeAreConns DEF IInv, Verify, server
<1>2. fate \in [Conns -> SUBSET Marks] /\ "known" \in Marks /\ fate' = Mark(fate, {proc[p].conn}, "known")
  BY <1>1 DEF Types, Marks, Verify, Returned
<1>3. MarksGrow /\ \A c \in Conns : proc[p].conn = c => "known" \in fate'[c]
  BY <1>2, MarkFacts DEF MarksGrow
<1>4. Types'
  BY <1>1, <1>3, EndFacts DEF Types, server, machine, MarksGrow
<1>5. \A c \in Conns : Calm(c)
  BY <1>1, NothingHappens DEF server
<1>6. Quiet(p)
  BY <1>1, <1>3, <1>4, <1>5, EndFacts DEF Quiet, server, machine, Verify, At, Told, Marked
<1> QED
  BY <1>1, <1>6, EndStep

\* What is made but not installed explains itself when its connect ends with a mark.
LEMMA MarkedIsSettled ==
    ASSUME IInv, NEW p \in Procs, NEW c \in Conns, proc[p].op = "connect", proc[p].conn = c,
           MarksGrow, fate'[c] \cap {"killed", "failed", "rolledBack"} # {},
           proc[p].at \in {"clean", "file", "config"} \/ "rolledBack" \in fate'[c],
           services' \subseteq services \/ "rolledBack" \in fate'[c],
           agents' \subseteq agents
    PROVE  Clashed(c)' \/ Explained(c)'
<1>1. fate[c] \subseteq fate'[c]
  BY DEF MarksGrow
<1>2. Own(p) /\ Other \notin Conns
  BY OwnOfIInv, MadeAreConns
<1>3. CASE "rolledBack" \in fate'[c]
  BY <1>3 DEF Explained, Marked
<1>4. CASE "rolledBack" \notin fate'[c]
  <2>1. Clashed(c) \/ c \notin services' \cup agents'
    BY <1>2, <1>4 DEF Own, Placed
  <2> QED
    BY <1>1, <2>1 DEF Explained, Marked, Clashed
<1> QED
  BY <1>3, <1>4

\* A kill between two steps.
LEMMA KillStep ==
    ASSUME IInv, NEW p \in Procs, Kill(p)
    PROVE  Kept(p)
<1>1. Types /\ made' \in Nat /\ End(p) /\ UNCHANGED <<server, machine, begun>> /\ faults' \in 0 .. MaxFaults
  BY TypesOfTypeOK, MadeAreConns, BoundsAssumption DEF IInv, Kill, Fault, server, Types
<1>2. /\ MarksGrow
      /\ \A c \in Conns : proc[p].op = "connect" /\ proc[p].conn = c => "killed" \in fate'[c]
  <2>1. CASE proc[p].op = "connect" /\ proc[p].conn # Other
    <3>1. /\ fate \in [Conns -> SUBSET Marks] /\ "killed" \in Marks
          /\ fate' = Mark(fate, {proc[p].conn}, "killed")
      BY <1>1, <2>1 DEF Types, Marks, Kill
    <3> QED
      BY <3>1, MarkFacts DEF MarksGrow
  <2>2. CASE ~(proc[p].op = "connect" /\ proc[p].conn # Other)
    BY <1>1, <2>2, MadeAreConns, SameMarks DEF Kill
  <2> QED
    BY <2>1, <2>2
<1>3. Types'
  BY <1>1, <1>2, EndFacts DEF Types, server, machine, MarksGrow
<1>4. \A c \in Conns : proc[p].op = "connect" /\ proc[p].conn = c =>
          /\ proc[p].at \in {"clean", "file", "config"} => Settled(c)'
          /\ Told(c)'
  BY <1>1, <1>2, MarkedIsSettled DEF Settled, Told, Marked, machine
<1>5. \A c \in Conns : Calm(c)
  BY <1>1, NothingHappens DEF server
<1>6. Quiet(p)
  BY <1>1, <1>2, <1>3, <1>4, <1>5, EndFacts DEF Quiet, server, machine
<1> QED
  BY <1>1, <1>6, EndStep

\* A failure that at most takes services and agents away; a connect fails otherwise.
LEMMA FailStep ==
    ASSUME IInv, NEW p \in Procs, Fault, End(p), UNCHANGED <<account, session, made, cfg, files, begun, fate>>,
           remote' \in [{Other} \cup Conns -> {"none", "trial", "permanent"}],
           \A c \in Conns : remote'[c] \in {remote[c], "none"},
           services' \subseteq services, agents' \subseteq agents,
           proc[p].op # "connect"
    PROVE  Kept(p)
<1>1. Types /\ made' \in Nat /\ faults' \in 0 .. MaxFaults
  BY TypesOfTypeOK, MadeAreConns, BoundsAssumption DEF IInv, Fault, Types
<1>2. MarksGrow
  BY <1>1, SameMarks
<1>3. Types'
  BY <1>1, EndFacts DEF Types
<1>4. \A c \in Conns : Calm(c)
  BY DEF Calm, Lessens
<1>5. Quiet(p)
  BY <1>1, <1>2, <1>3, <1>4, EndFacts DEF Quiet
<1> QED
  BY <1>5, EndStep

-----------------------------------------------------------------------------
(* The steps of a removal, and StopSharing.                                *)

\* A removal that goes on.
LEMMA RemovalGoes ==
    ASSUME IInv, NEW p \in Procs, NEW at \in {"uninstall", "remove", "config"}, Go(p, at),
           proc[p].op = "delete", Grows, UNCHANGED <<made, cfg>>,
           \A c \in {proc[p].conn} :
              /\ at \in {"uninstall", "remove"} => Deleted(c)'
              /\ at = "remove" => Clashed(c)' \/ c \notin services'
              /\ at = "config" => Clashed(c)' \/ Explained(c)'
    PROVE  Own(p)' /\ Owned(p)' = Owned(p) /\ Others(p)
<1>1. Types /\ at \in Places /\ Own(p)
  BY OwnOfIInv DEF Places
<1>2. /\ Others(p) /\ Owned(p)' = Owned(p)
      /\ proc'[p].at = at /\ proc'[p].op = "delete" /\ proc'[p].conn = proc[p].conn
      /\ proc'[p].copy = proc[p].copy /\ proc'[p].replaced = proc[p].replaced
  BY <1>1, GoFacts
<1>3. proc[p].replaced = {} /\ proc[p].conn # Other
  BY <1>1 DEF Own, Formed, Early
<1>4. Formed(proc[p])' /\ Placed(p)'
  BY <1>2, <1>3 DEF Formed, Placed, Early, Updates
<1>5. Cleared(p)'
  BY <1>2, <1>3 DEF Cleared, Clashed, Explained, Deleted, Marked
<1>6. Made(p)' /\ Known(p)'
  BY <1>1, GoKeeps
<1> QED
  BY <1>2, <1>4, <1>5, <1>6 DEF Own

\* The control plane removes the connection, or the removal fails there.
LEMMA DeleteRemoteStep ==
    ASSUME IInv, NEW p \in Procs, UNCHANGED begun, DeleteRemote(p)
    PROVE  Kept(p)
<1> DEFINE c == proc[p].conn
<1>1. /\ Types /\ UNCHANGED <<account, session, made, machine, begun>>
      /\ Own(p) /\ c \in Conns /\ proc[p].op = "delete"
  <2>1. Types /\ UNCHANGED <<account, session, made, machine, begun>> /\ Own(p) /\ proc[p].op = "delete"
    BY OwnOfIInv DEF DeleteRemote, Own, Formed, At
  <2> QED
    BY <2>1, OwnOfIInv DEF Own, Formed, Owned
<1>2. /\ remote' \in [{Other} \cup Conns -> {"none", "trial", "permanent"}]
      /\ \A d \in Conns : remote'[d] \in {remote[d], "none"}
  BY <1>1 DEF DeleteRemote, Types
<1>3. CASE Go(p, "uninstall") /\ UNCHANGED faults
           /\ fate' = Mark(fate, {d \in {c} : remote'[d] # "none"}, "unverified")
  <2>1. fate \in [Conns -> SUBSET Marks] /\ "unverified" \in Marks
    BY <1>1 DEF Types, Marks
  <2>2. MarksGrow /\ \A d \in {c} : remote'[d] # "none" => "unverified" \in fate'[d]
    BY <1>1, <1>3, <2>1, MarkFacts DEF MarksGrow
  <2>3. Types' /\ Others(p)
    BY <1>1, <1>2, <1>3, <2>2, GoFacts DEF Types, machine, MarksGrow, Places
  <2>4. Quiet(p) /\ Grows
    BY <1>1, <1>2, <2>2, <2>3, QuietGrows DEF Quiet, Calm, Lessens, machine
  <2>5. \A d \in {c} : Deleted(d)'
    BY <2>2 DEF Deleted, Marked
  <2>6. Own(p)' /\ Owned(p)' = Owned(p)
    BY <1>1, <1>3, <2>4, <2>5, RemovalGoes DEF machine
  <2> QED
    BY <2>4, <2>6, QuietStep
<1>4. CASE Fault /\ End(p) /\ UNCHANGED fate
  BY <1>1, <1>2, <1>4, FailStep DEF machine
<1> QED
  BY <1>3, <1>4 DEF DeleteRemote, Tolerated

\* The service manager, then the files.
LEMMA UninstallStep ==
    ASSUME IInv, NEW p \in Procs, UNCHANGED begun, Uninstall(p)
    PROVE  Kept(p)
<1>1. Types /\ proc[p].op = "delete" /\ Own(p)
  BY OwnOfIInv DEF Uninstall, Own, Formed, At
<1>2. agents' \subseteq agents /\ UNCHANGED files
  BY DEF Uninstall, MayBeStopped
<1>3. CASE UnitRemoved(proc[p].conn) /\ Go(p, "remove") /\ UNCHANGED <<server, cfg, faults, fate>>
  <2>1. Types' /\ Others(p) /\ MarksGrow
    BY <1>1, <1>2, <1>3, GoFacts, SameMarks DEF Types, server, UnitRemoved, Places
  <2>2. \A c \in Conns : Calm(c)
    BY <1>1, <1>2, <1>3, ServicesGo DEF server, UnitRemoved
  <2>3. Quiet(p) /\ Grows
    BY <1>1, <1>3, <2>1, <2>2, QuietGrows DEF Quiet, server
  <2>4. \A c \in {proc[p].conn} : Deleted(c)' /\ c \notin services'
    BY <1>1, <1>3 DEF Own, Uninstall, At, Cleared, UnitRemoved, Deleted, Marked, server
  <2>5. Own(p)' /\ Owned(p)' = Owned(p)
    BY <1>1, <1>3, <2>3, <2>4, RemovalGoes DEF server
  <2> QED
    BY <2>3, <2>5, QuietStep
<1>4. CASE Fail(p) /\ UnitMayBeRemoved(proc[p].conn)
  <2>1. remote' \in [{Other} \cup Conns -> {"none", "trial", "permanent"}]
    BY <1>1, <1>4 DEF Types, Fail, server
  <2> QED
    BY <1>1, <1>2, <1>4, <2>1, FailStep DEF Fail, UnitMayBeRemoved, server
<1> QED
  BY <1>3, <1>4 DEF Uninstall

\* A step of p that is calm about all connections but some that only p is about.
LEMMA BusyStep ==
    ASSUME IInv, NEW p \in Procs, Types', Others(p), Grows,
           \A c \in Conns : Calm(c) \/ (Alone(p, c) /\ Settled(c)'),
           \A c \in Owned(p)' \ Owned(p) : Alone(p, c),
           \A c \in Conns : proc[p].op = "connect" /\ proc[p].conn = c
                               /\ proc[p].at \in {"clean", "file", "config"} => Settled(c)',
           Own(p)',
           \A c \in cfg'.conns \cup services' : c \in cfg.conns \cup services \/ Told(c)'
    PROVE  Kept(p)
<1>1. Types
  BY TypesOfTypeOK DEF IInv
<1>2. NothingIsForgotten'
  <2>1. ASSUME NEW c \in Conns PROVE Settled(c)'
    BY <1>1, <2>1, CalmIsSettled DEF Calm
  <2> QED
    BY <2>1, SettledIsEnough
<1>3. KeyIsReturned'
  <2>1. \A c \in cfg.conns \cup services : c \in Conns /\ Told(c)
    BY <1>1, MadeAreConns DEF Types, IInv, KeyIsReturned, Told
  <2> QED
    BY <2>1 DEF Grows, KeyIsReturned, Told
<1> QED
  BY <1>1, <1>2, <1>3 DEF Kept

\* Only its owner is about a connection, unless they clashed.
LEMMA OwnersAreAlone ==
    ASSUME IInv, NEW p \in Procs, Grows, NEW c \in Owned(p)
    PROVE  Alone(p, c)
<1>1. c \in Conns
  BY OwnOfIInv
<1> QED
  BY <1>1 DEF IInv, OwnersInv, Alone, Grows, MarksGrow, Clashed, Marked

\* The removal of the file, when the service is gone.
LEMMA RemoveStep ==
    ASSUME IInv, NEW p \in Procs, UNCHANGED begun, Remove(p)
    PROVE  Kept(p)
<1> DEFINE c == proc[p].conn
<1>1. /\ Types /\ proc[p].op = "delete" /\ Own(p) /\ c \in Owned(p) /\ c \in Conns /\ made \in Nat
      /\ UNCHANGED <<services, agents>> /\ files' \subseteq files /\ proc[p].conn # Other
      /\ UNCHANGED <<server, cfg, begun>>
  <2>1. Types /\ proc[p].op = "delete" /\ Own(p)
    BY OwnOfIInv DEF Remove, Own, Formed, At
  <2>2. proc[p].conn # Other
    BY <2>1 DEF Own, Formed
  <2>3. c \in Owned(p) /\ c \in Conns /\ made \in Nat
    BY <2>2, OwnOfIInv DEF Owned
  <2> QED
    BY <2>1, <2>2, <2>3 DEF Remove, FilesRemoved, FilesMayBeRemoved, Fail
<1>2. \A d \in Conns \ {c} : d \in files => d \in files'
  BY <1>1 DEF Remove, FilesRemoved, FilesMayBeRemoved
<1>3. (\A d \in Conns : Lessens(d)) /\ \A d \in Conns \ {c} : Calm(d)
  BY <1>1, <1>2 DEF Calm, Lessens, server
<1>4. CASE FilesRemoved(c) /\ Go(p, "config") /\ fate' = Mark(fate, {c} \cap agents, "outlived")
           /\ UNCHANGED faults
  <2>1. fate \in [Conns -> SUBSET Marks] /\ "outlived" \in Marks
    BY <1>1 DEF Types, Marks
  <2>2. MarksGrow /\ (c \in agents => "outlived" \in fate'[c])
    BY <1>1, <1>4, <2>1, MarkFacts DEF MarksGrow
  <2>3. Types' /\ Others(p)
    BY <1>1, <1>4, <2>2, GoFacts DEF Types, server, MarksGrow, Places
  <2>4. Grows
    <3>1. \A d \in Conns : Told(d) => Told(d)'
      BY <1>1, <2>2, <2>3, ToldIsKept
    <3> QED
      BY <1>1, <2>2, <3>1 DEF Grows, server
  <2>5. \A d \in {c} : Clashed(d)' \/ Explained(d)'
    <3>1. /\ Clashed(c) \/ c \notin services
          /\ Deleted(c)
      BY <1>1 DEF Remove, At, Own, Cleared
    <3> QED
      BY <1>1, <1>4, <2>2, <3>1
         DEF MarksGrow, Clashed, Explained, Deleted, Marked, FilesRemoved, server
  <2>6. Own(p)' /\ Owned(p)' = Owned(p)
    BY <1>1, <1>4, <2>4, <2>5, RemovalGoes DEF server
  <2>7. \A d \in {c} : Alone(p, d) /\ Settled(d)'
    BY <1>1, <2>4, <2>5, OwnersAreAlone DEF Settled
  <2>8. \A d \in Conns : Calm(d) \/ (Alone(p, d) /\ Settled(d)')
    BY <1>3, <2>7
  <2> QED
    BY <1>1, <2>3, <2>4, <2>6, <2>8, BusyStep
<1>5. CASE Fault /\ End(p) /\ UNCHANGED fate
  <2>1. Types' /\ Others(p) /\ Own(p)' /\ Owned(p)' = {} /\ MarksGrow
    BY <1>1, <1>5, EndFacts, SameMarks, BoundsAssumption DEF Types, server, Fault
  <2>2. Grows
    <3>1. \A d \in Conns : Told(d) => Told(d)'
      BY <1>1, <2>1, ToldIsKept
    <3> QED
      BY <1>1, <2>1, <3>1 DEF Grows, server
  <2>3. \A d \in Conns : Settled(d)'
    BY <1>1, <1>3, <2>1, <2>2, CalmIsSettled
  <2> QED
    BY <1>1, <1>3, <2>1, <2>2, <2>3, OwnersAreAlone, BusyStep
<1> QED
  BY <1>1, <1>4, <1>5 DEF Remove, Fail

\* StopSharing, which sees that the agent is gone.
LEMMA StopSharingStep ==
    ASSUME IInv, NEW p \in Procs, UNCHANGED begun, StopSharing(p)
    PROVE  Kept(p)
<1>1. /\ Types /\ Own(p) /\ proc[p].op \in {"share", "pause"} /\ "file" \in Places
      /\ services' \subseteq services /\ agents' \subseteq agents /\ faults' \in 0 .. MaxFaults
      /\ UNCHANGED <<server, cfg, files, fate, begun>>
  <2>1. Types /\ Own(p) /\ proc[p].op \in {"share", "pause"} /\ "file" \in Places
    BY OwnOfIInv DEF StopSharing, Own, Formed, At, Places
  <2>2. faults' \in 0 .. MaxFaults
    BY <2>1, BoundsAssumption DEF StopSharing, Fault, Types
  <2> QED
    BY <2>1, <2>2 DEF StopSharing, UnitRemoved, UnitMayBeRemoved, MayBeStopped
<1>2. CASE Go(p, "file")
  <2>1. /\ Types' /\ Others(p) /\ MarksGrow
        /\ proc'[p].at = "file" /\ proc'[p].op = proc[p].op /\ proc'[p].conn = proc[p].conn
        /\ proc'[p].copy = proc[p].copy /\ proc'[p].replaced = proc[p].replaced
        /\ Owned(p)' = Owned(p)
    BY <1>1, <1>2, GoFacts, SameMarks DEF Types, server
  <2>2. \A c \in Conns : Calm(c)
    BY <1>1, ServicesGo DEF server
  <2>3. Quiet(p) /\ Grows
    BY <1>1, <2>1, <2>2, QuietGrows DEF Quiet, server
  <2>4. Made(p)' /\ Known(p)'
    BY <1>1, <1>2, <2>3, GoKeeps
  <2>5. Formed(proc[p])'
    BY <1>1, <2>1 DEF Own, Formed, Early, Updates
  <2>6. Placed(p)' /\ Cleared(p)'
    <3>1. Placed(p) /\ proc[p].op \in Updates /\ proc[p].replaced = {}
      BY <1>1 DEF Own, Formed, Updates
    <3> QED
      BY <1>1, <2>1, <3>1 DEF Placed, Cleared, Clashed, Marked
  <2> QED
    BY <2>1, <2>3, <2>4, <2>5, <2>6, QuietStep DEF Own
<1>3. CASE Fault /\ End(p)
  <2>1. remote' \in [{Other} \cup Conns -> {"none", "trial", "permanent"}]
    BY <1>1 DEF Types, server
  <2> QED
    BY <1>1, <1>3, <2>1, FailStep DEF server
<1> QED
  BY <1>2, <1>3 DEF StopSharing

-----------------------------------------------------------------------------
(* The steps of a connect, and of an update, that write something new.     *)

\* What a step needs to let no key get lost.
LEMMA GrowsOf ==
    ASSUME NEW p \in Procs, Others(p), MarksGrow, made' \in {made, made + 1},
           \A c \in Conns : remote'[c] \in {remote[c], "none"} \/ (c = made' /\ c > made),
           \A c \in Conns : proc[p].op = "connect" /\ proc[p].conn = c
                              /\ proc[p].at \in {"install", "verify"} => Told(c)'
    PROVE  Grows
  BY ToldIsKept DEF Grows

\* A connection is made, whether the answer arrives or not.
LEMMA CreateStep ==
    ASSUME IInv, NEW p \in Procs, UNCHANGED begun, Create(p)
    PROVE  Kept(p)
<1> DEFINE c == made + 1
           old == IF account = "paid" THEN Trials ELSE proc[p].from
           replaced == IF proc[p].paid /\ account = "paid" THEN old \cap proc[p].copy.conns ELSE {}
           new == [proc[p] EXCEPT !.at = "clean", !.conn = c, !.replaced = replaced]
<1>1. /\ Types /\ 1 .. made \subseteq Conns /\ made \in Nat /\ proc[p] \in Commands /\ Own(p)
      /\ UNCHANGED <<account, session, machine, begun>> /\ c \in Conns /\ made' = c
  BY OwnOfIInv DEF Create
<1>2. proc[p].op = "connect" /\ proc[p].at = "create" /\ proc[p].conn = Other /\ proc[p].replaced = {}
  BY <1>1 DEF Create, Own, Formed, At, Early
<1>3. /\ remote' \in [{Other} \cup Conns -> {"none", "trial", "permanent"}]
      /\ \A d \in Conns : d # c => remote'[d] \in {remote[d], "none"}
      /\ old \subseteq Trials /\ \A d \in old : d # c => remote'[d] = "none"
  BY <1>1 DEF Create, Types, Trials
<1>4. \A d \in old : d # c
  BY <1>1, <1>3 DEF Trials, IInv, MadeInv
<1>5. /\ 1 .. made' \subseteq Conns /\ made' \in 0 .. MaxConns /\ made < c /\ made' = made + 1
      /\ files \cup services \cup agents \cup cfg.conns \cup proc[p].copy.conns \subseteq 1 .. made
      /\ 1 .. made \subseteq 1 .. made'
  BY <1>1, BoundsAssumption DEF Types, Conns, Own, Made
<1>6. \A q \in Procs : c \notin Owned(q)
  BY <1>5, OwnOfIInv
<1> c \in Nat /\ c # Other /\ c \in 1 .. made' /\ c \in 0 .. made' /\ c \notin 1 .. made
  BY <1>1 DEF Other
<1>7. \A d \in Conns : d # c => Calm(d)
  BY <1>1, <1>3 DEF Calm, Lessens, machine
<1>8. Alone(p, c)
  BY <1>6 DEF Alone
<1>9. CASE proc' = [proc EXCEPT ![p] = new] /\ UNCHANGED <<faults, fate>>
  <2>1. replaced \subseteq 1 .. made /\ replaced \subseteq proc[p].copy.conns
    BY <1>5
  <2>2. /\ new.at = "clean" /\ new.op = "connect" /\ new.conn = c
        /\ new.replaced = replaced /\ new.copy = proc[p].copy
    BY <1>1, <1>2 DEF Commands
  <2>3. new \in Commands
    <3>1. replaced \in SUBSET ({Other} \cup Conns) /\ c \in Conns
      BY <1>1, <2>1
    <3> HIDE DEF c, old, replaced
    <3> QED
      BY <1>1, <3>1 DEF Commands
  <2>4. proc' \in [Procs -> Commands] /\ proc'[p] = new /\ Others(p)
    BY <1>1, <1>9, <2>3, CommandChanged
  <2> HIDE DEF new, replaced, c
  <2>5. Types' /\ MarksGrow
    BY <1>1, <1>3, <1>5, <1>9, <2>4, SameMarks DEF Types, machine
  <2>6. Grows
    BY <1>1, <1>2, <1>3, <1>5, <2>4, <2>5, GrowsOf
  <2>7. Owned(p)' = {c}
    BY <2>1, <2>2, <2>4 DEF Owned
  <2>8. Own(p)'
    <3>1. Formed(proc[p])'
      BY <1>1, <1>5, <2>1, <2>2, <2>4 DEF Formed, Early, Updates
    <3>2. Made(p)'
      BY <1>5, <2>1, <2>2, <2>4 DEF Made
    <3>3. Placed(p)'
      BY <1>1, <1>5, <2>2, <2>4 DEF Placed, Updates, machine
    <3>4. Cleared(p)'
      BY <1>3, <1>4, <2>1, <2>2, <2>4 DEF Cleared, replaced
    <3>5. \A d \in proc[p].copy.conns : d \in Conns /\ Told(d)
      BY <1>1, <1>5 DEF Own, Known
    <3>6. Known(p)'
      BY <2>2, <2>4, <2>6, <3>5 DEF Grows, Known
    <3> QED
      BY <3>1, <3>2, <3>3, <3>4, <3>6 DEF Own
  <2>9. \A d \in Conns : Calm(d) \/ (Alone(p, d) /\ Settled(d)')
    BY <1>7, <1>8, <2>2, <2>4 DEF Settled, UnderWay
  <2>10. UNCHANGED <<cfg, services>>
    BY <1>1 DEF machine
  <2> QED
    BY <1>2, <1>8, <2>4, <2>5, <2>6, <2>7, <2>8, <2>9, <2>10, BusyStep
<1>10. CASE Fault /\ End(p) /\ fate' = Mark(fate, {c}, "failed")
  <2>1. fate \in [Conns -> SUBSET Marks] /\ "failed" \in Marks
    BY <1>1 DEF Types, Marks
  <2>2. MarksGrow /\ "failed" \in fate'[c]
    BY <1>1, <1>10, <2>1, MarkFacts DEF MarksGrow
  <2>3. proc' \in [Procs -> Commands] /\ Others(p) /\ Own(p)' /\ Owned(p)' = {}
    BY <1>1, <1>10, EndFacts
  <2>4. Types'
    <3>1. faults' \in 0 .. MaxFaults
      BY <1>1, <1>10, BoundsAssumption DEF Types, Fault
    <3> QED
      BY <1>1, <1>3, <1>5, <2>2, <2>3, <3>1 DEF Types, machine, MarksGrow
  <2> HIDE DEF c
  <2>5. Grows
    BY <1>1, <1>2, <1>3, <1>5, <2>2, <2>3, GrowsOf
  <2>6. \A d \in {c} : Settled(d)'
    BY <1>1, <1>5, <2>2 DEF Settled, Explained, Marked, machine
  <2>7. UNCHANGED <<cfg, services>>
    BY <1>1 DEF machine
  <2> QED
    BY <1>2, <1>7, <1>8, <2>3, <2>4, <2>5, <2>6, <2>7, BusyStep
<1> QED
  BY <1>9, <1>10 DEF Create

\* removeReplacedTrialEndpoints: what it leaves has its warning, or its running agent.
LEMMA CleanStep ==
    ASSUME IInv, NEW p \in Procs, UNCHANGED begun, Clean(p)
    PROVE  Kept(p)
<1> DEFINE local == proc[p].replaced \cap proc[p].copy.conns
<1>1. /\ Types /\ 1 .. made \subseteq Conns /\ made \in Nat /\ proc[p] \in Commands /\ Own(p)
      /\ proc[p].op = "connect" /\ proc[p].at = "clean" /\ proc[p].conn # Other
      /\ UNCHANGED <<server, cfg, begun>>
      /\ proc[p].replaced \cup proc[p].copy.conns \subseteq 1 .. made
  <2>1. proc[p].at = "clean" /\ UNCHANGED <<server, cfg>>
    BY DEF Clean, At
  <2> QED
    BY <2>1, OwnOfIInv DEF Own, Formed, Early
<1>2. CASE Go(p, "file") /\ UNCHANGED <<files, services, agents, faults, fate>>
  <2>1. /\ Types' /\ Others(p) /\ MarksGrow
        /\ proc'[p].at = "file" /\ proc'[p].op = proc[p].op /\ proc'[p].conn = proc[p].conn
        /\ proc'[p].copy = proc[p].copy /\ proc'[p].replaced = proc[p].replaced
        /\ Owned(p)' = Owned(p)
    BY <1>1, <1>2, GoFacts, SameMarks DEF Types, server, Places
  <2>2. \A c \in Conns : Calm(c)
    BY <1>1, <1>2, ServicesGo DEF server
  <2>3. Quiet(p) /\ Grows
    BY <1>1, <2>1, <2>2, QuietGrows DEF Quiet, Settled, UnderWay, server
  <2>4. Made(p)' /\ Known(p)'
    BY <1>1, <1>2, <2>3, GoKeeps DEF Places
  <2>5. Formed(proc[p])'
    BY <1>1, <2>1 DEF Own, Formed, Early, Updates
  <2>6. Placed(p)'
    BY <1>1, <1>2, <2>1 DEF Own, Placed, Clashed, Marked, Updates
  <2>7. Cleared(p)'
    BY <1>1, <1>2, <2>1 DEF Own, Cleared, Clashed, Explained, Marked, server
  <2> QED
    BY <2>1, <2>3, <2>4, <2>5, <2>6, <2>7, QuietStep DEF Own
<1>3. ASSUME NEW c \in local, NEW gone \in BOOLEAN, NEW removed \in BOOLEAN,
             IF gone THEN UnitRemoved(c) ELSE UnitMayBeRemoved(c),
             MayBeStopped(c),
             IF removed THEN FilesRemoved(c) ELSE FilesMayBeRemoved(c),
             LET met == Mark(fate, Shared(p, c), "clashed") IN
             IF gone /\ removed
             THEN fate' = Mark(met, {c} \cap agents', "outlived") /\ UNCHANGED faults
             ELSE fate' = Mark(met, {c}, "left") /\ Fault,
             proc' = [proc EXCEPT ![p].copy.conns = @ \ {c}]
      PROVE  Kept(p)
  <2> DEFINE new == [proc[p] EXCEPT !.copy.conns = @ \ {c}]
             met == Mark(fate, Shared(p, c), "clashed")
  <2>1. c \in Conns /\ c <= made /\ c # proc[p].conn /\ c \in proc[p].replaced /\ remote[c] = "none"
    BY <1>1, <1>3 DEF Own, Formed, Cleared
  <2>2. /\ services' \subseteq services /\ agents' \subseteq agents /\ files' \subseteq files
        /\ files \ files' \subseteq {c} /\ faults' \in 0 .. MaxFaults
    <3>1. faults' \in 0 .. MaxFaults
      BY <1>1, <1>3, BoundsAssumption DEF Fault, Types
    <3>2. services' \subseteq services
      BY <1>3 DEF UnitRemoved, UnitMayBeRemoved
    <3>3. agents' \subseteq agents
      BY <1>3 DEF MayBeStopped
    <3>4. files' \subseteq files /\ files \ files' \subseteq {c}
      BY <1>3 DEF FilesRemoved, FilesMayBeRemoved
    <3> QED
      BY <3>1, <3>2, <3>3, <3>4
  <2>3. /\ new \in Commands /\ new.copy.conns = proc[p].copy.conns \ {c}
        /\ new.op = proc[p].op /\ new.at = proc[p].at /\ new.conn = proc[p].conn
        /\ new.replaced = proc[p].replaced
    BY <1>1 DEF Commands, Config
  <2>4. proc' \in [Procs -> Commands] /\ proc'[p] = new /\ Others(p)
    <3>1. proc' = [proc EXCEPT ![p] = new]
      BY <1>1, <1>3 DEF Types
    <3> QED
      BY <1>1, <2>3, <3>1, CommandChanged
  <2> HIDE DEF new
  <2>5. /\ met \in [Conns -> SUBSET Marks] /\ \A d \in Conns : fate[d] \subseteq met[d]
        /\ \A q \in Procs \ {p} : Handles(q, c) => "clashed" \in met[c]
    BY <1>1, <2>1, SharedFacts DEF Types
  <2> HIDE DEF met
  <2>6. /\ fate' \in [Conns -> SUBSET Marks] /\ \A d \in Conns : met[d] \subseteq fate'[d]
        /\ gone /\ removed => (c \in agents' => "outlived" \in fate'[c])
        /\ ~(gone /\ removed) => "left" \in fate'[c]
    <3>1. "outlived" \in Marks /\ "left" \in Marks
      BY DEF Marks
    <3>2. CASE gone /\ removed
      <4>1. fate' = Mark(met, {c} \cap agents', "outlived")
        BY <1>3, <3>2 DEF met
      <4> QED
        BY <2>1, <2>5, <3>1, <3>2, <4>1, MarkFacts
    <3>3. CASE ~(gone /\ removed)
      <4>1. fate' = Mark(met, {c}, "left")
        BY <1>3, <3>3 DEF met
      <4> QED
        BY <2>1, <2>5, <3>1, <3>3, <4>1, MarkFacts
    <3> QED
      BY <3>2, <3>3
  <2>7. MarksGrow /\ Alone(p, c)
    <3>1. \A q \in Procs \ {p} : c \in Owned(q) => "clashed" \in fate'[c]
      BY <2>1, <2>5, <2>6, OwnedAreHandled
    <3> QED
      BY <2>5, <2>6, <3>1 DEF MarksGrow, Alone, Clashed, Marked
  <2>8. Types'
    BY <1>1, <2>2, <2>4, <2>6 DEF Types, server
  <2>9. Grows
    BY <1>1, <2>4, <2>7, GrowsOf DEF server
  <2>10. Explained(c)'
    <3>1. CASE gone /\ removed
      BY <1>1, <1>3, <2>1, <2>6, <3>1 DEF Explained, UnitRemoved, FilesRemoved, Marked, server
    <3>2. CASE ~(gone /\ removed)
      BY <1>1, <2>1, <2>6, <3>2 DEF Explained, Marked, server
    <3> QED
      BY <3>1, <3>2
  <2>11. \A d \in Conns : Calm(d) \/ (Alone(p, d) /\ Settled(d)')
    BY <1>1, <2>2, <2>7, <2>10 DEF Calm, Lessens, Settled, server
  <2>12. Owned(p)' \subseteq Owned(p) \cup {c}
    BY <2>3, <2>4 DEF Owned
  <2>13. Own(p)'
    <3>1. Formed(proc[p])'
      BY <1>1, <2>3, <2>4 DEF Own, Formed, Early, Updates
    <3>2. Made(p)'
      BY <1>1, <2>3, <2>4 DEF Own, Made, server
    <3>3. Placed(p)'
      <4>1. proc[p].conn \in Conns
        BY <1>1, OwnOfIInv DEF Owned
      <4>2. Clashed(proc[p].conn) => "clashed" \in fate'[proc[p].conn]
        BY <2>7, <4>1 DEF MarksGrow, Clashed, Marked
      <4> QED
        BY <1>1, <2>2, <2>3, <2>4, <4>2 DEF Own, Placed, Clashed, Marked, Updates
    <3>4. Cleared(p)'
      <4>1. ASSUME NEW d \in proc[p].replaced, d # c
            PROVE  remote'[d] = "none" /\ (d \in proc[p].copy.conns \/ Clashed(d)' \/ Explained(d)')
        <5>1. d \in Conns /\ d <= made /\ Calm(d)
          BY <1>1, <2>2, <4>1 DEF Calm, Lessens, server
        <5> QED
          BY <1>1, <2>9, <4>1, <5>1, CalmKeeps DEF Own, Cleared
      <4>2. remote'[c] = "none"
        BY <1>1, <2>1 DEF server
      <4> QED
        BY <1>1, <2>3, <2>4, <2>10, <4>1, <4>2 DEF Cleared
    <3>5. \A d \in proc[p].copy.conns : d \in Conns /\ Told(d)
      BY <1>1 DEF Own, Known
    <3>6. Known(p)'
      BY <2>3, <2>4, <2>9, <3>5 DEF Grows, Known
    <3> QED
      BY <3>1, <3>2, <3>3, <3>4, <3>6 DEF Own
  <2>14. \A d \in Conns : proc[p].conn = d => Settled(d)'
    BY <1>1, <2>3, <2>4 DEF Settled, UnderWay
  <2>15. \A d \in Owned(p)' \ Owned(p) : Alone(p, d)
    BY <2>7, <2>12
  <2>16. \A d \in cfg'.conns \cup services' : d \in cfg.conns \cup services
    BY <1>1, <2>2
  <2> QED
    BY <2>4, <2>8, <2>9, <2>11, <2>13, <2>14, <2>15, <2>16, BusyStep
<1> QED
  BY <1>2, <1>3 DEF Clean

\* localconfig.Save: what p is not about and what changes all the same clashed.
LEMMA OverwrittenFacts ==
    ASSUME NEW p \in Procs, NEW new, cfg' = new, NEW marks,
           \A c \in Overwritten(p, new) : "clashed" \in marks[c], fate' = marks
    PROVE  \A c \in Conns :
              c \in cfg.conns => c \in cfg'.conns \/ Clashed(c)' \/ Handles(p, c)
  BY DEF Overwritten, Clashed, Marked

\* What a command takes off the list is its own, and gone or explained.
LEMMA OffTheList ==
    ASSUME IInv, NEW p \in Procs, Grows, NEW c \in Conns, Handles(p, c), c # proc[p].conn,
           c \notin proc[p].copy.conns,
           c \in files' => c \in files, services' \subseteq services \cup {proc[p].conn},
           agents' \subseteq agents
    PROVE  c \in Owned(p) /\ (Clashed(c)' \/ Explained(c)')
<1>1. Own(p) /\ c \in proc[p].replaced /\ fate[c] \subseteq fate'[c]
  BY OwnOfIInv DEF Handles, Grows, MarksGrow
<1>2. c \in Owned(p) /\ c \in 1 .. made /\ made \in Nat
  BY <1>1, OwnOfIInv DEF Owned
<1>3. Clashed(c) \/ Explained(c)
  BY <1>1 DEF Own, Cleared
<1>4. remote[c] = "none" /\ remote'[c] = "none"
  BY <1>1, <1>2 DEF Own, Cleared, Grows
<1> QED
  BY <1>1, <1>2, <1>3, <1>4 DEF Clashed, Explained, Marked

\* A connect that takes everything back leaves its connection with a mark.
LEMMA RollBackStep ==
    ASSUME IInv, NEW p \in Procs, NEW config \in Config, NEW mark \in {"failed", "rolledBack"},
           RollBack(p, config, mark), UNCHANGED <<files, agents, begun>>,
           proc[p].op = "connect", proc[p].at \in {"file", "config", "install"},
           config = cfg \/ config.conns = proc[p].copy.conns \ {proc[p].conn},
           mark = "rolledBack" \/ (proc[p].at \in {"file", "config"} /\ UNCHANGED services),
           services' \in {services, services \cup {proc[p].conn}}
    PROVE  Kept(p)
<1> DEFINE c == proc[p].conn
           over == Mark(fate, Overwritten(p, config), "clashed")
<1>1. /\ Types /\ Own(p) /\ 1 .. made \subseteq Conns /\ made \in Nat
      /\ proc[p].copy.conns \subseteq 1 .. made /\ c \in Conns /\ c \in 1 .. made /\ c \in Owned(p)
  <2>1. proc[p].conn # Other
    BY OwnOfIInv DEF Own, Formed, Early
  <2> QED
    BY <2>1, OwnOfIInv DEF Owned
<1>2. /\ cfg' = config /\ UNCHANGED <<account, session, made>>
      /\ remote' \in [{Other} \cup Conns -> {"none", "trial", "permanent"}]
      /\ \A d \in Conns : remote'[d] \in {remote[d], "none"}
      /\ faults' \in 0 .. MaxFaults
  <2>1. faults' \in 0 .. MaxFaults
    BY <1>1, BoundsAssumption DEF RollBack, Fault, Types
  <2> QED
    BY <1>1, <2>1 DEF RollBack, Types
<1>3. proc' \in [Procs -> Commands] /\ Others(p) /\ Own(p)' /\ Owned(p)' = {}
  BY <1>1, <1>2, EndFacts DEF RollBack
<1>4. /\ over \in [Conns -> SUBSET Marks] /\ \A d \in Conns : fate[d] \subseteq over[d]
      /\ \A d \in Overwritten(p, config) : "clashed" \in over[d]
  <2>1. fate \in [Conns -> SUBSET Marks] /\ "clashed" \in Marks /\ Overwritten(p, config) \subseteq Conns
    BY <1>1 DEF Types, Marks, Overwritten
  <2> QED
    BY <2>1, MarkFacts
<1>5. fate' = Mark(over, {c}, mark) /\ mark \in Marks
  BY DEF RollBack, Marks
<1> HIDE DEF over
<1>6. /\ fate' \in [Conns -> SUBSET Marks] /\ \A d \in Conns : over[d] \subseteq fate'[d]
      /\ mark \in fate'[c]
  BY <1>1, <1>4, <1>5, MarkFacts
<1>7. MarksGrow
  BY <1>4, <1>6 DEF MarksGrow
<1>8. Types'
  <2>1. config.conns \subseteq 1 .. made
    BY <1>1 DEF Types
  <2> QED
    BY <1>1, <1>2, <1>3, <1>6, <2>1 DEF Types
<1>9. Grows
  <2>1. \A d \in Conns : proc[p].conn = d => Told(d)'
    BY <1>6 DEF Told, Marked
  <2> QED
    BY <1>2, <1>3, <1>7, <2>1, GrowsOf
<1>10. \A d \in {c} : Settled(d)'
  <2>1. \A d \in {c} : Clashed(d)' \/ Explained(d)'
    BY <1>1, <1>6, <1>7, MarkedIsSettled
  <2> QED
    BY <2>1 DEF Settled
<1>11. ASSUME NEW d \in Conns, d # c PROVE Calm(d) \/ (Alone(p, d) /\ Settled(d)')
  <2>1. d \in cfg.conns => d \in cfg'.conns \/ Clashed(d)' \/ Handles(p, d)
    <3>1. \A e \in Overwritten(p, config) : "clashed" \in fate'[e]
      BY <1>4, <1>6 DEF Overwritten
    <3> QED
      BY <1>2, <3>1, OverwrittenFacts
  <2>2. CASE d \in cfg.conns => d \in cfg'.conns \/ Clashed(d)'
    BY <1>1, <1>2, <1>11, <2>2 DEF Calm, Lessens
  <2>3. CASE Handles(p, d) /\ d \in cfg.conns /\ d \notin cfg'.conns
    <3>1. d \notin proc[p].copy.conns
      BY <1>2, <1>11, <2>3
    <3>2. d \in Owned(p) /\ (Clashed(d)' \/ Explained(d)')
      BY <1>1, <1>9, <1>11, <2>3, <3>1, OffTheList
    <3> QED
      BY <1>9, <3>2, OwnersAreAlone DEF Settled
  <2> QED
    BY <2>1, <2>2, <2>3
<1>12. \A d \in {c} : Alone(p, d)
  BY <1>1, <1>9, OwnersAreAlone
<1>13. \A d \in cfg'.conns \cup services' : d \in cfg.conns \cup services \/ Told(d)'
  <2>1. \A d \in {c} \cup proc[p].copy.conns : Told(d)'
    <3>1. \A d \in proc[p].copy.conns : d \in Conns /\ Told(d)
      BY <1>1 DEF Own, Known
    <3>2. \A d \in {c} : Told(d)'
      BY <1>6 DEF Told, Marked
    <3> QED
      BY <1>9, <3>1, <3>2 DEF Grows
  <2> QED
    BY <1>2, <2>1
<1>14. \A d \in Conns : Calm(d) \/ (Alone(p, d) /\ Settled(d)')
  BY <1>10, <1>11, <1>12
<1> QED
  BY <1>3, <1>8, <1>9, <1>10, <1>13, <1>14, BusyStep

\* An update that fails, before or after it has written something.
LEMMA UpdateFailsStep ==
    ASSUME IInv, NEW p \in Procs, proc[p].op \in Updates, Fault, End(p),
           UNCHANGED <<server, agents, begun>>,
           Save(p, proc[p].copy) \/ UNCHANGED <<cfg, fate>>,
           files' \in {files, files \cup {proc[p].conn}},
           services' \in {services, services \cup {proc[p].conn}}
    PROVE  Kept(p)
<1> DEFINE c == proc[p].conn
<1>1. /\ Types /\ Own(p) /\ 1 .. made \subseteq Conns /\ made \in Nat /\ proc[p] \in Commands
      /\ proc[p].copy.conns \subseteq 1 .. made /\ c \in Conns /\ c \in 1 .. made /\ c \in Owned(p)
      /\ c \in proc[p].copy.conns /\ proc[p].replaced = {} /\ proc[p].op # "connect"
  <2>1. /\ proc[p].conn # Other /\ c \in proc[p].copy.conns /\ proc[p].op # "connect"
        /\ proc[p].replaced = {}
    BY OwnOfIInv DEF Own, Formed, Updates
  <2> QED
    BY <2>1, OwnOfIInv DEF Owned
<1>2. proc' \in [Procs -> Commands] /\ Others(p) /\ Own(p)' /\ Owned(p)' = {} /\ faults' \in 0 .. MaxFaults
  <2>1. faults' \in 0 .. MaxFaults
    BY <1>1, BoundsAssumption DEF Fault, Types
  <2> QED
    BY <1>1, <2>1, EndFacts DEF server
<1>3. /\ MarksGrow /\ cfg' \in {cfg, proc[p].copy}
      /\ \A d \in Conns : d \in cfg.conns /\ d # c => d \in cfg'.conns \/ Clashed(d)'
  <2>1. CASE Save(p, proc[p].copy)
    <3>1. fate \in [Conns -> SUBSET Marks] /\ "clashed" \in Marks
      BY <1>1 DEF Types, Marks
    <3>2. MarksGrow /\ \A d \in Overwritten(p, proc[p].copy) : "clashed" \in fate'[d]
      BY <2>1, <3>1, MarkFacts DEF Save, MarksGrow, Overwritten
    <3>3. \A d \in Conns : d \in cfg.conns => d \in cfg'.conns \/ Clashed(d)' \/ Handles(p, d)
      BY <2>1, <3>2, OverwrittenFacts DEF Save
    <3> QED
      BY <1>1, <2>1, <3>2, <3>3 DEF Handles, Save
  <2>2. CASE UNCHANGED <<cfg, fate>>
    BY <1>1, <2>2, SameMarks
  <2> QED
    BY <2>1, <2>2
<1>4. Types'
  BY <1>1, <1>2, <1>3 DEF Types, server, MarksGrow, Commands
<1>5. Grows
  BY <1>1, <1>2, <1>3, GrowsOf DEF server
<1>6. \A d \in {c} : Alone(p, d) /\ Settled(d)'
  <2>1. c \in cfg.conns \/ Clashed(c)
    BY <1>1, OwnOfIInv, MadeAreConns DEF Own, Placed
  <2>2. c \in cfg'.conns \/ "clashed" \in fate'[c]
    BY <1>1, <1>3, <2>1 DEF Clashed, Marked, MarksGrow
  <2> QED
    BY <1>1, <1>5, <2>2, OwnersAreAlone DEF Settled, Clashed, Marked
<1>7. \A d \in Conns : d # c => Calm(d)
  BY <1>1, <1>3 DEF Calm, Lessens, server
<1>8. \A d \in cfg'.conns \cup services' : d \in cfg.conns \cup services \/ Told(d)'
  <2>1. \A d \in proc[p].copy.conns : d \in Conns /\ Told(d)
    BY <1>1 DEF Own, Known
  <2> QED
    BY <1>1, <1>3, <1>5, <2>1 DEF Grows
<1>9. \A d \in Conns : Calm(d) \/ (Alone(p, d) /\ Settled(d)')
  BY <1>6, <1>7
<1> QED
  BY <1>1, <1>2, <1>4, <1>5, <1>8, <1>9, BusyStep

\* SaveEndpoint, or its failure.
LEMMA FileStep ==
    ASSUME IInv, NEW p \in Procs, UNCHANGED begun, File(p)
    PROVE  Kept(p)
<1> DEFINE c == proc[p].conn
<1>1. /\ Types /\ Own(p) /\ 1 .. made \subseteq Conns /\ made \in Nat
      /\ c \in Conns /\ c \in 1 .. made /\ c \in Owned(p)
      /\ proc[p].at = "file" /\ proc[p].op \in {"connect"} \cup Updates /\ proc[p].conn # Other
      /\ UNCHANGED agents
  <2>1. proc[p].at = "file" /\ proc[p].op \in {"connect"} \cup Updates /\ proc[p].conn # Other
    BY OwnOfIInv DEF File, At, Own, Formed, Early, Updates
  <2> QED
    BY <2>1, OwnOfIInv DEF Owned, File
<1>2. CASE /\ FileSaved(p) /\ Go(p, IF proc[p].op = "resume" THEN "install" ELSE "config")
           /\ UNCHANGED <<server, cfg, services, faults, fate>>
  <2>1. PICK at \in {"install", "config"} : Go(p, at) /\ (at = "install" <=> proc[p].op = "resume")
    BY <1>2
  <2>2. /\ proc' \in [Procs -> Commands] /\ Others(p) /\ MarksGrow
        /\ proc'[p].at = at /\ proc'[p].op = proc[p].op /\ proc'[p].conn = proc[p].conn
        /\ proc'[p].copy = proc[p].copy /\ proc'[p].replaced = proc[p].replaced
        /\ Owned(p)' = Owned(p)
    BY <1>1, <1>2, <2>1, GoFacts, SameMarks DEF Places
  <2>3. Types'
    BY <1>1, <1>2, <2>2 DEF Types, server, FileSaved
  <2>4. Grows
    BY <1>1, <1>2, <2>2, GrowsOf DEF server
  <2>5. \A d \in Conns : d # c => Calm(d)
    BY <1>1, <1>2 DEF Calm, Lessens, server, FileSaved
  <2>6. \A d \in {c} : Alone(p, d) /\ Settled(d)'
    <3>1. CASE proc[p].op = "connect"
      BY <1>1, <2>1, <2>2, <2>4, <3>1, OwnersAreAlone DEF Settled, UnderWay
    <3>2. CASE proc[p].op \in Updates
      BY <1>1, <1>2, <2>4, <3>2, OwnersAreAlone DEF Settled, Own, Placed, Clashed, Marked
    <3> QED
      BY <1>1, <3>1, <3>2
  <2>7. Own(p)'
    <3>1. Formed(proc[p])'
      BY <1>1, <2>1, <2>2 DEF Own, Formed, Early, Updates
    <3>2. Made(p)' /\ Known(p)'
      BY <1>1, <2>1, <2>4, GoKeeps DEF Places
    <3>3. Placed(p)'
      BY <1>1, <1>2, <2>1, <2>2 DEF Own, Placed, FileSaved, Clashed, Marked, Updates
    <3>4. Cleared(p)'
      <4>1. ASSUME NEW d \in proc[p].replaced
            PROVE  remote'[d] = "none" /\ (d \in proc[p].copy.conns \/ Clashed(d)' \/ Explained(d)')
        <5>1. d \in Conns /\ d <= made /\ d # c
          BY <1>1, <4>1, OwnOfIInv DEF Own, Formed
        <5> QED
          BY <1>1, <2>4, <2>5, <4>1, <5>1, CalmKeeps DEF Own, Cleared
      <4> QED
        BY <1>1, <2>2, <4>1 DEF Cleared, Updates
    <3> QED
      BY <3>1, <3>2, <3>3, <3>4 DEF Own
  <2>8. \A d \in Conns : Calm(d) \/ (Alone(p, d) /\ Settled(d)')
    BY <2>5, <2>6
  <2>9. \A d \in cfg'.conns \cup services' : d \in cfg.conns \cup services
    BY <1>2
  <2> QED
    BY <2>2, <2>3, <2>4, <2>6, <2>7, <2>8, <2>9, BusyStep
<1>3. CASE proc[p].op = "connect" /\ RollBack(p, cfg, "failed") /\ UNCHANGED <<services, files>>
  <2>1. cfg \in Config
    BY <1>1 DEF Types
  <2> QED
    BY <1>1, <1>3, <2>1, RollBackStep
<1>4. CASE proc[p].op # "connect" /\ Fail(p) /\ UnitMayBeWritten(p) /\ UNCHANGED files
  BY <1>1, <1>4, UpdateFailsStep DEF Fail, UnitMayBeWritten
<1> QED
  BY <1>1, <1>2, <1>3, <1>4 DEF File, UnitMayBeWritten

\* The copy that a command writes back.
LEMMA NewFacts ==
    ASSUME NEW p \in Procs, proc[p] \in Commands, Formed(proc[p]), proc[p].at = "config"
    PROVE  /\ New(p) \in Config
           /\ proc[p].op = "connect" => New(p).conns = proc[p].copy.conns \cup {proc[p].conn}
           /\ proc[p].op = "delete" => New(p).conns = proc[p].copy.conns \ {proc[p].conn}
           /\ proc[p].op \notin {"connect", "delete"} => New(p).conns = proc[p].copy.conns
<1>1. /\ proc[p].copy \in Config /\ proc[p].conn \in {Other} \cup Conns
      /\ proc[p].op \in {"connect", "delete", "signIn", "signOut"} \cup Updates
  BY DEF Commands, Formed, Updates
<1>2. CASE proc[p].op \in {"connect"} \cup Updates
  <2>1. New(p) = [proc[p].copy EXCEPT !.conns = @ \cup {proc[p].conn}]
    BY <1>2 DEF New, Updates
  <2>2. proc[p].conn \in Conns
    BY <1>1, <1>2 DEF Formed, Early, Updates
  <2> QED
    BY <1>1, <1>2, <2>1, <2>2 DEF Config, Formed, Updates
<1>3. CASE proc[p].op = "delete"
  BY <1>1, <1>3 DEF New, Config
<1>4. CASE proc[p].op \in {"signIn", "signOut"}
  BY <1>1, <1>4 DEF New, Config
<1> QED
  BY <1>1, <1>2, <1>3, <1>4 DEF Updates

\* Save: what is taken off the list is gone or explained, and what is added has its key
\* returned, or will have.
LEMMA WriteConfigStep ==
    ASSUME IInv, NEW p \in Procs, UNCHANGED begun, WriteConfig(p)
    PROVE  Kept(p)
<1> DEFINE c == proc[p].conn
           new == [proc[p] EXCEPT !.at = "install", !.copy = New(p)]
<1>1. /\ Types /\ Own(p) /\ 1 .. made \subseteq Conns /\ made \in Nat /\ proc[p] \in Commands
      /\ proc[p].copy.conns \subseteq 1 .. made /\ proc[p].at = "config" /\ UNCHANGED agents
      /\ Formed(proc[p]) /\ proc[p].op # "none" /\ Other \notin Conns
      /\ c \in 0 .. made /\ (c # Other => c \in Owned(p) /\ c \in Conns /\ c \in 1 .. made)
      /\ proc[p].replaced \subseteq 1 .. made
  <2>1. proc[p].at = "config" /\ UNCHANGED agents
    BY DEF WriteConfig, At
  <2>2. Other \notin Conns /\ (c # Other => c \in Owned(p))
    BY OwnOfIInv, MadeAreConns DEF Owned
  <2> QED
    BY <2>1, <2>2, OwnOfIInv DEF Own, Formed, Made
<1>2. /\ New(p) \in Config
      /\ proc[p].op = "connect" => New(p).conns = proc[p].copy.conns \cup {c}
      /\ proc[p].op = "delete" => New(p).conns = proc[p].copy.conns \ {c}
      /\ proc[p].op \notin {"connect", "delete"} => New(p).conns = proc[p].copy.conns
  BY <1>1, NewFacts
<1>3. CASE /\ Save(p, New(p))
           /\ session' = (session \/ proc[p].op = "signIn")
           /\ IF proc[p].op \in {"connect", "share"} THEN proc' = [proc EXCEPT ![p] = new] ELSE End(p)
           /\ UNCHANGED <<account, remote, made, files, services, faults>>
  <2>1. /\ new \in Commands /\ new.at = "install" /\ new.op = proc[p].op /\ new.conn = c
        /\ new.copy = New(p) /\ new.replaced = proc[p].replaced
    BY <1>1, <1>2 DEF Commands
  <2> HIDE DEF new
  <2>2. /\ proc' \in [Procs -> Commands] /\ Others(p)
        /\ proc[p].op \in {"connect", "share"} => proc'[p] = new
        /\ proc[p].op \notin {"connect", "share"} => Own(p)' /\ Owned(p)' = {}
    BY <1>1, <1>3, <2>1, CommandChanged, EndFacts
  <2>3. /\ MarksGrow
        /\ \A d \in Overwritten(p, New(p)) : "clashed" \in fate'[d]
    <3>1. fate \in [Conns -> SUBSET Marks] /\ "clashed" \in Marks
      BY <1>1 DEF Types, Marks
    <3> QED
      BY <1>3, <3>1, MarkFacts DEF Save, MarksGrow, Overwritten
  <2>4. \A d \in Conns : d \in cfg.conns => d \in cfg'.conns \/ Clashed(d)' \/ Handles(p, d)
    BY <1>3, <2>3, OverwrittenFacts DEF Save
  <2>5. Types'
    <3>1. New(p).conns \subseteq 1 .. made
      <4>1. proc[p].op = "connect" => c \in 1 .. made
        BY <1>1 DEF Formed, Early
      <4> QED
        BY <1>1, <1>2, <4>1
    <3>2. session' \in BOOLEAN
      BY <1>1, <1>3 DEF Types
    <3> QED
      BY <1>1, <1>2, <1>3, <2>2, <2>3, <3>1, <3>2 DEF Types, Save, MarksGrow
  <2>6. Grows
    BY <1>1, <1>3, <2>2, <2>3, GrowsOf
  <2>7. \A d \in {c} \cap Conns : Alone(p, d) /\ Settled(d)'
    <3>1. ASSUME NEW d \in {c} \cap Conns PROVE Alone(p, d)
      BY <1>1, <2>6, <3>1, OwnersAreAlone
    <3>2. ASSUME NEW d \in {c} \cap Conns PROVE Settled(d)'
      <4>1. CASE proc[p].op = "delete"
        <5>1. Clashed(d) \/ Explained(d)
          BY <1>1, <3>2, <4>1 DEF Own, Cleared
        <5> QED
          BY <1>1, <1>3, <2>3, <5>1 DEF Settled, Explained, Clashed, Marked, MarksGrow
      <4>2. CASE proc[p].op # "delete"
        <5>1. proc[p].op \in {"connect"} \cup Updates
          BY <1>1, <3>2, <4>2 DEF Commands, Formed, Updates
        <5>2. d \in New(p).conns
          BY <1>1, <1>2, <3>2, <5>1 DEF Formed, Updates
        <5> QED
          BY <1>3, <5>2 DEF Settled, Save
      <4> QED
        BY <4>1, <4>2
    <3> QED
      BY <3>1, <3>2
  <2>8. ASSUME NEW d \in Conns, d # c PROVE Calm(d) \/ (Alone(p, d) /\ Settled(d)')
    <3>1. CASE d \in cfg.conns => d \in cfg'.conns \/ Clashed(d)'
      BY <1>1, <1>3, <2>8, <3>1 DEF Calm, Lessens
    <3>2. CASE Handles(p, d) /\ d \in cfg.conns /\ d \notin cfg'.conns
      <4>1. d \notin proc[p].copy.conns
        BY <1>2, <1>3, <2>8, <3>2 DEF Save
      <4>2. d \in Owned(p) /\ (Clashed(d)' \/ Explained(d)')
        BY <1>1, <1>3, <2>6, <2>8, <3>2, <4>1, OffTheList
      <4> QED
        BY <2>6, <4>2, OwnersAreAlone DEF Settled
    <3> QED
      BY <2>4, <3>1, <3>2
  <2>9. \A d \in Conns : Calm(d) \/ (Alone(p, d) /\ Settled(d)')
    BY <2>7, <2>8
  <2>10. \A d \in New(p).conns : Told(d)'
    <3>1. \A d \in proc[p].copy.conns : d \in Conns /\ Told(d)
      BY <1>1 DEF Own, Known
    <3>2. proc[p].op = "connect" => \A d \in {c} : Told(d)'
      BY <2>1, <2>2 DEF Told, Finishing
    <3> QED
      BY <1>2, <2>6, <3>1, <3>2 DEF Grows
  <2>11. Own(p)' /\ Owned(p)' \subseteq Owned(p)
    <3>1. CASE proc[p].op \in {"connect", "share"}
      <4>1. proc'[p] = new /\ proc[p].conn # Other /\ c \in New(p).conns
        BY <1>1, <1>2, <2>2, <3>1 DEF Formed, Early, Updates
      <4>2. proc[p].copy.conns \subseteq New(p).conns
        BY <1>2, <3>1
      <4>3. Owned(p)' \subseteq Owned(p)
        BY <2>1, <4>1, <4>2 DEF Owned
      <4>4. Formed(proc[p])'
        BY <1>1, <2>1, <3>1, <4>1 DEF Formed, Early, Updates
      <4>5. Made(p)'
        <5>1. New(p).conns \subseteq 1 .. made
          BY <1>1, <1>2, <3>1, <4>1
        <5> QED
          BY <1>1, <1>3, <2>1, <4>1, <5>1 DEF Made
      <4>6. Placed(p)'
        <5>1. Clashed(c) \/ c \in files
          BY <1>1, <3>1, <4>1 DEF Own, Placed
        <5>2. "clashed" \in fate'[c] \/ c \in files
          BY <1>1, <2>3, <4>1, <5>1 DEF Clashed, Marked, MarksGrow
        <5> QED
          BY <1>3, <2>1, <3>1, <4>1, <5>2 DEF Placed, Clashed, Marked, Save
      <4>7. Cleared(p)'
        <5>1. ASSUME NEW d \in proc[p].replaced
              PROVE  remote'[d] = "none" /\ (d \in proc[p].copy.conns \/ Clashed(d)' \/ Explained(d)')
          <6>1. fate[d] \subseteq fate'[d]
            BY <1>1, <2>3, <5>1 DEF MarksGrow
          <6> QED
            BY <1>1, <1>3, <5>1, <6>1 DEF Own, Cleared, Clashed, Explained, Marked
        <5> QED
          BY <2>1, <3>1, <4>1, <4>2, <5>1 DEF Cleared
      <4>8. Known(p)'
        BY <2>1, <2>10, <4>1 DEF Known
      <4> QED
        BY <4>3, <4>4, <4>5, <4>6, <4>7, <4>8 DEF Own
    <3>2. CASE proc[p].op \notin {"connect", "share"}
      BY <2>2, <3>2
    <3> QED
      BY <3>1, <3>2
  <2>12. \A d \in cfg'.conns \cup services' : d \in cfg.conns \cup services \/ Told(d)'
    BY <1>3, <2>10 DEF Save
  <2>13. \A d \in Conns : proc[p].conn = d => Settled(d)'
    BY <2>7
  <2> QED
    BY <2>2, <2>5, <2>6, <2>9, <2>11, <2>12, <2>13, BusyStep
<1>4. CASE proc[p].op = "connect" /\ RollBack(p, cfg, "failed") /\ UNCHANGED <<files, services>>
  <2>1. cfg \in Config
    BY <1>1 DEF Types
  <2> QED
    BY <1>1, <1>4, <2>1, RollBackStep
<1>5. CASE proc[p].op \in Updates /\ Fail(p) /\ FileMayBeSaved(p) /\ UnitMayBeWritten(p)
  BY <1>1, <1>5, UpdateFailsStep DEF Fail, FileMayBeSaved, UnitMayBeWritten
<1>6. CASE proc[p].op # "connect" /\ Fail(p) /\ UNCHANGED <<files, services>>
  <2>1. remote' \in [{Other} \cup Conns -> {"none", "trial", "permanent"}]
    BY <1>1, <1>6 DEF Types, Fail, server
  <2> QED
    BY <1>1, <1>6, <2>1, FailStep DEF Fail, server
<1> QED
  BY <1>3, <1>4, <1>5, <1>6 DEF WriteConfig, new, Updates

\* service.Install: what is installed is listed, and its key is returned next.
LEMMA InstalledStep ==
    ASSUME IInv, NEW p \in Procs, UNCHANGED <<agents, begun>>, proc[p].at = "install", Installed(p)
    PROVE  Kept(p)
<1> DEFINE c == proc[p].conn
<1>1. /\ Types /\ Own(p) /\ 1 .. made \subseteq Conns /\ made \in Nat /\ {"verify", "config"} \subseteq Places
      /\ proc[p].op \in {"connect", "resume", "share"} /\ c \in proc[p].copy.conns
      /\ c \in Conns /\ c \in 1 .. made /\ c \in Owned(p) /\ proc[p].conn # Other
      /\ services' = services \cup {c} /\ UNCHANGED <<server, cfg, files, agents, faults, begun, fate>>
  <2>1. proc[p].op \in {"connect", "resume", "share"} /\ c \in proc[p].copy.conns /\ proc[p].conn # Other
    BY OwnOfIInv DEF Own, Formed, Early, Updates
  <2> QED
    BY <2>1, OwnOfIInv DEF Installed, Owned, Places
<1>2. PICK at \in {"verify", "config", "idle"} :
         /\ at = "idle" => End(p) /\ proc[p].op # "connect"
         /\ at = "config" => Go(p, at) /\ proc[p].op = "resume"
         /\ at = "verify" => Go(p, at) /\ proc[p].op = "connect"
  BY <1>1 DEF Installed
<1>3. /\ proc' \in [Procs -> Commands] /\ Others(p) /\ MarksGrow /\ Owned(p)' \subseteq Owned(p)
      /\ at # "idle" => /\ proc'[p].at = at /\ proc'[p].op = proc[p].op /\ proc'[p].conn = c
                        /\ proc'[p].copy = proc[p].copy /\ proc'[p].replaced = proc[p].replaced
  BY <1>1, <1>2, EndFacts, GoFacts, SameMarks DEF server
<1>4. Types'
  BY <1>1, <1>3 DEF Types, server
<1>5. Grows
  <2>1. \A d \in Conns : proc[p].op = "connect" /\ proc[p].conn = d => Told(d)'
    BY <1>2, <1>3 DEF Told, Finishing
  <2> QED
    BY <1>1, <1>3, <2>1, GrowsOf DEF server
<1>6. c \in cfg.conns \/ Clashed(c)
  BY <1>1 DEF Own, Placed
<1>7. \A d \in Conns : Calm(d) \/ (Alone(p, d) /\ Settled(d)')
  <2>1. \A d \in Conns : d # c => Calm(d)
    BY <1>1 DEF Calm, Lessens, server
  <2>2. \A d \in {c} : Alone(p, d) /\ Settled(d)'
    BY <1>1, <1>5, <1>6, OwnersAreAlone DEF Settled, Clashed, Marked
  <2> QED
    BY <2>1, <2>2
<1>8. Own(p)'
  <2>1. CASE at = "idle"
    BY <1>1, <1>2, <2>1, EndFacts DEF server
  <2>2. CASE at # "idle"
    <3>1. Formed(proc[p])'
      BY <1>1, <1>2, <1>3, <2>2 DEF Own, Formed, Early, Updates
    <3>2. Made(p)' /\ Known(p)'
      BY <1>1, <1>2, <1>5, <2>2, GoKeeps
    <3>3. Placed(p)'
      BY <1>1, <1>2, <1>3, <2>2 DEF Own, Placed, Clashed, Marked, Updates
    <3>4. Cleared(p)'
      <4>1. ASSUME NEW d \in proc[p].replaced
            PROVE  remote'[d] = "none" /\ (d \in proc[p].copy.conns \/ Clashed(d)' \/ Explained(d)')
        BY <1>1, <4>1 DEF Own, Formed, Cleared, Clashed, Explained, Marked, server
      <4> QED
        BY <1>1, <1>3, <2>2, <4>1 DEF Cleared
    <3> QED
      BY <3>1, <3>2, <3>3, <3>4 DEF Own
  <2> QED
    BY <2>1, <2>2
<1>9. \A d \in cfg'.conns \cup services' : d \in cfg.conns \cup services \/ Told(d)'
  BY <1>1, <1>5 DEF Own, Known, Grows
<1> QED
  BY <1>1, <1>3, <1>4, <1>5, <1>7, <1>8, <1>9, BusyStep

\* A connect that ends because its own path is not known has its mark.
LEMMA PathUnknownStep ==
    ASSUME IInv, NEW p \in Procs, proc[p].op = "connect", proc[p].at = "install", Fault, End(p),
           fate' = Mark(fate, {proc[p].conn}, "failed"), UNCHANGED <<server, machine, begun>>
    PROVE  Kept(p)
<1>1. Types /\ made' \in Nat /\ faults' \in 0 .. MaxFaults
  BY TypesOfTypeOK, MadeAreConns, BoundsAssumption DEF IInv, Fault, Types, server
<1>2. fate \in [Conns -> SUBSET Marks] /\ "failed" \in Marks
  BY <1>1 DEF Types, Marks
<1>3. MarksGrow /\ \A c \in Conns : proc[p].conn = c => "failed" \in fate'[c]
  BY <1>2, MarkFacts DEF MarksGrow
<1>4. Types'
  BY <1>1, <1>3, EndFacts DEF Types, server, machine, MarksGrow
<1>5. \A c \in Conns : Calm(c)
  BY <1>1, NothingHappens DEF server
<1>6. Quiet(p)
  BY <1>1, <1>3, <1>4, <1>5, EndFacts DEF Quiet, server, machine, Told, Marked
<1> QED
  BY <1>6, EndStep

\* service.Install, and what a failure there takes back.
LEMMA InstallStep ==
    ASSUME IInv, NEW p \in Procs, UNCHANGED begun, Install(p)
    PROVE  Kept(p)
<1>1. Types /\ proc[p] \in Commands /\ proc[p].at = "install" /\ UNCHANGED agents
  BY OwnOfIInv DEF Install, At
<1>2. CASE Installed(p)
  BY <1>1, <1>2, InstalledStep
<1>3. ASSUME proc[p].op = "connect", NEW config \in {cfg, [proc[p].copy EXCEPT !.conns = @ \ {proc[p].conn}]},
             RollBack(p, config, "rolledBack"), UnitMayBeWritten(p), UNCHANGED files
      PROVE  Kept(p)
  <2>1. config \in Config /\ (config = cfg \/ config.conns = proc[p].copy.conns \ {proc[p].conn})
    BY <1>1, <1>3 DEF Types, Commands, Config
  <2> QED
    BY <1>1, <1>3, <2>1, RollBackStep DEF UnitMayBeWritten
<1>4. CASE /\ proc[p].op = "connect" /\ Fault /\ End(p) /\ fate' = Mark(fate, {proc[p].conn}, "failed")
           /\ UNCHANGED <<server, cfg, services, files>>
  BY <1>1, <1>4, PathUnknownStep DEF machine
<1>5. CASE UpdateFails(p)
  BY <1>1, <1>5, UpdateFailsStep DEF UpdateFails, FileMayBeSaved, UnitMayBeWritten, Updates
<1> QED
  BY <1>2, <1>3, <1>4, <1>5 DEF Install, ConnectFails

-----------------------------------------------------------------------------
(* The agents, and what happens around the commands.                       *)

\* No connection is written but by an agent, or taken away.
LEMMA CalmStep ==
    ASSUME IInv, Types', UNCHANGED <<made, cfg, proc, fate>>, \A c \in Conns : Calm(c)
    PROVE  IInv'
<1>1. Types /\ \A c \in Conns : Told(c) => Told(c)'
  BY TypesOfTypeOK DEF IInv, Told, Finishing, Marked
<1>2. Grows
  BY <1>1, SameMarks DEF Grows, Calm, Lessens
<1>3. \A q \in Procs : Own(q)'
  <2>1. \A q \in Procs : Owned(q) \subseteq Conns
    BY OwnOfIInv
  <2> QED
    BY <1>2, <2>1, OthersAreKept
<1>4. TypeOK' /\ FormedInv' /\ MadeInv' /\ CommandsInv'
  BY <1>2, <1>3, OwnAddsUp
<1>5. OwnersInv'
  BY DEF IInv, OwnersInv, Owned, Clashed, Marked
<1>6. NothingIsForgotten'
  <2>1. ASSUME NEW c \in Conns PROVE Settled(c)'
    BY DEF IInv, NothingIsForgotten, Settled, UnderWay, Clashed, Explained, Marked, Calm, Lessens
  <2> QED
    BY <2>1, SettledIsEnough
<1>7. KeyIsReturned'
  <2>1. services' \subseteq services
    BY <1>1, MadeAreConns DEF Types, Calm, Lessens
  <2> QED
    BY <2>1 DEF IInv, KeyIsReturned, Finishing, Marked
<1> QED
  BY <1>4, <1>5, <1>6, <1>7 DEF IInv

\* An agent writes its own file at most, which only an agent that runs can do.
LEMMA AgentStep ==
    ASSUME IInv, NEW c \in Conns, Agent(c)
    PROVE  IInv'
<1>1. Types
  BY TypesOfTypeOK DEF IInv
<1>2. /\ UNCHANGED <<server, cfg, proc, begun, faults, fate>>
      /\ files \subseteq files' /\ files' \subseteq files \cup agents
      /\ services' \subseteq services /\ agents' \subseteq agents \cup services
  <2>1. CASE Launch(c) \/ EndAgent(c)
    BY <2>1 DEF Launch, EndAgent
  <2>2. CASE SaveRevoked(c)
    BY <2>2 DEF SaveRevoked
  <2>3. CASE RetireCurrent(c)
    BY <2>3 DEF RetireCurrent, UnitMayBeRemoved, MayBeStopped
  <2> QED
    BY <2>1, <2>2, <2>3 DEF Agent
<1>3. Types'
  BY <1>1, <1>2 DEF Types, server
<1>4. \A d \in Conns : Calm(d)
  BY <1>1, <1>2 DEF Calm, Lessens, server
<1> QED
  BY <1>2, <1>3, <1>4, CalmStep DEF server

\* What happens around the commands takes away at most.
LEMMA ElsewhereStep ==
    ASSUME IInv, Elsewhere
    PROVE  IInv'
<1>1. Types
  BY TypesOfTypeOK DEF IInv
<1>2. /\ UNCHANGED <<made, machine, proc, begun, fate>>
      /\ account' \in {"trial", "over", "paid"} /\ session' \in BOOLEAN
      /\ remote' \in [{Other} \cup Conns -> {"none", "trial", "permanent"}]
      /\ \A d \in Conns : remote'[d] \in {remote[d], "none"}
  BY <1>1 DEF Elsewhere, Types
<1>3. faults' \in 0 .. MaxFaults
  BY <1>1, BoundsAssumption DEF Elsewhere, Fault, Types
<1>4. Types'
  BY <1>1, <1>2, <1>3 DEF Types, machine
<1>5. \A d \in Conns : Calm(d)
  BY <1>2 DEF Calm, Lessens, machine
<1> QED
  BY <1>2, <1>4, <1>5, CalmStep DEF machine

-----------------------------------------------------------------------------
(* The theorems.                                                           *)

\* A computer without connections, or with one that was made earlier.
LEMMA InitIInv == Init => IInv
<1> SUFFICES ASSUME Init PROVE IInv
  OBVIOUS
<1>1. PICK here \in {{}, {1}}, other \in {"none", "trial"} :
        /\ account \in {"trial", "paid"}
        /\ session = (here # {})
        /\ remote = [c \in {Other} \cup Conns |->
                        IF c = Other THEN other
                        ELSE IF c \in here THEN IF account = "paid" THEN "permanent" ELSE "trial"
                        ELSE "none"]
        /\ made = IF here = {} THEN 0 ELSE 1
        /\ cfg = [conns |-> here, token |-> here # {}]
        /\ files = here /\ services = here /\ agents = {}
        /\ proc = [p \in Procs |-> Idle]
        /\ faults = 0 /\ begun = 0
        /\ fate = [c \in Conns |-> IF c \in here THEN {"known"} ELSE {}]
  BY DEF Init
<1>2. 1 \in Conns /\ Other \notin Conns /\ here \subseteq Conns /\ here \subseteq 1 .. made
  BY <1>1, BoundsAssumption DEF Conns, Other
<1>3. \A p \in Procs : /\ proc[p] = Idle
                       /\ proc[p].op = "none" /\ proc[p].at = "idle" /\ proc[p].conn = Other
                       /\ proc[p].replaced = {} /\ proc[p].copy.conns = {}
  BY <1>1, IdleIsFormed
<1>4. Types
  <2>1. remote \in [{Other} \cup Conns -> {"none", "trial", "permanent"}]
    BY <1>1, <1>2
  <2>2. made \in 0 .. MaxConns /\ faults \in 0 .. MaxFaults /\ begun \in 0 .. MaxCommands
    BY <1>1, BoundsAssumption
  <2>3. fate \in [Conns -> SUBSET Marks] /\ cfg \in Config
    BY <1>1, <1>2 DEF Marks, Config
  <2>4. proc \in [Procs -> Commands]
    BY <1>1, IdleIsFormed
  <2> QED
    BY <1>1, <1>2, <2>1, <2>2, <2>3, <2>4 DEF Types
<1>5. FormedInv
  BY <1>3, IdleIsFormed DEF FormedInv
<1>6. MadeInv
  <2>1. made \in Nat /\ \A c \in Conns : c > made => c \notin here
    BY <1>1
  <2>2. \A c \in Conns : c > made => remote[c] = "none"
    BY <1>1, <1>2, <2>1
  <2> QED
    BY <1>3, <2>1, <2>2 DEF MadeInv, Made, Other
<1>7. OwnersInv /\ CommandsInv
  BY <1>3 DEF OwnersInv, Owned, CommandsInv, Cleared, Known
<1>8. NothingIsForgotten
  BY <1>1, <1>2 DEF NothingIsForgotten, Explained
<1>9. KeyIsReturned
  BY <1>1, <1>2 DEF KeyIsReturned, Marked
<1> QED
  BY <1>4, <1>5, <1>6, <1>7, <1>8, <1>9, TypesOfTypeOK DEF IInv

\* Every step keeps the inductive invariant.
LEMMA NextKeepsIInv ==
    ASSUME IInv, [Next]_vars
    PROVE  IInv'
<1>1. ASSUME NEW p \in Procs, Step(p) PROVE IInv'
  <2>1. UNCHANGED begun
    BY <1>1 DEF Step
  <2>2. CASE Serve(p) \/ Entitle(p) \/ Checkout(p) \/ GiveUp(p)
    BY <2>1, <2>2, EarlySteps, StepKeepsAll
  <2>3. CASE Create(p)
    BY <2>1, <2>3, CreateStep, StepKeepsAll
  <2>4. CASE Clean(p)
    BY <2>1, <2>4, CleanStep, StepKeepsAll
  <2>5. CASE File(p)
    BY <2>1, <2>5, FileStep, StepKeepsAll
  <2>6. CASE WriteConfig(p)
    BY <2>1, <2>6, WriteConfigStep, StepKeepsAll
  <2>7. CASE Install(p)
    BY <2>1, <2>7, InstallStep, StepKeepsAll
  <2>8. CASE Verify(p)
    BY <2>1, <2>8, VerifyStep, StepKeepsAll
  <2>9. CASE DeleteRemote(p)
    BY <2>1, <2>9, DeleteRemoteStep, StepKeepsAll
  <2>10. CASE Uninstall(p)
    BY <2>1, <2>10, UninstallStep, StepKeepsAll
  <2>11. CASE Remove(p)
    BY <2>1, <2>11, RemoveStep, StepKeepsAll
  <2>12. CASE StopSharing(p)
    BY <2>1, <2>12, StopSharingStep, StepKeepsAll
  <2>13. CASE Approve(p)
    BY <2>1, <2>13, ApproveStep, StepKeepsAll
  <2> QED
    BY <1>1, <2>2, <2>3, <2>4, <2>5, <2>6, <2>7, <2>8, <2>9, <2>10, <2>11, <2>12, <2>13 DEF Step
<1>2. ASSUME NEW p \in Procs, Kill(p) PROVE IInv'
  BY <1>2, KillStep, StepKeepsAll
<1>3. ASSUME NEW p \in Procs, BeginConnect(p) \/ BeginSignIn(p) PROVE IInv'
  BY <1>3, PlainBegins, StepKeepsAll
<1>4. ASSUME BeginSignOut PROVE IInv'
  <2>1. "app" \in Procs
    BY DEF Procs
  <2> QED
    BY <1>4, <2>1, PlainBegins, StepKeepsAll
<1>5. ASSUME NEW p \in Procs, NEW c \in Conns, BeginDelete(p, c) PROVE IInv'
  BY <1>5, BeginAbout, StepKeepsAll
<1>6. ASSUME NEW c \in Conns, BeginUpdate(c) PROVE IInv'
  <2>1. "app" \in Procs
    BY DEF Procs
  <2> QED
    BY <1>6, <2>1, BeginAbout, StepKeepsAll
<1>7. ASSUME NEW c \in Conns, Agent(c) PROVE IInv'
  BY <1>7, AgentStep
<1>8. CASE Elsewhere
  BY <1>8, ElsewhereStep
<1>9. CASE UNCHANGED vars
  <2>1. Types /\ Types'
    BY <1>9, TypesOfTypeOK DEF IInv, Types, vars
  <2>2. \A c \in Conns : Calm(c)
    BY <1>9, <2>1, NothingHappens DEF vars, machine
  <2> QED
    BY <1>9, <2>1, <2>2, CalmStep DEF vars
<1> QED
  BY <1>1, <1>2, <1>3, <1>4, <1>5, <1>6, <1>7, <1>8, <1>9 DEF Next

\* The inductive invariant: what a command is about is where the command believes it to
\* be, and what it is about to take off the list is gone or explained, unless another
\* command is about it as well, which is recorded.
THEOREM Inductive == Spec => []IInv
  BY InitIInv, NextKeepsIInv, PTL DEF Spec

\* TypeOK, for any number of connections, commands and failures.
THEOREM TypeCorrect == Spec => []TypeOK
  BY Inductive, PTL DEF IInv

\* What exists of a connection that config.json does not list, so that the owner does not
\* find it, was left by a cause that Explained names for that very place, or two commands
\* wrote it, or the list, at the same time.
THEOREM NothingForgotten == Spec => []NothingIsForgotten
  BY Inductive, PTL DEF IInv

\* A connection that is listed or installed has given its key to the owner, or is about
\* to, but for a connect that was killed, or that ended with a message; also when two
\* commands overwrite the list.
THEOREM KeyReturned == Spec => []KeyIsReturned
  BY Inductive, PTL DEF IInv

=============================================================================
