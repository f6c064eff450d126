----------------------------- MODULE ConnectFlow -----------------------------
(***************************************************************************)
(* cmd/modeluplink: making and removing a connection.  It exists in four   *)
(* places, the control plane, the file of the endpoint, config.json and    *)
(* the service manager, and every command writes them one after the other. *)
(* A command is a process of its own that loads config.json when it starts *)
(* and writes that copy back when it is done, minutes later for a connect. *)
(* The application runs one helper at a time (DesktopUI); a command in a   *)
(* terminal runs beside it.  So do the agents: one whose connection is     *)
(* revoked writes its file once more and removes its own service.          *)
(***************************************************************************)
EXTENDS Naturals

CONSTANTS MaxConns,     \* bound: connections that this machine makes
          MaxCommands,  \* bound: commands but for removals and sign-ins in a terminal
          MaxFaults     \* bound: failures, kills and changes from the dashboard

ASSUME BoundsAssumption == MaxConns \in Nat \ {0} /\ {MaxCommands, MaxFaults} \subseteq Nat

Conns == 1 .. MaxConns
Other == 0                      \* the trial connection of another computer
Procs == {"app", "terminal"}

VARIABLES
    account,    \* "trial", "over" or "paid"
    session,    \* the control plane accepts the saved session
    remote,     \* what each connection is to the control plane
    made,       \* connections made so far
    cfg,        \* config.json
    files,      \* the files endpoints/<slug>.json
    services,   \* the units, plists or tasks of the service manager
    agents,     \* the agents that run, or are started again, and may write their file
    proc,       \* the commands
    begun,      \* how many of them that MaxCommands bounds
    faults,
    fate        \* history of each connection: what has become of it, out of Marks

vars == <<account, session, remote, made, cfg, files, services, agents, proc, begun, faults, fate>>
server == <<account, session, remote, made>>
machine == <<cfg, files, services, agents>>

\* "known": its owner has its address and key.  "killed": with the connect that had made
\* it.  "failed", "rolledBack": its connect ended with a message, the latter with
\* "endpoint rolled back".  "left": replaced, but not removed, with a warning.
\* "unverified": removed without a session, with the message that the control plane may
\* still have it.  "outlived": its agent still ran when its files were removed.
\* "clashed": two commands wrote it at the same time.
Marks == {"known", "killed", "failed", "rolledBack", "left", "unverified", "outlived", "clashed"}

Config == [conns : SUBSET Conns, token : BOOLEAN]

\* A command: where it is, the connection it is about, the ones it moves or replaces,
\* what it knows of the account, and its copy of config.json.
Commands == [op : {"none", "connect", "delete", "resume", "share", "pause", "signIn", "signOut"},
             at : {"idle", "serve", "entitle", "checkout", "create", "clean", "stop", "file",
                   "config", "install", "verify", "remote", "uninstall", "remove", "approve"},
             conn : {Other} \cup Conns, from : SUBSET ({Other} \cup Conns), paid : BOOLEAN,
             replaced : SUBSET ({Other} \cup Conns), copy : Config]

Idle == [op |-> "none", at |-> "idle", conn |-> Other, from |-> {}, paid |-> FALSE,
         replaced |-> {}, copy |-> [conns |-> {}, token |-> FALSE]]

Marked(c, marks) == fate[c] \cap marks # {}

TypeOK ==
    /\ account \in {"trial", "over", "paid"} /\ session \in BOOLEAN
    /\ remote \in [{Other} \cup Conns -> {"none", "trial", "permanent"}]
    /\ made \in 0 .. MaxConns
    /\ cfg \in Config
    /\ files \cup services \cup agents \cup cfg.conns \subseteq 1 .. made
    /\ fate \in [Conns -> SUBSET Marks]
    /\ faults \in 0 .. MaxFaults /\ begun \in 0 .. MaxCommands
    /\ proc \in [Procs -> Commands]
    /\ \A p \in Procs :
          proc[p].at \in {"install", "verify"}
              => proc[p].conn \in files \/ Marked(proc[p].conn, {"clashed"})

\* A machine where nobody has signed in, or with a connection of an earlier day.
Init ==
    \E here \in {{}, {1}}, other \in {"none", "trial"} :
        /\ account \in {"trial", "paid"}
        /\ session = (here # {})
        /\ remote = [c \in {Other} \cup Conns |->
                        IF c = Other THEN other
                        ELSE IF c \in here THEN IF account = "paid" THEN "permanent" ELSE "trial"
                        ELSE "none"]
        /\ made = IF here = {} THEN 0 ELSE 1
        /\ cfg = [conns |-> here, token |-> here # {}]
        /\ files = here /\ services = here /\ agents = {}
        /\ proc = [p \in Procs |-> Idle]
        /\ faults = 0 /\ begun = 0
        /\ fate = [c \in Conns |-> IF c \in here THEN {"known"} ELSE {}]

-----------------------------------------------------------------------------
(* The steps of a command.                                                 *)

Start(p, command) ==
    /\ proc[p] = Idle
    /\ proc' = [proc EXCEPT ![p] = command]
    /\ begun' = IF p = "terminal" /\ command.op \in {"delete", "signIn"} THEN begun ELSE begun + 1
    /\ begun' <= MaxCommands
Go(p, at) == proc' = [proc EXCEPT ![p].at = at]
End(p) == proc' = [proc EXCEPT ![p] = Idle]
At(p, at) == proc[p].at = at
Fault == faults < MaxFaults /\ faults' = faults + 1

\* Some connections get one more mark.
Mark(marks, conns, mark) ==
    [c \in Conns |-> IF c \in conns THEN marks[c] \cup {mark} ELSE marks[c]]

\* Command p is about connection c; and so is the other one.
Handles(p, c) == c \in {proc[p].conn} \cup proc[p].replaced
Shared(p, c) == {d \in {c} : \E q \in Procs \ {p} : Handles(q, d)}

\* An entry that p is not about and that its Save changes all the same was written by
\* the other command meanwhile.
Overwritten(p, new) ==
    {c \in Conns : (c \in cfg.conns) # (c \in new.conns) /\ ~Handles(p, c)}

\* localconfig.Save.
Save(p, new) ==
    /\ cfg' = new
    /\ fate' = Mark(fate, Overwritten(p, new), "clashed")

\* Slip: an error of os.Remove is overlooked.
UnitRemovedOrNot(c) == services' \in {services, services \ {c}}

\* service.Uninstall reports whether the unit, the plist or the task is removed.  The
\* error of Stop is overlooked, and launchctl returns early: the agent may still run.
UnitRemoved(c) == services' = services \ {c}
UnitMayBeRemoved(c) == services' \in {services, services \ {c}}
MayBeStopped(c) == agents' \in {agents, agents \ {c}}

\* DeleteEndpointFiles: the file first, then the certificates.
FilesRemoved(c) == files' = files \ {c}
FilesMayBeRemoved(c) == files' \in {files, files \ {c}}

\* What is tried with its error overlooked: SaveEndpoint and service.Install.
FileMayBeSaved(p) == files' \in {files, files \cup {proc[p].conn}}
UnitMayBeWritten(p) == services' \in {services, services \cup {proc[p].conn}}

-----------------------------------------------------------------------------
(* connect, move_trial and serve.                                          *)

Trials == {c \in DOMAIN remote : remote[c] = "trial"}

\* otherComputerTrial: a trial connection that this machine does not list.
OtherTrials == IF account = "trial" THEN Trials \ cfg.conns ELSE {}

\* paidConnectionLimit, of an account that may have one connection.
AtLimit == account = "paid" /\ \E c \in DOMAIN remote : remote[c] = "permanent"

\* The application checks the account first, so that no checkout opens, and the owner
\* confirms that the connection of another computer is moved.
BeginConnect(p) ==
    /\ cfg.token
    /\ \E from \in SUBSET OtherTrials :
          /\ IF p = "app"
             THEN session /\ account # "over" /\ ~AtLimit
                     /\ from \in (IF OtherTrials = {} THEN {{}} ELSE {{c} : c \in OtherTrials})
             ELSE from = {}
          /\ Start(p, [Idle EXCEPT !.op = "connect", !.at = "serve", !.from = from])
    /\ UNCHANGED <<server, machine, faults, fate>>

\* serveWithCredentials loads the configuration, and prepares the model for minutes.
Serve(p) ==
    /\ At(p, "serve")
    /\ cfg.token
    /\ proc' = [proc EXCEPT ![p].at = "entitle", ![p].copy = cfg]
    /\ UNCHANGED <<server, machine, faults, fate>>

\* ensureEntitlement.  A trial can be moved by an account in its trial only.
Entitle(p) ==
    /\ At(p, "entitle")
    /\ session
    /\ account = "paid" => proc[p].from = {}
    /\ proc' = [proc EXCEPT ![p].at = IF account = "over" THEN "checkout" ELSE "create",
                            ![p].paid = account = "paid"]
    /\ UNCHANGED <<server, machine, faults, fate>>

\* runCheckout, until the account is paid for; a move fails then as well.
Checkout(p) ==
    /\ At(p, "checkout")
    /\ session /\ account = "paid" /\ proc[p].from = {}
    /\ proc' = [proc EXCEPT ![p].at = "create", ![p].paid = TRUE]
    /\ UNCHANGED <<server, machine, faults, fate>>

\* Whatever fails before the connection is made, or is refused, changes nothing.
GiveUp(p) ==
    /\ \E at \in {"serve", "entitle", "checkout", "create"} : At(p, at)
    /\ End(p)
    /\ UNCHANGED <<server, machine, faults, fate>>

\* CreateEndpoint, MoveTrialEndpoint: a paid connection replaces the trial ones, a
\* move the one it names.  When the answer is lost, the connection is there.
Create(p) ==
    LET c == made + 1
        old == IF account = "paid" THEN Trials ELSE proc[p].from
    IN  /\ At(p, "create")
        /\ c \in Conns
        /\ session /\ account # "over"
        /\ proc[p].from # {} => account = "trial" /\ proc[p].from \subseteq Trials
        /\ made' = c
        /\ remote' = [d \in DOMAIN remote |->
                         IF d = c THEN IF account = "paid" THEN "permanent" ELSE "trial"
                         ELSE IF d \in old THEN "none" ELSE remote[d]]
        /\ \/ /\ proc' = [proc EXCEPT ![p].at = "clean", ![p].conn = c,
                             ![p].replaced =
                             IF proc[p].paid /\ account = "paid" THEN old \cap proc[p].copy.conns ELSE {}]
              /\ UNCHANGED <<faults, fate>>
           \/ Fault /\ End(p) /\ fate' = Mark(fate, {c}, "failed")
        /\ UNCHANGED <<account, session, machine>>

\* removeReplacedTrialEndpoints, one connection after the other.  What cannot be
\* removed is left behind with a warning.
Clean(p) ==
    LET local == proc[p].replaced \cap proc[p].copy.conns
    IN  /\ At(p, "clean")
        /\ IF local = {}
           THEN Go(p, "file") /\ UNCHANGED <<files, services, agents, faults, fate>>
           ELSE \E c \in local, gone \in BOOLEAN, removed \in BOOLEAN :
                   /\ IF gone THEN UnitRemoved(c) ELSE UnitMayBeRemoved(c)
                   /\ MayBeStopped(c)
                   /\ IF removed THEN FilesRemoved(c) ELSE FilesMayBeRemoved(c)
                   /\ LET met == Mark(fate, Shared(p, c), "clashed") IN
                      IF gone /\ removed
                      THEN fate' = Mark(met, {c} \cap agents', "outlived") /\ UNCHANGED faults
                      ELSE fate' = Mark(met, {c}, "left") /\ Fault
                   /\ proc' = [proc EXCEPT ![p].copy.conns = @ \ {c}]
        /\ UNCHANGED <<server, cfg>>

\* The connection is deleted again, as far as the control plane answers: its error is
\* overlooked.
RollBack(p, config, mark) ==
    LET c == proc[p].conn
    IN  /\ Fault /\ End(p)
        /\ remote' \in {remote, [remote EXCEPT ![c] = "none"]}
        /\ cfg' = config
        /\ fate' = Mark(Mark(fate, Overwritten(p, config), "clashed"), {c}, mark)
        /\ UNCHANGED <<account, session, made>>

\* What cannot be written, and nothing to roll back.
Fail(p) == Fault /\ End(p) /\ UNCHANGED <<server, cfg, fate>>

\* Slip: the error of SaveEndpoint is overlooked.
FileOverlooked(p) == FileMayBeSaved(p)

FileSaved(p) == files' = files \cup {proc[p].conn}

\* SaveEndpoint.  A share that fails, here or in the checks before, installs the
\* service again that it has stopped.
File(p) ==
    /\ At(p, "file")
    /\ \/ /\ FileSaved(p) /\ Go(p, IF proc[p].op = "resume" THEN "install" ELSE "config")
          /\ UNCHANGED <<server, cfg, services, faults, fate>>
       \/ /\ CASE proc[p].op = "connect" -> RollBack(p, cfg, "failed") /\ UNCHANGED services
              [] proc[p].op = "share"   -> Fail(p) /\ UnitMayBeWritten(p)
              [] OTHER                  -> Fail(p) /\ UNCHANGED services
          /\ UNCHANGED files
    /\ UNCHANGED agents

\* The copy with what the command changes in it.
New(p) ==
    LET copy == proc[p].copy
    IN  CASE proc[p].op \in {"connect", "resume", "share", "pause"} ->
                    [copy EXCEPT !.conns = @ \cup {proc[p].conn}]
          [] proc[p].op = "delete"  -> [copy EXCEPT !.conns = @ \ {proc[p].conn}]
          [] proc[p].op = "signIn"  -> [copy EXCEPT !.token = TRUE]
          [] proc[p].op = "signOut" -> [copy EXCEPT !.token = FALSE]

\* Save, which makes the new session the saved one.  A share that fails restores the file
\* and the service.
WriteConfig(p) ==
    /\ At(p, "config")
    /\ \/ /\ Save(p, New(p))
          /\ session' = (session \/ proc[p].op = "signIn")
          /\ IF proc[p].op \in {"connect", "share"}
             THEN proc' = [proc EXCEPT ![p].at = "install", ![p].copy = New(p)]
             ELSE End(p)
          /\ UNCHANGED <<account, remote, made, files, services, faults>>
       \/ CASE proc[p].op = "connect" -> RollBack(p, cfg, "failed") /\ UNCHANGED <<files, services>>
            [] proc[p].op = "share"   -> Fail(p) /\ FileMayBeSaved(p) /\ UnitMayBeWritten(p)
            [] OTHER                  -> Fail(p) /\ UNCHANGED <<files, services>>
    /\ UNCHANGED agents

Installed(p) ==
    /\ services' = services \cup {proc[p].conn}
    /\ CASE proc[p].op = "connect" -> Go(p, "verify")
         [] proc[p].op = "resume"  -> Go(p, "config")
         [] proc[p].op = "share"   -> End(p)
    /\ UNCHANGED <<server, cfg, files, faults, fate>>

\* A connect takes everything back but the file, and the connection from the list as far
\* as that can be saved; it takes nothing back when its own path is not known.
ConnectFails(p) ==
    /\ proc[p].op = "connect"
    /\ \/ /\ \E config \in {cfg, [proc[p].copy EXCEPT !.conns = @ \ {proc[p].conn}]} :
                 RollBack(p, config, "rolledBack")
          /\ UnitMayBeWritten(p)
       \/ /\ Fault /\ End(p) /\ fate' = Mark(fate, {proc[p].conn}, "failed")
          /\ UNCHANGED <<server, cfg, services>>
    /\ UNCHANGED files

\* An update restores what it has saved, as far as that can be saved.
UpdateFails(p) ==
    /\ proc[p].op \in {"resume", "share"}
    /\ Fault /\ End(p)
    /\ \/ (proc[p].op = "share" /\ Save(p, proc[p].copy))
       \/ UNCHANGED <<cfg, fate>>
    /\ FileMayBeSaved(p) /\ UnitMayBeWritten(p)
    /\ UNCHANGED server

\* service.Install.
Install(p) ==
    /\ At(p, "install")
    /\ Installed(p) \/ ConnectFails(p) \/ UpdateFails(p)
    /\ UNCHANGED agents

\* Slip: the key is returned when the connection answers.
ReturnedIf(p, ready) == IF ready THEN {proc[p].conn} ELSE {}

Returned(p, ready) == {proc[p].conn}

\* waitForReady and the result: the address and the key, ready or not.
Verify(p) ==
    /\ At(p, "verify")
    /\ \E ready \in BOOLEAN : fate' = Mark(fate, Returned(p, ready), "known")
    /\ End(p)
    /\ UNCHANGED <<server, machine, faults>>

-----------------------------------------------------------------------------
(* delete.                                                                 *)

\* The application needs a session for it, a terminal does not.
BeginDelete(p, c) ==
    /\ c \in cfg.conns
    /\ p = "app" => cfg.token
    /\ Start(p, [Idle EXCEPT !.op = "delete", !.at = "remote", !.conn = c, !.copy = cfg])
    /\ fate' = Mark(fate, Shared(p, c), "clashed")
    /\ UNCHANGED <<server, machine, faults>>

\* Slip: a connection that the control plane does not know is an error.
ToleratesRefused(c) == ~session \/ remote[c] # "none"

\* 401 and 404 are no obstacle.
Tolerated(c) == TRUE

DeleteRemote(p) ==
    LET c == proc[p].conn
    IN  /\ At(p, "remote")
        /\ \/ /\ remote' = IF session THEN [remote EXCEPT ![c] = "none"] ELSE remote
              /\ fate' = Mark(fate, {d \in {c} : remote'[d] # "none"}, "unverified")
              /\ IF Tolerated(c) THEN Go(p, "uninstall") ELSE End(p)
              /\ UNCHANGED faults
           \/ /\ Fault /\ End(p)
              /\ remote' \in {remote, [remote EXCEPT ![c] = "none"]}
              /\ UNCHANGED fate
        /\ UNCHANGED <<account, session, made, machine>>

Uninstall(p) ==
    LET c == proc[p].conn
    IN  /\ At(p, "uninstall")
        /\ \/ /\ UnitRemoved(c) /\ Go(p, "remove")
              /\ UNCHANGED <<server, cfg, faults, fate>>
           \/ Fail(p) /\ UnitMayBeRemoved(c)
        /\ MayBeStopped(c)
        /\ UNCHANGED files

\* DeleteEndpointFiles.  An agent that still runs can write the file again.
Remove(p) ==
    LET c == proc[p].conn
    IN  /\ At(p, "remove")
        /\ \/ /\ FilesRemoved(c) /\ Go(p, "config")
              /\ fate' = Mark(fate, {c} \cap agents, "outlived")
              /\ UNCHANGED <<server, cfg, faults>>
           \/ Fail(p) /\ FilesMayBeRemoved(c)
        /\ UNCHANGED <<services, agents>>

-----------------------------------------------------------------------------
(* The other commands that write the configuration.                        *)

\* resume: SaveEndpoint, Install, Save.  share_models: StopSharing, SaveEndpoint, Save,
\* Install.  pause: StopSharing, SaveEndpoint, Save; what Windows saves before and what is
\* saved again once the memory is released are the same entries (SharingLifecycle).
BeginUpdate(c) ==
    /\ c \in cfg.conns /\ cfg.token
    /\ \E op \in {"resume", "share", "pause"} :
          Start("app", [Idle EXCEPT !.op = op, !.at = IF op = "resume" THEN "file" ELSE "stop",
                                    !.conn = c, !.copy = cfg])
    /\ fate' = Mark(fate, Shared("app", c), "clashed")
    /\ UNCHANGED <<server, machine, faults>>

\* StopSharing, which sees that the agent is gone.  A share of a connection that is
\* stopped anyway goes on when this fails.
StopSharing(p) ==
    LET c == proc[p].conn
    IN  /\ At(p, "stop")
        /\ \/ UnitRemoved(c) /\ agents' = agents \ {c} /\ Go(p, "file") /\ UNCHANGED faults
           \/ /\ UnitMayBeRemoved(c) /\ MayBeStopped(c)
              /\ Fault
              /\ End(p) \/ (proc[p].op = "share" /\ Go(p, "file"))
        /\ UNCHANGED <<server, cfg, files, fate>>

\* login loads the configuration before it waits for the owner's approval.
BeginSignIn(p) ==
    /\ Start(p, [Idle EXCEPT !.op = "signIn", !.at = "approve", !.copy = cfg])
    /\ UNCHANGED <<server, machine, faults, fate>>

Approve(p) ==
    /\ At(p, "approve")
    /\ Go(p, "config") \/ End(p)
    /\ UNCHANGED <<server, machine, faults, fate>>

BeginSignOut ==
    /\ Start("app", [Idle EXCEPT !.op = "signOut", !.at = "config", !.copy = cfg])
    /\ session' = FALSE
    /\ UNCHANGED <<account, remote, made, machine, faults, fate>>

-----------------------------------------------------------------------------
(* The agents.                                                             *)

\* The service manager starts one, which loads its file.
Launch(c) ==
    /\ c \in (services \cap files) \ agents
    /\ agents' = agents \cup {c}
    /\ UNCHANGED <<server, cfg, files, services, proc, begun, faults, fate>>

\* It ends, or is stopped.
EndAgent(c) ==
    /\ c \in agents
    /\ agents' = agents \ {c}
    /\ UNCHANGED <<server, cfg, files, services, proc, begun, faults, fate>>

\* The relay says that the connection is revoked: retireRevokedEndpoint saves its file,
\* and once more when the memory is released; neither need succeed.
SaveRevoked(c) ==
    /\ c \in agents
    /\ remote[c] = "none"
    /\ files' = files \cup {c}
    /\ UNCHANGED <<server, cfg, services, agents, proc, begun, faults, fate>>

\* RetireCurrent, of which each step may fail.  The agent waits for its end, or is
\* started again.
RetireCurrent(c) ==
    /\ c \in agents
    /\ remote[c] = "none"
    /\ UnitMayBeRemoved(c) /\ MayBeStopped(c)
    /\ UNCHANGED <<server, cfg, files, proc, begun, faults, fate>>

Agent(c) == Launch(c) \/ EndAgent(c) \/ SaveRevoked(c) \/ RetireCurrent(c)

-----------------------------------------------------------------------------
(* What happens around the commands.                                       *)

\* A command is killed between two steps: its time is over, or the machine goes down.
Kill(p) ==
    /\ proc[p] # Idle
    /\ Fault /\ End(p)
    /\ fate' = IF proc[p].op = "connect" /\ proc[p].conn # Other
               THEN Mark(fate, {proc[p].conn}, "killed")
               ELSE fate
    /\ UNCHANGED <<server, machine, begun>>

\* The trial ends, the owner pays; the session ends, the dashboard removes a connection.
Elsewhere ==
    /\ \/ /\ account # "paid" /\ account' \in {"over", "paid"} \ {account}
          /\ UNCHANGED <<session, remote, faults>>
       \/ /\ Fault
          /\ session /\ session' = FALSE
          /\ UNCHANGED <<account, remote>>
       \/ /\ Fault
          /\ \E c \in DOMAIN remote : remote[c] # "none" /\ remote' = [remote EXCEPT ![c] = "none"]
          /\ UNCHANGED <<account, session>>
    /\ UNCHANGED <<made, machine, proc, begun, fate>>

Step(p) ==
    /\ UNCHANGED begun
    /\ \/ Serve(p) \/ Entitle(p) \/ Checkout(p) \/ GiveUp(p) \/ Create(p)
       \/ Clean(p) \/ File(p) \/ WriteConfig(p) \/ Install(p) \/ Verify(p)
       \/ DeleteRemote(p) \/ Uninstall(p) \/ Remove(p) \/ StopSharing(p) \/ Approve(p)

Next ==
    \/ \E p \in Procs :
          \/ Step(p) \/ Kill(p)
          \/ BeginConnect(p) \/ BeginSignIn(p)
          \/ \E c \in Conns : BeginDelete(p, c)
    \/ \E c \in Conns : BeginUpdate(c) \/ Agent(c)
    \/ BeginSignOut
    \/ Elsewhere

Spec == Init /\ [][Next]_vars

\* Every wait of a command has its limit, and the owner repeats a removal that failed.
Fairness ==
    /\ \A p \in Procs : WF_vars(Step(p))
    /\ \A c \in Conns : SF_vars(BeginDelete("terminal", c))

FairSpec == Spec /\ Fairness

-----------------------------------------------------------------------------
(* Properties.                                                             *)

UnderWay(c) == \E p \in Procs : proc[p].op = "connect" /\ proc[p].conn = c
                                   /\ proc[p].at \in {"clean", "file", "config"}
Finishing(c) == \E p \in Procs : proc[p].op = "connect" /\ proc[p].conn = c
                                    /\ proc[p].at \in {"install", "verify"}

\* For each place where a connection that is not listed can still be, what may have left it
\* there: a connect that was killed, that failed or that was rolled back; a replaced
\* connection that could not be removed, of which a warning tells; a removal without a
\* session, which says that the control plane may still have the connection; an agent
\* that still ran when its files were removed.
Explained(c) ==
    /\ c \in services => Marked(c, {"rolledBack", "left"})
    /\ c \in agents => Marked(c, {"rolledBack", "left", "outlived"})
    /\ c \in files => Marked(c, {"killed", "failed", "rolledBack", "left", "outlived"})
    /\ remote[c] # "none" => Marked(c, {"killed", "failed", "rolledBack", "unverified"})

\* What exists of a connection that config.json does not list, so that the owner neither
\* finds it nor can remove it, has one of the causes of Explained; but for a connect on its
\* way, and for two commands that write the same connection or the list at the same time,
\* there is no other.  No failure and no kill of a removal, a resume, a share or a pause
\* leaves anything behind that is not listed.
NothingIsForgotten ==
    \A c \in Conns \ cfg.conns : UnderWay(c) \/ Marked(c, {"clashed"}) \/ Explained(c)

\* A connection that is listed or installed has given its address and key to its owner,
\* ready or not ("so the app never loses credentials", desktop.go:303-304), or its connect
\* is about to, in whatever way the two commands overwrite the list; but for a connect that
\* was killed or that ended with a message: the answer to its creation was lost, it could
\* not save, it did not find its own path, or it was rolled back.
KeyIsReturned ==
    \A c \in cfg.conns \cup services :
        Marked(c, {"known", "killed", "failed", "rolledBack"}) \/ Finishing(c)

\* A removal that failed half-way can be repeated until nothing is left on this machine,
\* also when the control plane refuses the session or knows the connection no longer; but
\* for what a roll-back or a replacement has left behind, two commands at the same time,
\* and an agent that still ran when its files were removed.
DeleteCompletes ==
    \A c \in Conns :
        c \in cfg.conns ~> \/ c \notin services \cup files \cup cfg.conns
                           \/ Marked(c, {"rolledBack", "left", "outlived", "clashed"})
=============================================================================
