--------------------------- MODULE BotLeaseProofs ---------------------------
(***************************************************************************)
(* That no two containers poll one bot, for every number of agents and bots *)
(* and every order of setup, attach, detach, swap, archive, delete, failure *)
(* and restart, as long as the process dies at most once; and, in the       *)
(* second half, what the pool says of a bot and what a bot is called.       *)
(*                                                                         *)
(* OnePoller is not inductive: it says nothing of a container that is down  *)
(* but may be started again.  Inv adds what the code keeps: two rows never  *)
(* name one bot (OneRow), and of each agent what its task, its row, its     *)
(* state, its container and its archive have to do with each other (Fit).   *)
(***************************************************************************)
EXTENDS BotLease, TLAPS

JobRec  == [op : Ops, pc : Places, bot : Bots \cup {None}, mine : BOOLEAN]
BoxRec  == [up : BOOLEAN, bot : Bots \cup {None}]
ArchRec == [st : {"none", "begun", "stopped", "released"}, was : BOOLEAN,
            bot : Bots \cup {None}, copy : BOOLEAN, held : BOOLEAN]
Shape ==
  /\ job \in [Jobs -> JobRec]
  /\ row \in [Agents -> Bots \cup {None}]
  /\ state \in [Agents -> States]
  /\ box \in [Agents -> BoxRec]
  /\ arch \in [Agents -> ArchRec]
  /\ crashes \in Nat

GiveOps == {"detach", "swap", "archive", "delete", "resume"}
After   == {"give", "release", "goodbye", "left", "last"}

(* Of one agent: its task (op, pc), its row r, its state s, its container    *)
(* (up, on bot b), its archive on disk (st, was).                           *)
Good(op, pc, r, s, up, b, st, was, cr) ==
  /\ up /\ b # None => r = b
  /\ op = "setup" => s = "PROVISIONING" /\ st = "none"
  /\ op = "setup" /\ pc \in {"drop", "name", "gate"} => r = None
  /\ pc = "health" => op = "setup" /\ b = r
  /\ pc \in After => op \in GiveOps /\ ~up
  /\ pc = "stop" => op \in GiveOps
  /\ op \in {"detach", "swap"} => st = "none" /\ (pc \in After => s = "STOPPED")
  /\ op = "delete" => s = "DELETING" /\ st = "none"
  /\ op \in {"archive", "resume"} => st # "none"
  /\ op = "archive" /\ pc # "last" => st # "released"
  /\ st # "none" => s \in {"RUNNING", "STOPPED", "FAILED"}
  /\ st # "none" /\ was => s = "RUNNING"
  /\ st # "none" /\ op # "archive" => cr > 0
  /\ pc = "last" => r = None
  /\ s = "DELETED" => r = None
  /\ s = "RUNNING" /\ st # "released" /\ ~(op = "resume" /\ pc = "last") => b \in {None, r}
Fit(a) == Good(job[<<a, "op">>].op, job[<<a, "op">>].pc, row[a], state[a],
               box[a].up, box[a].bot, arch[a].st, arch[a].was, crashes)

OneRow == \A a, c \in Agents : a # c /\ row[a] # None => row[a] # row[c]
Inv == Shape /\ OneRow /\ \A a \in Agents : Fit(a)
-----------------------------------------------------------------------------
(* An agent's two tasks, and those of two agents, are different tasks.      *)
LEMMA TwoTasks ==
  ASSUME NEW a \in Agents
  PROVE  /\ <<a, "op">> \in Jobs /\ <<a, "attach">> \in Jobs
         /\ \A c \in Agents : <<c, "op">> # <<a, "attach">>
         /\ \A c \in Agents \ {a} : <<c, "op">> # <<a, "op">>
BY DEF Jobs

(* What the two ways of writing a task give.                               *)
LEMMA NewPc ==
  ASSUME NEW k \in JobRec, NEW p \in Places
  PROVE  /\ [k EXCEPT !.pc = p] \in JobRec
         /\ [k EXCEPT !.pc = p].op = k.op /\ [k EXCEPT !.pc = p].pc = p
         /\ [k EXCEPT !.pc = p].bot = k.bot /\ [k EXCEPT !.pc = p].mine = k.mine
BY DEF JobRec

LEMMA NewBot ==
  ASSUME NEW k \in JobRec, NEW b \in Bots \cup {None}
  PROVE  /\ [k EXCEPT !.bot = b] \in JobRec
         /\ [k EXCEPT !.bot = b].op = k.op /\ [k EXCEPT !.bot = b].pc = k.pc
         /\ [k EXCEPT !.bot = b].bot = b
BY DEF JobRec

LEMMA NewMine ==
  ASSUME NEW k \in JobRec
  PROVE  /\ [k EXCEPT !.mine = TRUE] \in JobRec
         /\ [k EXCEPT !.mine = TRUE].op = k.op /\ [k EXCEPT !.mine = TRUE].pc = k.pc
BY DEF JobRec

LEMMA NewOp ==
  ASSUME NEW k \in JobRec, NEW o \in Ops
  PROVE  /\ [k EXCEPT !.op = o] \in JobRec
         /\ [k EXCEPT !.op = o].op = o /\ [k EXCEPT !.op = o].pc = k.pc
BY DEF JobRec

LEMMA NoJobIs == NoJob \in JobRec /\ NoJob.op = "none" /\ NoJob.pc = "none"
BY DEF NoJob, JobRec, Ops, Places

(* A step of agent a's: its task becomes k, its row r, and so on.           *)
Step(a, k, r, s, x, ar) ==
  /\ job' \in [Jobs -> JobRec] /\ job'[<<a, "op">>] = k
  /\ \A c \in Agents \ {a} : job'[<<c, "op">>] = job[<<c, "op">>]
  /\ row' = [row EXCEPT ![a] = r] /\ state' = [state EXCEPT ![a] = s]
  /\ box' = [box EXCEPT ![a] = x] /\ arch' = [arch EXCEPT ![a] = ar]
  /\ crashes' = crashes

LEMMA Moved ==
  ASSUME Inv, NEW a \in Agents,
         NEW k \in JobRec, NEW r \in Bots \cup {None}, NEW s \in States,
         NEW x \in BoxRec, NEW ar \in ArchRec,
         Step(a, k, r, s, x, ar),
         Good(k.op, k.pc, r, s, x.up, x.bot, ar.st, ar.was, crashes),
         r = None \/ r = row[a] \/ \A c \in Agents \ {a} : row[c] # r
  PROVE  Inv'
<1>1. Shape'
  BY DEF Inv, Shape, Step
<1>2. /\ row'[a] = r /\ state'[a] = s /\ box'[a] = x /\ arch'[a] = ar
      /\ \A c \in Agents \ {a} : /\ row'[c] = row[c] /\ state'[c] = state[c]
                                 /\ box'[c] = box[c] /\ arch'[c] = arch[c]
  BY DEF Inv, Shape, Step
<1>3. OneRow'
  BY <1>2 DEF Inv, OneRow
<1>4. ASSUME NEW c \in Agents PROVE Fit(c)'
  <2>1. CASE c = a
    BY <2>1, <1>2 DEF Fit, Step
  <2>2. CASE c # a
    BY <2>2, <1>2 DEF Fit, Step, Inv
  <2> QED BY <2>1, <2>2
<1> QED BY <1>1, <1>3, <1>4 DEF Inv

(* What a step leaves alone.                                               *)
LEMMA Kept ==
  ASSUME Shape, NEW a \in Agents
  PROVE  /\ row = [row EXCEPT ![a] = row[a]] /\ state = [state EXCEPT ![a] = state[a]]
         /\ box = [box EXCEPT ![a] = box[a]] /\ arch = [arch EXCEPT ![a] = arch[a]]
         /\ row[a] \in Bots \cup {None} /\ state[a] \in States
         /\ box[a] \in BoxRec /\ arch[a] \in ArchRec /\ job[<<a, "op">>] \in JobRec
BY TwoTasks DEF Shape

LEMMA Typed ==
  ASSUME Shape, NEW a \in Agents
  PROVE  /\ row[a] \in Bots \cup {None} /\ state[a] \in States
         /\ box[a] \in BoxRec /\ arch[a] \in ArchRec
BY DEF Shape

(* A step of another task, or of none.                                     *)
LEMMA Aside ==
  ASSUME Inv, UNCHANGED <<row, state, box, arch, crashes>>, job' \in [Jobs -> JobRec],
         \A c \in Agents : job'[<<c, "op">>] = job[<<c, "op">>]
  PROVE  Inv'
BY DEF Inv, Shape, OneRow, Op, Fit

LEMMA OpTask ==
  ASSUME Shape, NEW a \in Agents, NEW k \in JobRec, job' = [job EXCEPT ![<<a, "op">>] = k]
  PROVE  /\ job' \in [Jobs -> JobRec] /\ job'[<<a, "op">>] = k
         /\ \A c \in Agents \ {a} : job'[<<c, "op">>] = job[<<c, "op">>]
BY TwoTasks DEF Shape

LEMMA AttachTask ==
  ASSUME Inv, UNCHANGED <<row, state, box, arch, crashes>>, NEW a \in Agents, NEW k \in JobRec,
         job' = [job EXCEPT ![<<a, "attach">>] = k]
  PROVE  Inv'
<1>1. job' \in [Jobs -> JobRec]
  BY TwoTasks DEF Inv, Shape
<1>2. \A c \in Agents : job'[<<c, "op">>] = job[<<c, "op">>]
  BY TwoTasks DEF Inv, Shape
<1> QED BY <1>1, <1>2, Aside

(* A step that only moves agent a's task on to k.                          *)
LEMMA TaskMoved ==
  ASSUME Inv, UNCHANGED <<row, state, box, arch, crashes>>, NEW a \in Agents, NEW k \in JobRec,
         job' = [job EXCEPT ![<<a, "op">>] = k],
         Good(k.op, k.pc, row[a], state[a], box[a].up, box[a].bot, arch[a].st, arch[a].was, crashes)
  PROVE  Inv'
<1>1. Step(a, k, row[a], state[a], box[a], arch[a])
  BY OpTask, Kept DEF Inv, Step
<1> QED BY <1>1, Typed, Moved DEF Inv

LEMMA Goes ==
  ASSUME Inv, UNCHANGED <<row, state, box, arch, crashes>>, NEW a \in Agents, NEW p \in Places,
         Goto(<<a, "op">>, p),
         Good(Op(a), p, row[a], state[a], box[a].up, box[a].bot, arch[a].st, arch[a].was, crashes)
  PROVE  Inv'
<1> DEFINE k == [job[<<a, "op">>] EXCEPT !.pc = p]
<1>1. job[<<a, "op">>] \in JobRec /\ Shape
  BY Kept DEF Inv
<1>2. k \in JobRec /\ k.op = Op(a) /\ k.pc = p
  BY <1>1, NewPc DEF Op
<1>3. job' = [job EXCEPT ![<<a, "op">>] = k]
  BY DEF Goto
<1> HIDE DEF k
<1> QED BY <1>2, <1>3, TaskMoved

LEMMA Starts ==
  ASSUME NEW o \in Ops, NEW p \in Places
  PROVE  LET k == [NoJob EXCEPT !.op = o, !.pc = p] IN k \in JobRec /\ k.op = o /\ k.pc = p
BY DEF NoJob, JobRec, Ops, Places
-----------------------------------------------------------------------------
(* Park, Named: of a setup or a swap, or of an attach.                     *)
LEMMA NamingStep ==
  ASSUME Inv, NEW j \in Jobs, NEW p \in {"name", "gate"}, Goto(j, p), At(j, "drop") \/ At(j, "name"),
         UNCHANGED <<row, state, box, arch, crashes>>
  PROVE  Inv'
<1>1. PICK a \in Agents : j = <<a, "op">> \/ j = <<a, "attach">>
  BY DEF Jobs
<1>p. p \in Places
  BY DEF Places
<1>2. CASE j = <<a, "op">>
  <2>1. Fit(a)
    BY DEF Inv
  <2>2. Good(Op(a), p, row[a], state[a], box[a].up, box[a].bot, arch[a].st, arch[a].was, crashes)
    BY <2>1, <1>2 DEF Fit, Good, Op, At, After, GiveOps
  <2> QED BY <1>2, <2>2, <1>p, Goes
<1>3. CASE j = <<a, "attach">>
  <2>1. job[j] \in JobRec
    BY DEF Inv, Shape
  <2>2. [job[j] EXCEPT !.pc = p] \in JobRec
    BY <2>1, <1>p, NewPc
  <2> QED BY <1>3, <2>2, AttachTask DEF Goto
<1> QED BY <1>1, <1>2, <1>3

LEMMA ProvisionerStep == ASSUME Inv, Provisioner PROVE Inv'
<1>1. PICK j \in Jobs : Park(j) \/ Named(j)
  BY DEF Provisioner
<1>2. CASE Park(j)
  BY <1>2, NamingStep DEF Park, self
<1>3. CASE Named(j)
  BY <1>3, NamingStep DEF Named, self
<1> QED BY <1>1, <1>2, <1>3
-----------------------------------------------------------------------------
(* What each step of a setup leaves of its agent.                          *)
LEMMA SetUpStep == ASSUME Inv, NEW a \in Agents, SetUp(a) PROVE Inv'
<1> DEFINE k == [NoJob EXCEPT !.op = "setup", !.pc = "find"]
<1>1. k \in JobRec /\ k.op = "setup" /\ k.pc = "find"
  BY Starts DEF Ops, Places
<1>2. job' = [job EXCEPT ![<<a, "op">>] = k]
  BY DEF SetUp, Put
<1>3. Op(a) = "none" /\ arch[a].st = "none" /\ Fit(a)
  BY DEF SetUp, Request, Inv
<1> HIDE DEF k
<1>4. Step(a, k, row[a], "PROVISIONING", box[a], arch[a])
  BY <1>1, <1>2, OpTask, Kept DEF Step, SetUp, Become, Inv
<1>5. Good(k.op, k.pc, row[a], "PROVISIONING", box[a].up, box[a].bot, arch[a].st, arch[a].was, crashes)
  BY <1>1, <1>3 DEF Fit, Good, After
<1>6. "PROVISIONING" \in States
  BY DEF States
<1> QED BY <1>1, <1>4, <1>5, <1>6, Typed, Moved DEF Inv

LEMMA SetUpFindsStep == ASSUME Inv, NEW a \in Agents, SetUpFinds(a) PROVE Inv'
<1> DEFINE k0 == job[<<a, "op">>]
<1>0. k0 \in JobRec /\ k0.op = "setup" /\ k0.pc = "find" /\ Shape /\ Fit(a)
      /\ UNCHANGED <<row, state, box, arch, crashes>>
  BY Kept DEF SetUpFinds, At, Op, Inv, self
<1>1. CASE row[a] # None
  <2> DEFINE p == IF pool[row[a]] = "out" THEN "boot" ELSE "sync"
             k1 == [k0 EXCEPT !.bot = row[a]]
             k  == [k1 EXCEPT !.pc = p]
  <2>1. p \in Places
    BY DEF Places
  <2>2. k1 \in JobRec /\ k1.op = "setup"
    BY <1>0, Kept, NewBot
  <2>3. k \in JobRec /\ k.op = "setup" /\ k.pc = p
    BY <2>1, <2>2, NewPc
  <2>4. job' = [job EXCEPT ![<<a, "op">>] = k]
    BY <1>1 DEF SetUpFinds, Put
  <2>5. Good("setup", p, row[a], state[a], box[a].up, box[a].bot, arch[a].st, arch[a].was, crashes)
    BY <1>0 DEF Fit, Good, After
  <2> HIDE DEF k
  <2> QED BY <1>0, <2>3, <2>4, <2>5, TaskMoved
<1>2. CASE row[a] = None /\ \E b \in Offer(a, {}) : Claim(<<a, "op">>, a, b)
  <2>1. PICK b \in Offer(a, {}) : Claim(<<a, "op">>, a, b)
    BY <1>2
  <2> DEFINE p == IF pool[b] = a THEN "gate" ELSE "drop"
             k1 == [k0 EXCEPT !.bot = b]
             k  == [k1 EXCEPT !.pc = p]
  <2>2. b \in Bots /\ p \in Places
    BY DEF Offer, Places
  <2>3. k1 \in JobRec /\ k1.op = "setup"
    BY <1>0, <2>2, NewBot
  <2>4. k \in JobRec /\ k.op = "setup" /\ k.pc = p
    BY <2>2, <2>3, NewPc
  <2>5. job' = [job EXCEPT ![<<a, "op">>] = k]
    BY <2>1, <1>0 DEF Claim, Inv, Shape
  <2>6. Good("setup", p, row[a], state[a], box[a].up, box[a].bot, arch[a].st, arch[a].was, crashes)
    BY <1>0, <1>2 DEF Fit, Good, After
  <2> HIDE DEF k
  <2> QED BY <1>0, <2>4, <2>5, <2>6, TaskMoved
<1>3. CASE row[a] = None /\ Goto(<<a, "op">>, "boot")
  <2>1. Good("setup", "boot", row[a], state[a], box[a].up, box[a].bot, arch[a].st, arch[a].was, crashes)
    BY <1>0 DEF Fit, Good, After
  <2> QED BY <1>0, <1>3, <2>1, Goes DEF Op, Places
<1> QED BY <1>1, <1>2, <1>3 DEF SetUpFinds

LEMMA SetUpSyncsStep == ASSUME Inv, NEW a \in Agents, SetUpSyncs(a) PROVE Inv'
<1>1. /\ UNCHANGED <<row, state, box, arch, crashes>> /\ Goto(<<a, "op">>, "boot")
      /\ job[<<a, "op">>].pc = "sync" /\ Fit(a)
  BY DEF SetUpSyncs, self, At, Inv
<1>2. Good(Op(a), "boot", row[a], state[a], box[a].up, box[a].bot, arch[a].st, arch[a].was, crashes)
  BY <1>1 DEF Fit, Good, After, Op
<1> QED BY <1>1, <1>2, Goes DEF Places

LEMMA SetUpGateStep == ASSUME Inv, NEW a \in Agents, SetUpGate(a) PROVE Inv'
<1> DEFINE k0 == job[<<a, "op">>]
           b  == k0.bot
<1>0. k0 \in JobRec /\ k0.op = "setup" /\ k0.pc = "gate" /\ Shape /\ Fit(a)
      /\ UNCHANGED <<box, arch, crashes>>
  BY Kept DEF SetUpGate, At, Op, Inv
<1>1. CASE Clash(a, b)
  <2>1. Step(a, NoJob, row[a], "FAILED", box[a], arch[a])
    BY <1>0, <1>1, OpTask, NoJobIs, Kept DEF Step, SetUpGate, Become, End, Put
  <2>2. Good("none", "none", row[a], "FAILED", box[a].up, box[a].bot, arch[a].st, arch[a].was, crashes)
    BY <1>0 DEF Fit, Good, After
  <2>9. "FAILED" \in States
    BY DEF States
  <2> QED BY <1>0, <2>1, <2>2, Typed, NoJobIs, Moved, <2>9
<1>2. CASE ~Clash(a, b)
  <2> DEFINE k1 == [k0 EXCEPT !.mine = TRUE]
             k  == [k1 EXCEPT !.pc = "boot"]
  <2>1. k1 \in JobRec /\ k1.op = "setup"
    BY <1>0, NewMine
  <2>3. job' = [job EXCEPT ![<<a, "op">>] = k]
    BY <1>0, <1>2 DEF SetUpGate, Put
  <2>8. "boot" \in Places
    BY DEF Places
  <2> HIDE DEF k1
  <2>2. k \in JobRec /\ k.op = "setup" /\ k.pc = "boot"
    BY <2>1, <2>8, NewPc
  <2>4. b \in Bots \cup {None}
    BY <1>0 DEF JobRec
  <2> HIDE DEF k
  <2>5. Step(a, k, b, state[a], box[a], arch[a])
    BY <1>0, <1>2, <2>2, <2>3, OpTask, Kept DEF Step, SetUpGate
  <2>6. Good("setup", "boot", b, state[a], box[a].up, box[a].bot, arch[a].st, arch[a].was, crashes)
    BY <1>0 DEF Fit, Good, After
  <2>7. \A c \in Agents \ {a} : row[c] # b \/ b = None
    BY <1>2 DEF Clash, Inv, Fit, Good
  <2> QED BY <1>0, <2>2, <2>4, <2>5, <2>6, <2>7, Typed, Moved
<1> QED BY <1>1, <1>2

LEMMA SetUpBootsStep == ASSUME Inv, NEW a \in Agents, SetUpBoots(a) PROVE Inv'
<1> DEFINE k0 == job[<<a, "op">>]
           k  == [k0 EXCEPT !.pc = "health"]
           x  == [up |-> TRUE, bot |-> row[a]]
<1>0. k0 \in JobRec /\ k0.op = "setup" /\ k0.pc = "boot" /\ Shape /\ Fit(a)
      /\ UNCHANGED <<row, state, arch, crashes>>
  BY Kept DEF SetUpBoots, At, Op, Inv
<1>1. k \in JobRec /\ k.op = "setup" /\ k.pc = "health"
  BY <1>0, NewPc DEF Places
<1>2. job' = [job EXCEPT ![<<a, "op">>] = k] /\ box' = [box EXCEPT ![a] = x]
  BY DEF SetUpBoots, Goto
<1>3. x \in BoxRec /\ x.up /\ x.bot = row[a]
  BY <1>0, Kept DEF BoxRec
<1> HIDE DEF k, x
<1>4. Step(a, k, row[a], state[a], x, arch[a])
  BY <1>0, <1>1, <1>2, OpTask, Kept DEF Step
<1>5. Good("setup", "health", row[a], state[a], x.up, x.bot, arch[a].st, arch[a].was, crashes)
  BY <1>0, <1>3 DEF Fit, Good, After
<1> QED BY <1>0, <1>1, <1>3, <1>4, <1>5, Typed, Moved

LEMMA SetUpDoneStep == ASSUME Inv, NEW a \in Agents, SetUpDone(a) PROVE Inv'
<1>0. Shape /\ Fit(a) /\ job[<<a, "op">>].pc = "health" /\ Op(a) = "setup"
      /\ UNCHANGED <<row, box, arch, crashes>>
  BY DEF SetUpDone, At, Inv
<1>1. Step(a, NoJob, row[a], "RUNNING", box[a], arch[a])
  BY <1>0, OpTask, NoJobIs, Kept DEF Step, SetUpDone, Become, End, Put
<1>2. Good("none", "none", row[a], "RUNNING", box[a].up, box[a].bot, arch[a].st, arch[a].was, crashes)
  BY <1>0 DEF Fit, Good, After, Op
<1>9. "RUNNING" \in States
  BY DEF States
<1> QED BY <1>0, <1>1, <1>2, Typed, NoJobIs, Moved, <1>9

LEMMA SetUpFailsStep == ASSUME Inv, NEW a \in Agents, SetUpFails(a) PROVE Inv'
<1>0. Shape /\ Fit(a) /\ Op(a) = "setup" /\ UNCHANGED <<arch, crashes>>
  BY DEF SetUpFails, Inv
<1>1. PICK gone \in {~box[a].up, TRUE} :
        /\ box' = IF gone THEN [box EXCEPT ![a].up = FALSE] ELSE box
        /\ IF GivesBack(a, gone) THEN row' = [row EXCEPT ![a] = None] ELSE row' = row
  BY DEF SetUpFails
<1> DEFINE x == IF gone THEN [box[a] EXCEPT !.up = FALSE] ELSE box[a]
           r == IF GivesBack(a, gone) THEN None ELSE row[a]
<1>2. x \in BoxRec /\ x.bot = box[a].bot /\ (x.up => box[a].up /\ ~gone)
  BY <1>0, Kept DEF BoxRec
<1>3. box' = [box EXCEPT ![a] = x]
  BY <1>0, <1>1, Kept
<1>4. r \in Bots \cup {None} /\ (r = None \/ r = row[a]) /\ (x.up => r = row[a])
  BY <1>0, <1>2, Kept DEF GivesBack
<1>5. row' = [row EXCEPT ![a] = r]
  BY <1>0, <1>1, Kept
<1> HIDE DEF x, r
<1>6. Step(a, NoJob, r, "FAILED", x, arch[a])
  BY <1>0, <1>3, <1>5, OpTask, NoJobIs, Kept DEF Step, SetUpFails, Become, End, Put
<1>7. Good("none", "none", r, "FAILED", x.up, x.bot, arch[a].st, arch[a].was, crashes)
  BY <1>0, <1>2, <1>4 DEF Fit, Good, After, Op
<1>9. "FAILED" \in States
  BY DEF States
<1> QED BY <1>0, <1>2, <1>4, <1>6, <1>7, Typed, NoJobIs, Moved, <1>9
-----------------------------------------------------------------------------
(* An attach: only its last judgement touches the agent, and what that      *)
(* judgement asks is just what keeps two rows from naming one bot.          *)
LEMMA AttachStep == ASSUME Inv, NEW a \in Agents, Attach(a) PROVE Inv'
<1>0. UNCHANGED <<row, state, box, arch, crashes>>
  BY DEF Attach, self
<1>1. ASSUME NEW b \in Bots, NEW p \in {"gate", "drop"},
             Put(<<a, "attach">>, [NoJob EXCEPT !.op = "attach", !.bot = b, !.pc = p])
      PROVE  Inv'
  <2> DEFINE k == [NoJob EXCEPT !.op = "attach", !.bot = b, !.pc = p]
  <2>1. k \in JobRec
    BY DEF NoJob, JobRec, Ops, Places
  <2> HIDE DEF k
  <2>2. job' = [job EXCEPT ![<<a, "attach">>] = k]
    BY <1>1 DEF Put, k
  <2> QED BY <1>0, <2>1, <2>2, AttachTask
<1> QED BY <1>1 DEF Attach, Offer

LEMMA AttachEndStep ==
  ASSUME Inv, NEW a \in Agents, AttachRefused(a) \/ AttachGone(a) \/ AttachSyncs(a)
  PROVE  Inv'
<1>1. UNCHANGED <<row, state, box, arch, crashes>> /\ job' = [job EXCEPT ![<<a, "attach">>] = NoJob]
  BY DEF AttachRefused, AttachGone, AttachSyncs, End, Put, self
<1> QED BY <1>1, NoJobIs, AttachTask

LEMMA AttachedStep == ASSUME Inv, NEW a \in Agents, Attached(a) PROVE Inv'
<1> DEFINE k == job[<<a, "op">>]
           b == job[<<a, "attach">>].bot
<1>0. /\ Shape /\ Fit(a) /\ ~Clash(a, b) /\ ~Busy(a) /\ state[a] \in {"RUNNING", "STOPPED"}
      /\ row[a] = None /\ row' = [row EXCEPT ![a] = b] /\ UNCHANGED <<state, box, arch, crashes>>
  BY DEF Attached, Refused, Inv
<1>1. b \in Bots \cup {None} /\ k \in JobRec
  BY <1>0, TwoTasks DEF Shape, JobRec
<1>2. job' \in [Jobs -> JobRec] /\ \A c \in Agents : job'[<<c, "op">>] = job[<<c, "op">>]
  <2>1. job[<<a, "attach">>] \in JobRec
    BY <1>0, TwoTasks DEF Shape
  <2>2. [job[<<a, "attach">>] EXCEPT !.pc = "sync"] \in JobRec
    BY <2>1, NewPc DEF Places
  <2>3. PICK k1 \in JobRec : job' = [job EXCEPT ![<<a, "attach">>] = k1]
    BY <2>2, NoJobIs DEF Attached, End, Put, Goto
  <2> QED BY <1>0, <2>3, TwoTasks DEF Shape
<1>3. Step(a, k, b, state[a], box[a], arch[a])
  BY <1>0, <1>2, Kept DEF Step
<1>4. Good(k.op, k.pc, b, state[a], box[a].up, box[a].bot, arch[a].st, arch[a].was, crashes)
  BY <1>0 DEF Fit, Good, Busy, Op, GiveOps, After
<1>5. \A c \in Agents \ {a} : row[c] # b \/ b = None
  BY <1>0 DEF Clash, Inv, Fit, Good
<1> QED BY <1>0, <1>1, <1>3, <1>4, <1>5, Typed, Moved
-----------------------------------------------------------------------------
(* A bot on its way out.                                                   *)
LEMMA BeginStep ==
  ASSUME Inv, NEW a \in Agents, NEW o \in Ops, NEW p \in Places, NEW s \in States, NEW ar \in ArchRec,
         Begin(a, o, p), UNCHANGED <<row, box, crashes>>,
         state' = [state EXCEPT ![a] = s], arch' = [arch EXCEPT ![a] = ar],
         Good(o, p, row[a], s, box[a].up, box[a].bot, ar.st, ar.was, crashes)
  PROVE  Inv'
<1> DEFINE k == [NoJob EXCEPT !.op = o, !.pc = p]
<1>1. k \in JobRec /\ k.op = o /\ k.pc = p
  BY Starts
<1>2. job' = [job EXCEPT ![<<a, "op">>] = k]
  BY DEF Begin, Put
<1> HIDE DEF k
<1>3. Step(a, k, row[a], s, box[a], ar)
  BY <1>1, <1>2, OpTask, Kept DEF Step, Inv
<1> QED BY <1>1, <1>3, Typed, Moved DEF Inv

LEMMA DetachStep == ASSUME Inv, NEW a \in Agents, Detach(a) PROVE Inv'
<1>1. /\ Fit(a) /\ Shape /\ Begin(a, "detach", "stop") /\ UNCHANGED <<row, state, box, arch, crashes>>
      /\ Op(a) = "none" /\ arch[a].st = "none"
  BY DEF Inv, Detach, Request, self
<1>2. Good("detach", "stop", row[a], state[a], box[a].up, box[a].bot, arch[a].st, arch[a].was, crashes)
  BY <1>1 DEF Fit, Good, Op, After, GiveOps
<1>3. /\ "detach" \in Ops /\ "stop" \in Places /\ state[a] \in States /\ arch[a] \in ArchRec
      /\ state' = [state EXCEPT ![a] = state[a]] /\ arch' = [arch EXCEPT ![a] = arch[a]]
  BY <1>1, Kept DEF Ops, Places
<1> QED BY <1>1, <1>2, <1>3, BeginStep

LEMMA SwapStep == ASSUME Inv, NEW a \in Agents, Swap(a) PROVE Inv'
<1>1. /\ Fit(a) /\ Shape /\ UNCHANGED <<row, state, box, arch, crashes>>
      /\ Op(a) = "none" /\ arch[a].st = "none"
  BY DEF Inv, Swap, Request, self
<1>2. PICK b \in Bots : Put(<<a, "op">>, [NoJob EXCEPT !.op = "swap", !.bot = b,
                               !.pc = IF pool[b] = a THEN "gate" ELSE "drop"])
  BY DEF Swap, Offer
<1> DEFINE p == IF pool[b] = a THEN "gate" ELSE "drop"
           k == [NoJob EXCEPT !.op = "swap", !.bot = b, !.pc = p]
<1>3. p \in {"gate", "drop"}
  OBVIOUS
<1> HIDE DEF p
<1>4. k \in JobRec /\ k.op = "swap" /\ k.pc = p
  BY <1>3 DEF NoJob, JobRec, Ops, Places
<1>5. job' = [job EXCEPT ![<<a, "op">>] = k]
  BY <1>2 DEF Put, p
<1>6. Good("swap", p, row[a], state[a], box[a].up, box[a].bot, arch[a].st, arch[a].was, crashes)
  BY <1>1, <1>3 DEF Fit, Good, Op, After
<1> HIDE DEF k
<1> QED BY <1>1, <1>4, <1>5, <1>6, TaskMoved

LEMMA SwapGateStep == ASSUME Inv, NEW a \in Agents, SwapGate(a) PROVE Inv'
<1>1. /\ Fit(a) /\ UNCHANGED <<row, state, box, arch, crashes>>
      /\ Op(a) = "swap" /\ job[<<a, "op">>].pc = "gate"
  BY DEF Inv, SwapGate, self, At
<1>2. Good("none", "none", row[a], state[a], box[a].up, box[a].bot, arch[a].st, arch[a].was, crashes)
      /\ Good("swap", "stop", row[a], state[a], box[a].up, box[a].bot, arch[a].st, arch[a].was, crashes)
  BY <1>1 DEF Fit, Good, Op, After, GiveOps
<1>3. CASE End(<<a, "op">>)
  BY <1>1, <1>2, <1>3, NoJobIs, TaskMoved DEF End, Put
<1>4. CASE Goto(<<a, "op">>, "stop")
  BY <1>1, <1>2, <1>4, Goes DEF Places
<1> QED BY <1>3, <1>4 DEF SwapGate

LEMMA ArchiveStep == ASSUME Inv, NEW a \in Agents, Archive(a) PROVE Inv'
<1> DEFINE ar == [NoArchive EXCEPT !.st = "begun", !.bot = row[a], !.was = (state[a] = "RUNNING")]
<1>1. /\ Fit(a) /\ Shape /\ Begin(a, "archive", "stop") /\ UNCHANGED <<row, state, box, crashes>>
      /\ Op(a) = "none" /\ arch[a].st = "none" /\ state[a] \in {"RUNNING", "STOPPED", "FAILED"}
      /\ arch' = [arch EXCEPT ![a] = ar]
  BY DEF Inv, Archive, Request
<1>2. ar \in ArchRec /\ ar.st = "begun" /\ ar.was = (state[a] = "RUNNING")
  BY <1>1, Kept DEF NoArchive, ArchRec
<1> HIDE DEF ar
<1>3. Good("archive", "stop", row[a], state[a], box[a].up, box[a].bot, ar.st, ar.was, crashes)
  BY <1>1, <1>2 DEF Fit, Good, Op, After, GiveOps
<1>4. "archive" \in Ops /\ "stop" \in Places /\ state[a] \in States /\ state' = [state EXCEPT ![a] = state[a]]
  BY <1>1, Kept DEF Ops, Places
<1> QED BY <1>1, <1>2, <1>3, <1>4, BeginStep

LEMMA DeleteStep == ASSUME Inv, NEW a \in Agents, Delete(a) PROVE Inv'
<1>1. /\ Fit(a) /\ Shape /\ Begin(a, "delete", "stop") /\ UNCHANGED <<row, box, arch, crashes>>
      /\ Op(a) = "none" /\ arch[a].st = "none" /\ state' = [state EXCEPT ![a] = "DELETING"]
  BY DEF Inv, Delete, Request, Become
<1>2. Good("delete", "stop", row[a], "DELETING", box[a].up, box[a].bot, arch[a].st, arch[a].was, crashes)
  BY <1>1 DEF Fit, Good, Op, After, GiveOps
<1>3. /\ "delete" \in Ops /\ "stop" \in Places /\ "DELETING" \in States /\ arch[a] \in ArchRec
      /\ arch' = [arch EXCEPT ![a] = arch[a]]
  BY <1>1, Kept DEF Ops, Places, States
<1> QED BY <1>1, <1>2, <1>3, BeginStep

(* It is down, and its archive says so.                                    *)
LEMMA DownStep == ASSUME Inv, NEW a \in Agents, Down(a) PROVE Inv'
<1> DEFINE k0 == job[<<a, "op">>]
           k  == [k0 EXCEPT !.pc = "give"]
           x  == [box[a] EXCEPT !.up = FALSE]
           s  == IF Op(a) \in {"detach", "swap"} THEN "STOPPED" ELSE state[a]
           ar == IF Op(a) = "archive"
                 THEN [arch[a] EXCEPT !.st = "stopped", !.copy = (row[a] # None /\ CopyElsewhere(a))]
                 ELSE arch[a]
<1>0. k0 \in JobRec /\ k0.pc = "stop" /\ k0.op = Op(a) /\ Shape /\ Fit(a)
      /\ UNCHANGED <<row, crashes>>
  BY Kept DEF Down, At, Op, Inv
<1>1. k \in JobRec /\ k.op = k0.op /\ k.pc = "give"
  BY <1>0, NewPc DEF Places
<1>2. job' = [job EXCEPT ![<<a, "op">>] = k] /\ box' = [box EXCEPT ![a] = x]
  BY DEF Down, Goto
<1>3. x \in BoxRec /\ ~x.up /\ x.bot = box[a].bot
  BY <1>0, Kept DEF BoxRec
<1>4. s \in States /\ state' = [state EXCEPT ![a] = s]
  BY <1>0, Kept DEF Down, Become, States
<1>5. /\ ar \in ArchRec /\ ar.was = arch[a].was
      /\ ar.st = IF Op(a) = "archive" THEN "stopped" ELSE arch[a].st
  <2>1. arch[a] \in ArchRec /\ (row[a] # None /\ CopyElsewhere(a)) \in BOOLEAN
    BY <1>0, Typed
  <2> QED BY <2>1 DEF ArchRec
<1>6. arch' = [arch EXCEPT ![a] = ar]
  BY <1>0, Kept DEF Down
<1>7. Good(k.op, k.pc, row[a], s, x.up, x.bot, ar.st, ar.was, crashes)
  BY <1>0, <1>1, <1>3, <1>5 DEF Fit, Good, After, GiveOps
<1> HIDE DEF k, x, s, ar
<1>8. Step(a, k, row[a], s, x, ar)
  BY <1>0, <1>1, <1>2, <1>4, <1>6, OpTask, Kept DEF Step
<1> QED BY <1>0, <1>1, <1>3, <1>4, <1>5, <1>7, <1>8, Typed, Moved

LEMMA StaysUpStep == ASSUME Inv, NEW a \in Agents, StaysUp(a) PROVE Inv'
<1> DEFINE s  == IF Op(a) = "delete" THEN "FAILED" ELSE state[a]
           ar == IF Op(a) = "resume" THEN [arch[a] EXCEPT !.held = TRUE] ELSE NoArchive
<1>0. job[<<a, "op">>].pc = "stop" /\ Shape /\ Fit(a) /\ UNCHANGED <<row, box, crashes>>
      /\ End(<<a, "op">>)
  BY DEF StaysUp, At, Inv
<1>1. s \in States /\ state' = [state EXCEPT ![a] = s]
  BY <1>0, Kept DEF StaysUp, Become, States
<1>2. /\ ar \in ArchRec /\ ar.st = IF Op(a) = "resume" THEN arch[a].st ELSE "none"
      /\ Op(a) = "resume" => ar.was = arch[a].was
  BY <1>0, Kept DEF ArchRec, NoArchive
<1>3. arch' = [arch EXCEPT ![a] = ar]
  BY <1>0 DEF StaysUp
<1>4. Good("none", "none", row[a], s, box[a].up, box[a].bot, ar.st, ar.was, crashes)
  BY <1>0, <1>2 DEF Fit, Good, After, GiveOps, Op
<1> HIDE DEF s, ar
<1>5. Step(a, NoJob, row[a], s, box[a], ar)
  BY <1>0, <1>1, <1>3, NoJobIs, OpTask, Kept DEF Step, End, Put
<1> QED BY <1>0, <1>1, <1>2, <1>4, <1>5, NoJobIs, Typed, Moved

(* Between giving the bot up and its row, only the task moves.             *)
LEMMA GivingStep ==
  ASSUME Inv, NEW a \in Agents, NoBot(a) \/ LeaveToCopy(a) \/ Recycle(a) \/ Released(a)
  PROVE  Inv'
<1>1. PICK p \in {"left", "release", "goodbye"} : Goto(<<a, "op">>, p)
  BY DEF NoBot, LeaveToCopy, Recycle, Released
<1>2. /\ Fit(a) /\ UNCHANGED <<row, state, box, arch, crashes>>
      /\ job[<<a, "op">>].pc \in {"give", "release"}
  BY DEF NoBot, LeaveToCopy, Recycle, Released, Giving, At, self, Inv
<1>3. Good(Op(a), p, row[a], state[a], box[a].up, box[a].bot, arch[a].st, arch[a].was, crashes)
  BY <1>1, <1>2 DEF Fit, Good, After, Op
<1> QED BY <1>1, <1>2, <1>3, Goes DEF Places

LEMMA LeftStep == ASSUME Inv, NEW a \in Agents, Left(a) PROVE Inv'
<1> DEFINE k0 == job[<<a, "op">>]
           r  == IF Op(a) # "swap" THEN None ELSE IF Taken(a) THEN row[a] ELSE k0.bot
           ar == IF Op(a) = "archive" THEN [arch[a] EXCEPT !.st = "released"] ELSE arch[a]
           k  == IF Op(a) \in {"archive", "resume", "delete"} THEN [k0 EXCEPT !.pc = "last"] ELSE NoJob
<1>0. k0 \in JobRec /\ k0.pc \in {"goodbye", "left"} /\ k0.op = Op(a) /\ Shape /\ Fit(a)
      /\ UNCHANGED <<state, box, crashes>>
  BY Kept DEF Left, At, Op, Inv
<1>1. /\ k \in JobRec /\ k.op = (IF Op(a) \in {"archive", "resume", "delete"} THEN Op(a) ELSE "none")
      /\ k.pc = IF Op(a) \in {"archive", "resume", "delete"} THEN "last" ELSE "none"
  <2>1. [k0 EXCEPT !.pc = "last"] \in JobRec /\ [k0 EXCEPT !.pc = "last"].op = Op(a)
        /\ [k0 EXCEPT !.pc = "last"].pc = "last"
    BY <1>0, NewPc DEF Places
  <2> QED BY <2>1, NoJobIs
<1>2. job' = [job EXCEPT ![<<a, "op">>] = k]
  BY DEF Left, Goto, End, Put
<1>3. /\ r \in Bots \cup {None} /\ row' = [row EXCEPT ![a] = r]
      /\ r = None \/ r = row[a] \/ \A c \in Agents \ {a} : row[c] # r
      /\ Op(a) # "swap" => r = None
  <2>1. k0.bot \in Bots \cup {None}
    BY <1>0 DEF JobRec
  <2> QED BY <1>0, <2>1, Kept DEF Left, Taken
<1>4. /\ ar \in ArchRec /\ ar.was = arch[a].was
      /\ ar.st = IF Op(a) = "archive" THEN "released" ELSE arch[a].st
  BY <1>0, Kept DEF ArchRec
<1>5. arch' = [arch EXCEPT ![a] = ar]
  BY <1>0, Kept DEF Left
<1> HIDE DEF k, r, ar
<1>6. Good(k.op, k.pc, r, state[a], box[a].up, box[a].bot, ar.st, ar.was, crashes)
  BY <1>0, <1>1, <1>3, <1>4 DEF Fit, Good, After, GiveOps
<1>7. Step(a, k, r, state[a], box[a], ar)
  BY <1>0, <1>1, <1>2, <1>3, <1>5, OpTask, Kept DEF Step
<1> QED BY <1>0, <1>1, <1>3, <1>4, <1>6, <1>7, Typed, Moved

LEMMA GoneStep == ASSUME Inv, NEW a \in Agents, Gone(a) PROVE Inv'
<1>0. job[<<a, "op">>].pc = "last" /\ Shape /\ Fit(a) /\ UNCHANGED <<row, box, crashes>>
      /\ job' = [job EXCEPT ![<<a, "op">>] = NoJob] /\ arch' = [arch EXCEPT ![a] = NoArchive]
  BY DEF Gone, At, Inv, End, Put
<1>1. PICK s \in {"DELETED", "ARCHIVED", "FAILED"} : state' = [state EXCEPT ![a] = s]
  BY DEF Gone, Become
<1>2. NoArchive \in ArchRec /\ NoArchive.st = "none"
  BY DEF NoArchive, ArchRec
<1>3. Good("none", "none", row[a], s, box[a].up, box[a].bot, "none", NoArchive.was, crashes)
  BY <1>0 DEF Fit, Good, After
<1>4. Step(a, NoJob, row[a], s, box[a], NoArchive)
  BY <1>0, <1>1, NoJobIs, OpTask, Kept DEF Step
<1>5. s \in States
  BY DEF States
<1> QED BY <1>0, <1>2, <1>3, <1>4, <1>5, NoJobIs, Typed, Moved
-----------------------------------------------------------------------------
(* The container started or stopped by its owner.                          *)
LEMMA BoxStep ==
  ASSUME Inv, NEW a \in Agents, NEW s \in States, NEW x \in BoxRec,
         Op(a) = "none", UNCHANGED <<job, row, arch, crashes>>,
         state' = [state EXCEPT ![a] = s], box' = [box EXCEPT ![a] = x],
         Good("none", job[<<a, "op">>].pc, row[a], s, x.up, x.bot, arch[a].st, arch[a].was, crashes)
  PROVE  Inv'
<1> DEFINE k == job[<<a, "op">>]
<1>1. k \in JobRec /\ k.op = "none"
  BY Kept DEF Inv, Op
<1>2. Step(a, k, row[a], s, x, arch[a])
  BY Kept DEF Inv, Step, Shape
<1> QED BY <1>1, <1>2, Typed, Moved DEF Inv

LEMMA BootStep == ASSUME Inv, NEW a \in Agents, Boot(a) PROVE Inv'
<1> DEFINE x == [up |-> TRUE, bot |-> row[a]]
<1>0. /\ Shape /\ Fit(a) /\ Op(a) = "none" /\ arch[a].st = "none"
      /\ UNCHANGED <<job, row, arch, crashes>> /\ state[a] \in {"RUNNING", "STOPPED"}
      /\ state' = [state EXCEPT ![a] = "RUNNING"] /\ box' = [box EXCEPT ![a] = x]
  BY DEF Inv, Boot, Request, Settled, Become, proc
<1>1. x \in BoxRec /\ x.up /\ x.bot = row[a]
  BY <1>0, Kept DEF BoxRec
<1> HIDE DEF x
<1>2. Good("none", job[<<a, "op">>].pc, row[a], "RUNNING", x.up, x.bot, arch[a].st, arch[a].was, crashes)
  BY <1>0, <1>1 DEF Fit, Good, Op, After, GiveOps
<1>3. "RUNNING" \in States
  BY DEF States
<1> QED BY <1>0, <1>1, <1>2, <1>3, BoxStep

LEMMA StopStep == ASSUME Inv, NEW a \in Agents, Stop(a) PROVE Inv'
<1> DEFINE x == [box[a] EXCEPT !.up = FALSE]
<1>0. /\ Shape /\ Fit(a) /\ Op(a) = "none" /\ arch[a].st = "none"
      /\ UNCHANGED <<job, row, arch, crashes>>
      /\ state' = [state EXCEPT ![a] = "STOPPED"] /\ box' = [box EXCEPT ![a] = x]
  BY DEF Inv, Stop, Request, Become, proc
<1>1. x \in BoxRec /\ ~x.up
  BY <1>0, Kept DEF BoxRec
<1> HIDE DEF x
<1>2. Good("none", job[<<a, "op">>].pc, row[a], "STOPPED", x.up, x.bot, arch[a].st, arch[a].was, crashes)
  BY <1>0, <1>1 DEF Fit, Good, Op, After, GiveOps
<1>3. "STOPPED" \in States
  BY DEF States
<1> QED BY <1>0, <1>1, <1>2, <1>3, BoxStep

LEMMA OthersStep == ASSUME Inv, Others PROVE Inv'
<1>1. ASSUME NEW a \in Agents, Download(a) PROVE Inv'
  BY <1>1, Aside DEF Download, proc, Inv, Shape
<1>2. ASSUME NEW b \in Bots, AddBegin(b) \/ Remove(b) \/ SweepTakes(b) PROVE Inv'
  BY <1>2, Aside DEF AddBegin, Remove, SweepTakes, self, proc, Inv, Shape
<1>3. ASSUME Added \/ SweepLands PROVE Inv'
  BY <1>3, Aside DEF Added, SweepLands, self, Inv, Shape
<1> QED BY <1>1, <1>2, <1>3, BootStep, StopStep DEF Others
-----------------------------------------------------------------------------
(* The process dies: every task is gone, and a container that was being     *)
(* stopped or started is as it was or as it was to be.                      *)
LEMMA CrashStep == ASSUME Inv, MaxCrashes <= 1, Crash PROVE Inv'
<1>0. /\ Shape /\ OneRow /\ UNCHANGED <<row, state, arch>> /\ job' = [j \in Jobs |-> NoJob]
      /\ crashes < MaxCrashes /\ crashes' = crashes + 1
  BY DEF Inv, Crash
<1>1. crashes = 0 /\ crashes' = 1
  BY <1>0, BoundsAssumption DEF Shape
<1>2. PICK f \in [Agents -> UNION {Half(a) : a \in Agents}] :
        (\A a \in Agents : f[a] \in Half(a)) /\ box' = f
  BY DEF Crash
<1>3. ASSUME NEW a \in Agents
      PROVE  /\ box'[a] \in BoxRec
             /\ \/ box'[a].bot = box[a].bot /\ (box'[a].up => box[a].up)
                \/ box'[a].bot = row[a]
  <2>1. box[a] \in BoxRec /\ row[a] \in Bots \cup {None}
    BY <1>0, Kept
  <2>2. Half(a) \subseteq {box[a], [box[a] EXCEPT !.up = FALSE], [up |-> TRUE, bot |-> row[a]]}
    BY DEF Half
  <2>3. box'[a] \in {box[a], [box[a] EXCEPT !.up = FALSE], [up |-> TRUE, bot |-> row[a]]}
    BY <1>2, <2>2, Zenon
  <2>4. CASE box'[a] = box[a]
    BY <2>1, <2>4
  <2>5. CASE box'[a] = [box[a] EXCEPT !.up = FALSE]
    BY <2>1, <2>5 DEF BoxRec
  <2>6. CASE box'[a] = [up |-> TRUE, bot |-> row[a]]
    BY <2>1, <2>6 DEF BoxRec
  <2> QED BY <2>3, <2>4, <2>5, <2>6, Zenon
<1>4. Shape'
  <2>1. box' \in [Agents -> BoxRec]
    BY <1>2, <1>3
  <2>2. job' \in [Jobs -> JobRec]
    BY <1>0, NoJobIs
  <2> QED BY <2>1, <2>2, <1>0, <1>1 DEF Shape
<1>5. \A a \in Agents : job'[<<a, "op">>] = NoJob
  BY <1>0, TwoTasks
<1>6. OneRow'
  BY <1>0 DEF OneRow
<1>7. ASSUME NEW a \in Agents PROVE Fit(a)'
  <2>1. Fit(a)
    BY DEF Inv
  <2>2. Good("none", "none", row[a], state[a], box'[a].up, box'[a].bot, arch[a].st, arch[a].was, 1)
    BY <2>1, <1>1, <1>3 DEF Fit, Good, After
  <2> QED BY <2>2, <1>0, <1>1, <1>5, NoJobIs DEF Fit
<1> QED BY <1>4, <1>6, <1>7 DEF Inv

LEMMA ResumeSetUpStep == ASSUME Inv, NEW a \in Agents, ResumeSetUp(a) PROVE Inv'
<1>0. /\ Shape /\ Fit(a) /\ Op(a) = "none" /\ state[a] = "PROVISIONING"
      /\ UNCHANGED <<row, box, arch, crashes>>
  BY DEF ResumeSetUp, Inv
<1>1. CASE Begin(a, "setup", "find") /\ state' = state
  <2>1. Good("setup", "find", row[a], state[a], box[a].up, box[a].bot, arch[a].st, arch[a].was, crashes)
    BY <1>0 DEF Fit, Good, Op, After
  <2>2. /\ "setup" \in Ops /\ "find" \in Places /\ state[a] \in States /\ arch[a] \in ArchRec
        /\ state' = [state EXCEPT ![a] = state[a]] /\ arch' = [arch EXCEPT ![a] = arch[a]]
    BY <1>0, <1>1, Kept DEF Ops, Places
  <2> QED BY <1>0, <1>1, <2>1, <2>2, BeginStep
<1>2. CASE Become(a, "FAILED") /\ job' = job
  <2>1. Good("none", job[<<a, "op">>].pc, row[a], "FAILED", box[a].up, box[a].bot, arch[a].st, arch[a].was, crashes)
    BY <1>0 DEF Fit, Good, Op, After, GiveOps
  <2>2. "FAILED" \in States /\ box[a] \in BoxRec /\ box' = [box EXCEPT ![a] = box[a]]
    BY <1>0, Kept DEF States
  <2> QED BY <1>0, <1>2, <2>1, <2>2, BoxStep DEF Become
<1> QED BY <1>1, <1>2 DEF ResumeSetUp

LEMMA UndoStep == ASSUME Inv, NEW a \in Agents, Undo(a) PROVE Inv'
<1> DEFINE k == job[<<a, "op">>]
           s == IF arch[a].was THEN "RUNNING" ELSE state[a]
           x == IF arch[a].was THEN [box[a] EXCEPT !.up = TRUE] ELSE box[a]
<1>0. /\ Shape /\ Fit(a) /\ k.op = "none" /\ arch[a].st \notin {"none", "released"}
      /\ UNCHANGED <<row, job, crashes>> /\ arch' = [arch EXCEPT ![a] = NoArchive]
  BY DEF Undo, TakenUp, Cut, GivenUp, Op, Inv, proc
<1>1. s \in States /\ state' = [state EXCEPT ![a] = s]
  BY <1>0, Kept DEF Undo, Become, States
<1>2. x \in BoxRec /\ x.bot = box[a].bot /\ (~arch[a].was => x.up = box[a].up)
  BY <1>0, Kept DEF BoxRec
<1>3. box' = [box EXCEPT ![a] = x]
  BY <1>0, Kept DEF Undo
<1>4. NoArchive \in ArchRec /\ NoArchive.st = "none"
  BY DEF NoArchive, ArchRec
<1>5. Good("none", k.pc, row[a], s, x.up, x.bot, "none", NoArchive.was, crashes)
  BY <1>0, <1>2 DEF Fit, Good, After, GiveOps
<1> HIDE DEF s, x
<1>6. k \in JobRec /\ Step(a, k, row[a], s, x, NoArchive)
  BY <1>0, <1>1, <1>3, Kept DEF Step, Shape
<1> QED BY <1>0, <1>1, <1>2, <1>4, <1>5, <1>6, Typed, Moved

LEMMA FinishStep == ASSUME Inv, NEW a \in Agents, Finish(a) PROVE Inv'
<1> DEFINE ar == [arch[a] EXCEPT !.held = FALSE]
<1>0. /\ Shape /\ Fit(a) /\ Op(a) = "none" /\ arch[a].st # "none" /\ Begin(a, "resume", "stop")
      /\ UNCHANGED <<row, state, box, crashes>> /\ arch' = [arch EXCEPT ![a] = ar]
  BY DEF Finish, TakenUp, Cut, Inv
<1>1. ar \in ArchRec /\ ar.st = arch[a].st /\ ar.was = arch[a].was
  BY <1>0, Kept DEF ArchRec
<1>2. Good("resume", "stop", row[a], state[a], box[a].up, box[a].bot, ar.st, ar.was, crashes)
  BY <1>0, <1>1 DEF Fit, Good, Op, After, GiveOps
<1>3. /\ "resume" \in Ops /\ "stop" \in Places /\ state[a] \in States
      /\ state' = [state EXCEPT ![a] = state[a]]
  BY <1>0, Kept DEF Ops, Places
<1> HIDE DEF ar
<1> QED BY <1>0, <1>1, <1>2, <1>3, BeginStep

LEMMA ResumeStep == ASSUME Inv, Resume PROVE Inv'
BY ResumeSetUpStep, FinishStep, UndoStep DEF Resume
-----------------------------------------------------------------------------
LEMMA InvInit == ASSUME Init PROVE Inv
<1> DEFINE a0 == CHOOSE a \in Agents : TRUE
           b0 == CHOOSE b \in Bots : TRUE
<1>1. /\ row = [c \in Agents |-> IF c = a0 THEN b0 ELSE None]
      /\ state = [c \in Agents |-> IF c = a0 THEN "RUNNING" ELSE "NEW"]
      /\ box = [a \in Agents |-> [up |-> state[a] = "RUNNING", bot |-> row[a]]]
      /\ arch = [a \in Agents |-> NoArchive] /\ job = [j \in Jobs |-> NoJob] /\ crashes = 0
  BY DEF Init
<1>2. b0 \in Bots
  BY SomeOfEach
<1> HIDE DEF a0, b0
<1>3. NoArchive \in ArchRec /\ NoArchive.st = "none"
  BY DEF NoArchive, ArchRec
<1>4. \A a \in Agents : /\ row[a] \in Bots \cup {None} /\ state[a] \in {"RUNNING", "NEW"}
                        /\ box[a] = [up |-> state[a] = "RUNNING", bot |-> row[a]]
                        /\ arch[a] = NoArchive /\ job[<<a, "op">>] = NoJob
  BY <1>1, <1>2, TwoTasks
<1>5. Shape
  BY <1>1, <1>3, <1>4, NoJobIs DEF Shape, BoxRec, States
<1>6. OneRow
  BY <1>1 DEF OneRow
<1>7. ASSUME NEW a \in Agents PROVE Fit(a)
  BY <1>1, <1>3, <1>4, NoJobIs DEF Fit, Good, After
<1> QED BY <1>5, <1>6, <1>7 DEF Inv

LEMMA InvNext == ASSUME MaxCrashes <= 1, Inv, [Next]_vars PROVE Inv'
<1>1. CASE Provisioner
  BY <1>1, ProvisionerStep
<1>2. CASE SettingUp
  BY <1>2, SetUpStep, SetUpFindsStep, SetUpSyncsStep, SetUpGateStep, SetUpBootsStep,
     SetUpDoneStep, SetUpFailsStep DEF SettingUp
<1>3. CASE Attaching
  BY <1>3, AttachStep, AttachEndStep, AttachedStep DEF Attaching
<1>4. CASE Leaving
  BY <1>4, DetachStep, SwapStep, SwapGateStep, ArchiveStep, DeleteStep, DownStep, StaysUpStep,
     GivingStep, LeftStep, GoneStep DEF Leaving, Giver
<1>5. CASE UNCHANGED vars
  BY <1>5, Aside DEF vars, self, proc, Inv, Shape
<1> QED BY <1>1, <1>2, <1>3, <1>4, <1>5, OthersStep, CrashStep, ResumeStep DEF Next

LEMMA InvPolls == ASSUME Inv PROVE OnePoller
<1>1. ASSUME NEW a \in Agents, box[a].up, box[a].bot # None PROVE row[a] = box[a].bot
  BY <1>1 DEF Inv, Fit, Good
<1>2. OneRow
  BY DEF Inv
<1> QED BY <1>1, <1>2 DEF OnePoller, OneRow

(* However setups, attaches, swaps, archives and deletes of any number of   *)
(* agents overlap, fail or are cut off by a restart, no two containers poll *)
(* one bot.  Of a process that dies twice in one archive it is not claimed: *)
(* README.md says what then goes wrong.                                     *)
THEOREM OneContainerPerBot == ASSUME MaxCrashes <= 1 PROVE Spec => []OnePoller
<1>1. Init => Inv
  BY InvInit
<1>2. Inv /\ [Next]_vars => Inv'
  BY InvNext
<1>3. Inv => OnePoller
  BY InvPolls
<1> QED BY <1>1, <1>2, <1>3, PTL DEF Spec
-----------------------------------------------------------------------------
(***************************************************************************)
(* What the pool says of a bot, and what a bot is called, under at most one *)
(* death of the process: the properties of BotLease other than OnePoller    *)
(* (proved above) and ArchiveEnds (liveness).  None   of them is inductive: *)
(* a lease is right because of the task that is about to write the row, a   *)
(* row because of the archive that will clear it, a name because of the     *)
(* rename that is still queued.  More says so, agent by agent, and holds    *)
(* beside the invariant Inv that OnePoller is proved from:                  *)
(*   Tasked     a task in hand has its lease or its row;                    *)
(*   CutOff     what the record of a cut archive says of the row;           *)
(*   Going      a bot on its way out is no longer leased past the recycle;  *)
(*   RowHeld    a row's bot is leased to its agent or pasted, but for the   *)
(*              moment between the recycle and the row's end (Between);     *)
(*   LeaseHeld  a lease has a row or a task that will write one;            *)
(*   CopyOut    the bot of a downloaded copy is out of the pool or kept;    *)
(*   Serves     a leased bot is named for its agent, or queued to be.       *)
(* Another agent's steps leave Fine(a) alone (Elsewhere), so each action is *)
(* judged for its own agent only; the theorems are at the end.              *)
(***************************************************************************)

(* An agent's operation, and the attach that runs beside it.                *)
TaskOf(a) == job[<<a, "op">>]
HuntOf(a) == job[<<a, "attach">>]
(* The places between leasing a bot and writing the row.                    *)
Leases == {"drop", "name", "gate"}

(* The types that Shape leaves out.                                         *)
Typing ==
  /\ pool \in [Bots -> Agents \cup {"out", "free"}]
  /\ copied \in [Agents -> Bots \cup {None}]
  /\ queued \in [Bots -> Names \cup {None}] /\ called \in [Bots -> Names]
  /\ adding \in Bots \cup {None}
  /\ sweep.bot \in Bots \cup {None} /\ sweep.name \in Names

(* What an agent's tasks hold. *)
Tasked(a) ==
  /\ TaskOf(a).op = "setup" /\ TaskOf(a).pc \in Leases =>
       TaskOf(a).bot \in Bots /\ pool[TaskOf(a).bot] = a
  /\ TaskOf(a).op = "swap" =>
       /\ TaskOf(a).bot \in Bots /\ pool[TaskOf(a).bot] = a
       /\ row[a] \notin {None, TaskOf(a).bot} /\ Settled(a)
  /\ TaskOf(a).pc = "sync" => TaskOf(a).bot = row[a] /\ row[a] # None
  /\ TaskOf(a).pc \in Leases => TaskOf(a).op \in {"setup", "swap"}
  /\ TaskOf(a).pc \in {"sync", "boot"} => TaskOf(a).op = "setup"
  /\ HuntOf(a).pc \in Leases \cup {"sync"} => HuntOf(a).bot \in Bots

(* While an archive is recorded nothing is attached; the row is the         *)
(* recorded bot's until the record says released.                           *)
CutOff(a) ==
  /\ arch[a].st # "none" /\ TaskOf(a).op # "archive" => HuntOf(a) = NoJob
  /\ arch[a].st = "released" => row[a] = None
  /\ arch[a].st \notin {"none", "released"} /\ ~(TaskOf(a).op = "resume" /\ TaskOf(a).pc = "last") =>
       row[a] = arch[a].bot

(* Who is past its stop still has its row; past the recycle, no lease.      *)
Going(a) ==
  /\ TaskOf(a).pc \in {"release", "goodbye"} =>
       TaskOf(a).op \in {"detach", "swap", "archive", "delete"} /\ row[a] # None
  /\ TaskOf(a).pc = "goodbye" => pool[row[a]] # a
  /\ TaskOf(a).pc = "left" /\ row[a] # None => TaskOf(a).op # "swap" /\ pool[row[a]] # a
  /\ TaskOf(a).op = "resume" /\ TaskOf(a).pc \in {"stop", "give"} /\ row[a] # None /\ ~arch[a].copy =>
       pool[row[a]] # a

(* Stopped for good, on the way from giving the bot up to losing the row.   *)
Between(a) == /\ ~box[a].up
              /\ \/ TaskOf(a).pc \in {"release", "goodbye"}
                 \/ arch[a].st # "none" /\ TaskOf(a).op # "archive"
RowHeld(a) == row[a] # None => pool[row[a]] \in {a, "out"} \/ OfferedInAGap \/ Between(a)

(* A lease without a row belongs to a task that has yet to write it.        *)
LeaseHeld(a) == \A b \in Bots : pool[b] = a =>
  \/ row[a] = b
  \/ TaskOf(a).op = "setup" /\ TaskOf(a).pc \in Leases /\ TaskOf(a).bot = b
  \/ TaskOf(a).op = "swap" /\ TaskOf(a).bot = b
  \/ HuntOf(a).pc \in Leases /\ HuntOf(a).bot = b
  \/ gap \cap {"kept", "lease", "added"} # {}

(* A copy's bot is out, or still its agent's; nobody gives it back.         *)
CopyOut(a) ==
  /\ copied[a] # None => state[a] # "RUNNING"
  /\ copied[a] # None => \/ pool[copied[a]] = "out"
                         \/ row[a] = copied[a] /\ pool[copied[a]] = a
                         \/ "copy" \in gap \/ OfferedInAGap
  /\ TaskOf(a).op = "archive" /\ TaskOf(a).pc \in After /\ copied[a] # None /\ row[a] # None => arch[a].copy
  /\ TaskOf(a).op \in {"archive", "delete"} /\ TaskOf(a).pc \in {"release", "goodbye"} => copied[a] = None
  /\ TaskOf(a).op = "setup" /\ TaskOf(a).mine /\ row[a] # None =>
       copied[a] # row[a] \/ "copy" \in gap \/ OfferedInAGap

(* The gaps in which a bot may end up under another agent's name.           *)
Misnamed == gap \cap {"crossed", "dead", "late", "lease"} # {}
Serves(a) == Misnamed \/
  /\ \A b \in Bots : pool[b] = a =>
       \/ TaskOf(a).pc = "drop" /\ TaskOf(a).bot = b
       \/ HuntOf(a).pc = "drop" /\ HuntOf(a).bot = b
       \/ a \in {called[b], queued[b]} /\ queued[b] \in {None, a}
  /\ sweep.for = a => sweep.name = a

(* The invariant of one agent, and of all.                                  *)
Fine(a) == /\ Tasked(a) /\ CutOff(a) /\ Going(a) /\ RowHeld(a) /\ LeaseHeld(a)
           /\ CopyOut(a) /\ Serves(a)
More == Typing /\ \A a \in Agents : Fine(a)
-----------------------------------------------------------------------------
(* Only agent a's tasks move.                                               *)
Apart(a) == \A c \in Agents \ {a} : TaskOf(c)' = TaskOf(c) /\ HuntOf(c)' = HuntOf(c)

(* A task written anew, or moved on. *)
LEMMA OpPut ==
  ASSUME Shape, NEW a \in Agents, NEW k, Put(<<a, "op">>, k)
  PROVE  TaskOf(a)' = k /\ HuntOf(a)' = HuntOf(a) /\ Apart(a)
BY TwoTasks DEF Shape, Put, TaskOf, HuntOf, Apart

LEMMA HuntPut ==
  ASSUME Shape, NEW a \in Agents, NEW k, Put(<<a, "attach">>, k)
  PROVE  HuntOf(a)' = k /\ TaskOf(a)' = TaskOf(a) /\ Apart(a)
BY TwoTasks DEF Shape, Put, TaskOf, HuntOf, Apart

LEMMA OpGoto ==
  ASSUME Shape, NEW a \in Agents, NEW p, Goto(<<a, "op">>, p)
  PROVE  /\ TaskOf(a)'.op = TaskOf(a).op /\ TaskOf(a)'.pc = p /\ TaskOf(a)'.bot = TaskOf(a).bot
         /\ TaskOf(a)'.mine = TaskOf(a).mine /\ HuntOf(a)' = HuntOf(a) /\ Apart(a)
BY TwoTasks DEF Shape, JobRec, Goto, TaskOf, HuntOf, Apart

LEMMA HuntGoto ==
  ASSUME Shape, NEW a \in Agents, NEW p, Goto(<<a, "attach">>, p)
  PROVE  /\ HuntOf(a)'.op = HuntOf(a).op /\ HuntOf(a)'.pc = p /\ HuntOf(a)'.bot = HuntOf(a).bot
         /\ TaskOf(a)' = TaskOf(a) /\ Apart(a)
BY TwoTasks DEF Shape, JobRec, Goto, TaskOf, HuntOf, Apart

(* No task moves.                                                           *)
LEMMA Untasked ==
  ASSUME Shape, job' = job, NEW c \in Agents
  PROVE  TaskOf(c)' = TaskOf(c) /\ HuntOf(c)' = HuntOf(c)
BY DEF TaskOf, HuntOf

(* The types of one agent's state, from Shape.                              *)
LEMMA Records ==
  ASSUME Shape, NEW a \in Agents
  PROVE  /\ row[a] \in Bots \cup {None} /\ state[a] \in States /\ box[a] \in BoxRec
         /\ arch[a] \in ArchRec /\ TaskOf(a) \in JobRec /\ HuntOf(a) \in JobRec
BY TwoTasks DEF Shape, TaskOf, HuntOf

(* A step that is agent a's own.                                          *)
Own(a) ==
  /\ Apart(a)
  /\ \A c \in Agents \ {a} : /\ row'[c] = row[c] /\ state'[c] = state[c] /\ box'[c] = box[c]
                             /\ arch'[c] = arch[c] /\ copied'[c] = copied[c]
  /\ \A g \in gap : g \in gap'
  /\ \A b \in Bots :
       \/ pool'[b] = pool[b]
       \/ pool[b] \in {a, "free"} /\ pool'[b] \in {a, "free", "out"}
       \/ /\ pool[b] = "out" /\ pool'[b] = "free"
          /\ \A c \in Agents \ {a} : row[c] # b /\ (copied[c] # b \/ "copy" \in gap')
  /\ \A b \in Bots : \/ pool'[b] \notin Agents \ {a} \/ "late" \in gap'
                     \/ called'[b] = called[b] /\ queued'[b] = queued[b]
  /\ sweep' = sweep

(* A step of agent a's own leaves every other agent as it was.             *)
LEMMA Elsewhere ==
  ASSUME Inv, More, NEW a \in Agents, Own(a), NEW c \in Agents \ {a}
  PROVE  Fine(c)'
<1>0. /\ Fine(c) /\ row[c] \in Bots \cup {None} /\ copied[c] \in Bots \cup {None}
      /\ TaskOf(c)' = TaskOf(c) /\ HuntOf(c)' = HuntOf(c)
      /\ row'[c] = row[c] /\ state'[c] = state[c] /\ box'[c] = box[c]
      /\ arch'[c] = arch[c] /\ copied'[c] = copied[c]
      /\ c \notin {"out", "free", None}
  BY Records, BoundsAssumption DEF More, Typing, Own, Apart, Inv
<1>g. \A g \in gap : g \in gap'
  BY DEF Own
<1>b. \A b \in Bots : pool'[b] = c <=> pool[b] = c
  BY <1>0, BoundsAssumption DEF Own
<1>1. Tasked(c)'
  BY <1>0, <1>b DEF Fine, Tasked, Settled
<1>2. CutOff(c)'
  BY <1>0 DEF Fine, CutOff
<1>3. Going(c)'
  BY <1>0, <1>b DEF Fine, Going
<1>4. RowHeld(c)'
  <2>1. CASE row[c] = None
    BY <1>0, <2>1 DEF RowHeld
  <2>2. CASE row[c] # None
    <3>1. pool[row[c]] \in {c, "out"} => pool'[row[c]] \in {c, "out"}
      BY <1>0, <2>2, BoundsAssumption DEF Own
    <3>2. OfferedInAGap => OfferedInAGap'
      BY <1>g DEF OfferedInAGap
    <3> QED BY <1>0, <2>2, <3>1, <3>2 DEF Fine, RowHeld, Between
  <2> QED BY <2>1, <2>2
<1>5. LeaseHeld(c)'
  BY <1>0, <1>b, <1>g DEF Fine, LeaseHeld
<1>6. CopyOut(c)'
  <2>1. OfferedInAGap \/ "copy" \in gap => OfferedInAGap' \/ "copy" \in gap'
    BY <1>g DEF OfferedInAGap
  <2>2. copied[c] # None =>
          \/ pool'[copied[c]] = "out"
          \/ row[c] = copied[c] /\ pool'[copied[c]] = c
          \/ "copy" \in gap' \/ OfferedInAGap'
    BY <1>0, <1>b, <2>1, BoundsAssumption DEF Fine, CopyOut, Own
  <2> QED BY <1>0, <2>1, <2>2 DEF Fine, CopyOut
<1>7. Serves(c)'
  <2>1. CASE Misnamed
    BY <2>1, <1>g DEF Serves, Misnamed
  <2>2. CASE ~Misnamed
    BY <2>2, <1>0, <1>b DEF Fine, Serves, Misnamed, Own
  <2> QED BY <2>1, <2>2
<1> QED BY <1>1, <1>2, <1>3, <1>4, <1>5, <1>6, <1>7 DEF Fine

(* So of a step of a's only a is to be looked at. *)
LEMMA Owned ==
  ASSUME Inv, More, NEW a \in Agents, Own(a), Typing', Fine(a)'
  PROVE  More'
BY Elsewhere DEF More

(* What is known of an agent before a step of its own.                     *)
LEMMA Known ==
  ASSUME Inv, More, NEW a \in Agents
  PROVE  /\ Fine(a)
         /\ Good(TaskOf(a).op, TaskOf(a).pc, row[a], state[a], box[a].up, box[a].bot,
                 arch[a].st, arch[a].was, crashes)
         /\ row[a] \in Bots \cup {None} /\ copied[a] \in Bots \cup {None}
         /\ a \notin {"out", "free", None} /\ None \notin Bots
         /\ DOMAIN pool = Bots /\ DOMAIN row = Agents /\ DOMAIN state = Agents
         /\ DOMAIN box = Agents /\ DOMAIN arch = Agents /\ DOMAIN copied = Agents
BY Records, BoundsAssumption DEF Inv, More, Typing, Shape, Fit, TaskOf

(* An agent whose operation is claimed has nothing else in hand.            *)
LEMMA OpClaim ==
  ASSUME Shape, NEW a \in Agents, NEW b, Claim(<<a, "op">>, a, b)
  PROVE  /\ TaskOf(a)'.op = TaskOf(a).op /\ TaskOf(a)'.bot = b /\ TaskOf(a)'.mine = TaskOf(a).mine
         /\ TaskOf(a)'.pc = (IF pool[b] = a THEN "gate" ELSE "drop")
         /\ HuntOf(a)' = HuntOf(a) /\ Apart(a) /\ pool' = [pool EXCEPT ![b] = a]
BY TwoTasks DEF Shape, JobRec, Claim, TaskOf, HuntOf, Apart

(* Setting an agent up (provision.ts).                                      *)
LEMMA SetUpKeeps == ASSUME Inv, More, NEW a \in Agents, SetUp(a) PROVE More'
<1>1. /\ TaskOf(a).op = "none" /\ arch[a].st = "none" /\ state[a] \in {"NEW", "ARCHIVED", "FAILED"}
      /\ TaskOf(a)' = [NoJob EXCEPT !.op = "setup", !.pc = "find"] /\ HuntOf(a)' = HuntOf(a) /\ Apart(a)
  BY OpPut DEF SetUp, Request, Op, TaskOf, Inv
<1>2. /\ state' = [state EXCEPT ![a] = "PROVISIONING"] /\ UNCHANGED <<copied, row, box, arch>>
      /\ UNCHANGED <<pool, queued, called, gap, adding, sweep>>
  BY DEF SetUp, Become, names
<1>3. Own(a) /\ Typing'
  BY <1>1, <1>2 DEF Own, More, Typing, Inv, Shape
<1>4. Fine(a)'
  BY <1>1, <1>2, Known DEF Fine, Tasked, CutOff, Going, RowHeld, Between, LeaseHeld, CopyOut,
       Serves, Misnamed, OfferedInAGap, Leases, NoJob
<1> QED BY <1>3, <1>4, Owned

LEMMA SetUpFindsKeeps == ASSUME Inv, More, NEW a \in Agents, SetUpFinds(a) PROVE More'
<1>1. /\ TaskOf(a).op = "setup" /\ TaskOf(a).pc = "find"
      /\ UNCHANGED <<state, copied, row, box, arch, queued, called, gap, adding, sweep>>
  BY DEF SetUpFinds, At, Op, TaskOf, names, self
<1>2. CASE row[a] # None
  <2> DEFINE p == IF pool[row[a]] = "out" THEN "boot" ELSE "sync"
             k == [TaskOf(a) EXCEPT !.bot = row[a], !.pc = p]
  <2>1. k.op = "setup" /\ k.mine = TaskOf(a).mine /\ k.bot = row[a] /\ k.pc \in {"boot", "sync"}
    BY <1>1, Records DEF Inv, JobRec
  <2>2. Put(<<a, "op">>, k) /\ pool' = pool
    BY <1>2 DEF SetUpFinds, TaskOf
  <2> HIDE DEF k
  <2>3. TaskOf(a)' = k /\ HuntOf(a)' = HuntOf(a) /\ Apart(a)
    BY <2>2, OpPut DEF Inv
  <2>4. Own(a) /\ Typing'
    BY <1>1, <2>2, <2>3 DEF Own, More, Typing
  <2>5. Fine(a)'
    BY <1>1, <1>2, <2>1, <2>2, <2>3, Known DEF Fine, Tasked, CutOff, Going, RowHeld, Between,
         LeaseHeld, CopyOut, Serves, Misnamed, OfferedInAGap, Leases
  <2> QED BY <2>4, <2>5, Owned
<1>3. CASE row[a] = None /\ \E b \in Offer(a, {}) : Claim(<<a, "op">>, a, b)
  <2>1. PICK b \in Bots : Claim(<<a, "op">>, a, b) /\ pool[b] \in {a, "free"}
    BY <1>3 DEF Offer
  <2>2. /\ TaskOf(a)'.op = "setup" /\ TaskOf(a)'.bot = b /\ TaskOf(a)'.mine = TaskOf(a).mine
        /\ TaskOf(a)'.pc = (IF pool[b] = a THEN "gate" ELSE "drop")
        /\ HuntOf(a)' = HuntOf(a) /\ Apart(a) /\ pool' = [pool EXCEPT ![b] = a]
    BY <1>1, <2>1, OpClaim DEF Inv
  <2>3. Own(a) /\ Typing'
    BY <1>1, <2>1, <2>2 DEF Own, More, Typing
  <2>4. Fine(a)'
    BY <1>1, <1>3, <2>1, <2>2, Known DEF Fine, Tasked, CutOff, Going, RowHeld, LeaseHeld,
         CopyOut, Serves, Misnamed, OfferedInAGap, Leases
  <2> QED BY <2>3, <2>4, Owned
<1>4. CASE row[a] = None /\ Goto(<<a, "op">>, "boot") /\ pool' = pool
  <2>1. /\ TaskOf(a)'.op = "setup" /\ TaskOf(a)'.pc = "boot" /\ TaskOf(a)'.bot = TaskOf(a).bot
        /\ TaskOf(a)'.mine = TaskOf(a).mine /\ HuntOf(a)' = HuntOf(a) /\ Apart(a)
    BY <1>1, <1>4, OpGoto DEF Inv
  <2>2. Own(a) /\ Typing'
    BY <1>1, <1>4, <2>1 DEF Own, More, Typing
  <2>3. Fine(a)'
    BY <1>1, <1>4, <2>1, Known DEF Fine, Tasked, CutOff, Going, RowHeld, LeaseHeld, CopyOut,
         Serves, Misnamed, OfferedInAGap, Leases
  <2> QED BY <2>2, <2>3, Owned
<1> QED BY <1>2, <1>3, <1>4 DEF SetUpFinds

LEMMA SetUpGateKeeps == ASSUME Inv, More, NEW a \in Agents, SetUpGate(a) PROVE More'
<1> DEFINE b == TaskOf(a).bot
<1>1. /\ TaskOf(a).op = "setup" /\ TaskOf(a).pc = "gate" /\ b \in Bots
      /\ UNCHANGED <<box, arch, pool, queued, called, adding, sweep>>
  BY DEF SetUpGate, At, Op, TaskOf, names, More, Fine, Tasked, Leases
<1>2. CASE Clash(a, b)
  <2>1. /\ TaskOf(a)' = NoJob /\ HuntOf(a)' = HuntOf(a) /\ Apart(a) /\ row' = row
        /\ state' = [state EXCEPT ![a] = "FAILED"] /\ copied' = copied /\ gap' = gap \cup {"kept"}
    BY <1>2, OpPut DEF SetUpGate, End, Become, GapIf, TaskOf, Inv
  <2>2. Own(a) /\ Typing'
    BY <1>1, <2>1 DEF Own, More, Typing, Inv, Shape
  <2>3. Fine(a)'
    <3>0. Fine(a)
      BY Known
    <3>1. Tasked(a)'
      BY <2>1, Known DEF Fine, Tasked, Leases, NoJob
    <3>2. CutOff(a)'
      BY <1>1, <2>1, Known DEF Fine, CutOff
    <3>3. Going(a)'
      BY <2>1 DEF Fine, Going, NoJob
    <3>4. RowHeld(a)'
      BY <1>1, <2>1, Known DEF Fine, RowHeld, Between, OfferedInAGap, NoJob
    <3>5. LeaseHeld(a)'
      BY <2>1 DEF Fine, LeaseHeld
    <3>6. CopyOut(a)'
      BY <1>1, <2>1, Known DEF Fine, CopyOut, OfferedInAGap, NoJob
    <3>7. Serves(a)'
      BY <1>1, <2>1, Known DEF Fine, Serves, Misnamed
    <3> QED BY <3>1, <3>2, <3>3, <3>4, <3>5, <3>6, <3>7 DEF Fine
  <2> QED BY <2>2, <2>3, Owned
<1>3. CASE ~Clash(a, b)
  <2>1. /\ TaskOf(a)' = [TaskOf(a) EXCEPT !.mine = TRUE, !.pc = "boot"] /\ HuntOf(a)' = HuntOf(a) /\ Apart(a)
        /\ row' = [row EXCEPT ![a] = b] /\ UNCHANGED <<state, copied, gap>>
    BY <1>3, OpPut DEF SetUpGate, TaskOf, Inv
  <2>2. /\ TaskOf(a)'.op = "setup" /\ TaskOf(a)'.pc = "boot" /\ row'[a] = b
    BY <1>1, <2>1, Records DEF Inv, JobRec, Shape
  <2>3. Own(a) /\ Typing'
    BY <1>1, <2>1 DEF Own, More, Typing, Inv, Shape
  <2>4. Fine(a)'
    BY <1>1, <2>1, Known DEF Fine, Tasked, CutOff, Going, RowHeld, LeaseHeld, CopyOut, Serves,
         Misnamed, OfferedInAGap, Leases, Good
  <2> QED BY <2>3, <2>4, Owned
<1> QED BY <1>2, <1>3

LEMMA SetUpBootsKeeps == ASSUME Inv, More, NEW a \in Agents, SetUpBoots(a) PROVE More'
<1>1. /\ TaskOf(a).op = "setup" /\ TaskOf(a).pc = "boot"
      /\ TaskOf(a)'.op = "setup" /\ TaskOf(a)'.pc = "health" /\ TaskOf(a)'.bot = TaskOf(a).bot
      /\ TaskOf(a)'.mine = TaskOf(a).mine /\ HuntOf(a)' = HuntOf(a) /\ Apart(a)
  BY OpGoto DEF SetUpBoots, Op, At, TaskOf, Inv
<1>2. /\ box' = [box EXCEPT ![a] = [up |-> TRUE, bot |-> row[a]]]
      /\ UNCHANGED <<row, state, copied, arch, pool, queued, called, gap, adding, sweep>>
  BY DEF SetUpBoots, names
<1>3. Own(a) /\ Typing'
  BY <1>1, <1>2 DEF Own, More, Typing, Inv, Shape
<1>4. Fine(a)'
  BY <1>1, <1>2, Known DEF Fine, Tasked, CutOff, Going, RowHeld, Between, LeaseHeld, CopyOut,
       Serves, Misnamed, OfferedInAGap, Leases, Good
<1> QED BY <1>3, <1>4, Owned

LEMMA SetUpDoneKeeps == ASSUME Inv, More, NEW a \in Agents, SetUpDone(a) PROVE More'
<1>1. /\ TaskOf(a).op = "setup" /\ TaskOf(a).pc = "health"
      /\ TaskOf(a)' = NoJob /\ HuntOf(a)' = HuntOf(a) /\ Apart(a)
  BY OpPut DEF SetUpDone, Op, At, End, TaskOf, Inv
<1>2. /\ state' = [state EXCEPT ![a] = "RUNNING"] /\ copied' = [copied EXCEPT ![a] = None]
      /\ UNCHANGED <<row, box, arch, pool, queued, called, gap, adding, sweep>>
  BY DEF SetUpDone, Become, names
<1>3. Own(a) /\ Typing'
  BY <1>1, <1>2 DEF Own, More, Typing, Inv, Shape
<1>4. Fine(a)'
  BY <1>1, <1>2, Known DEF Fine, Tasked, CutOff, Going, RowHeld, Between, LeaseHeld, CopyOut,
       Serves, Misnamed, OfferedInAGap, Leases, NoJob
<1> QED BY <1>3, <1>4, Owned

LEMMA SetUpFailsKeeps == ASSUME Inv, More, NEW a \in Agents, SetUpFails(a) PROVE More'
<1>1. /\ TaskOf(a).op = "setup" /\ TaskOf(a).pc \in {"boot", "health"}
      /\ TaskOf(a)' = NoJob /\ HuntOf(a)' = HuntOf(a) /\ Apart(a)
  BY OpPut DEF SetUpFails, Op, End, TaskOf, Inv
<1>2. /\ state' = [state EXCEPT ![a] = "FAILED"] /\ copied' = copied
      /\ UNCHANGED <<arch, called, gap, adding, sweep>>
  BY DEF SetUpFails, Become, names
<1>3. PICK gone \in {~box[a].up, TRUE} :
       /\ box' = IF gone THEN [box EXCEPT ![a].up = FALSE] ELSE box
       /\ IF GivesBack(a, gone)
          THEN /\ Release(a, row[a]) /\ queued' = [queued EXCEPT ![row[a]] = IdleName(row[a], pool')]
               /\ row' = [row EXCEPT ![a] = None]
          ELSE UNCHANGED <<pool, queued, row>>
  BY DEF SetUpFails
<1>4. \A c \in Agents \ {a} : box'[c] = box[c]
  BY <1>3 DEF Inv, Shape
<1>5. CASE GivesBack(a, gone)
  <2>1. TaskOf(a).mine /\ row'[a] = None /\ \A c \in Agents \ {a} : row'[c] = row[c]
    BY <1>3, <1>5 DEF GivesBack, TaskOf, Inv, Shape
  <2>2. ~box'[a].up
    BY <1>3, <1>5, Records DEF GivesBack, Inv, Shape, BoxRec
  <2> DEFINE b == row[a]
  <2>3. \A d \in Bots : /\ d # b => pool'[d] = pool[d] /\ queued'[d] = queued[d]
                        /\ pool[d] # a => pool'[d] = pool[d]
                        /\ pool[d] # a /\ d = b /\ pool[d] # "free" => queued'[d] = queued[d]
                        /\ pool[d] = a /\ d = b => pool'[d] = "free"
    BY <1>3, <1>5 DEF Release, Freed, IdleName, More, Typing
  <2>4. Own(a)
    BY <1>1, <1>2, <1>4, <2>1, <2>3, BoundsAssumption DEF Own, Inv, Shape
  <2>5. Typing'
    BY <1>2, <1>3, <1>5 DEF More, Typing, Release, Freed, IdleName, Names
  <2>6. Fine(a)'
    BY <1>1, <1>2, <2>1, <2>3, Known DEF Fine, Tasked, CutOff, Going, RowHeld, LeaseHeld,
         CopyOut, Serves, Misnamed, OfferedInAGap, Leases, Good, NoJob
  <2> QED BY <2>4, <2>5, <2>6, Owned
<1>6. CASE ~GivesBack(a, gone)
  <2>1. UNCHANGED <<pool, queued, row>>
    BY <1>3, <1>6
  <2>2. box'[a].up => box[a].up
    BY <1>3, Records DEF Inv, Shape, BoxRec
  <2>3. Own(a) /\ Typing'
    BY <1>1, <1>2, <1>4, <2>1 DEF Own, More, Typing, Inv, Shape
  <2>4. Fine(a)'
    BY <1>1, <1>2, <2>1, <2>2, Known DEF Fine, Tasked, CutOff, Going, RowHeld, Between,
         LeaseHeld, CopyOut, Serves, Misnamed, OfferedInAGap, Leases, NoJob
  <2> QED BY <2>3, <2>4, Owned
<1> QED BY <1>5, <1>6

(* Attaching a bot to an agent that has none (routes.ts).                   *)
LEMMA AttachKeeps == ASSUME Inv, More, NEW a \in Agents, Attach(a) PROVE More'
<1>1. TaskOf(a).op = "none" /\ arch[a].st = "none" /\ row[a] = None /\ HuntOf(a) = NoJob
  BY DEF Attach, Request, Op, TaskOf, HuntOf
<1>u. UNCHANGED <<row, state, box, copied, arch, queued, called, gap, adding, sweep>>
  BY DEF Attach, names, self
<1> DEFINE k(b, p) == [NoJob EXCEPT !.op = "attach", !.bot = b, !.pc = p]
            P(b, p) == /\ Put(<<a, "attach">>, k(b, p))
                       /\ \/ /\ pool[b] \in {a, "free"} /\ pool' = [pool EXCEPT ![b] = a]
                             /\ p = "drop" \/ pool[b] = a
                          \/ pool[b] = "out" /\ pool' = pool
<1>2. \E b \in Bots, p \in {"gate", "drop"} : P(b, p)
  <2>1. CASE \E b \in Offer(a, {}) :
          /\ pool' = [pool EXCEPT ![b] = a]
          /\ Put(<<a, "attach">>, k(b, IF pool[b] = a THEN "gate" ELSE "drop"))
    <3>1. PICK b \in Bots :
            /\ pool[b] \in {a, "free"} /\ pool' = [pool EXCEPT ![b] = a]
            /\ Put(<<a, "attach">>, k(b, IF pool[b] = a THEN "gate" ELSE "drop"))
      BY <2>1 DEF Offer
    <3>2. CASE pool[b] = a
      <4>1. P(b, "gate")
        BY <3>1, <3>2
      <4> QED BY <4>1
    <3>3. CASE pool[b] # a
      <4>1. P(b, "drop")
        BY <3>1, <3>3
      <4> QED BY <4>1
    <3> QED BY <3>2, <3>3
  <2>2. CASE \E b \in Bots : /\ pool[b] = "out" /\ ~Clash(a, b) /\ pool' = pool
                            /\ Put(<<a, "attach">>, k(b, "gate"))
    <3>1. PICK b \in Bots : P(b, "gate")
      BY <2>2
    <3> QED BY <3>1
  <2> QED BY <2>1, <2>2 DEF Attach
<1>p. PICK b \in Bots, p \in {"gate", "drop"} : P(b, p)
  BY <1>2
<1>3. /\ HuntOf(a)' = [NoJob EXCEPT !.op = "attach", !.bot = b, !.pc = p]
      /\ TaskOf(a)' = TaskOf(a) /\ Apart(a)
  BY <1>p, HuntPut DEF Inv
<1>4. Own(a) /\ Typing'
  BY <1>u, <1>p, <1>3 DEF Own, More, Typing
<1>5. Fine(a)'
  BY <1>1, <1>u, <1>p, <1>3, Known DEF Fine, Tasked, CutOff, Going, RowHeld, LeaseHeld, CopyOut,
       Serves, Misnamed, OfferedInAGap, Leases, NoJob
<1> QED BY <1>4, <1>5, Owned

LEMMA AttachRefusedKeeps == ASSUME Inv, More, NEW a \in Agents, AttachRefused(a) PROVE More'
<1>1. /\ HuntOf(a).pc = "gate" /\ HuntOf(a)' = NoJob /\ TaskOf(a)' = TaskOf(a) /\ Apart(a)
  BY HuntPut DEF AttachRefused, At, End, HuntOf, Inv
<1>2. /\ UNCHANGED <<pool, row, state, box, copied, arch, queued, called, adding, sweep>>
      /\ gap' = IF row[a] # HuntOf(a).bot THEN gap \cup {"kept"} ELSE gap
  BY DEF AttachRefused, GapIf, HuntOf, names, self
<1>3. Own(a) /\ Typing'
  BY <1>1, <1>2 DEF Own, More, Typing
<1>4. Fine(a)'
  BY <1>1, <1>2, Known DEF Fine, Tasked, CutOff, Going, RowHeld, Between, LeaseHeld, CopyOut,
       Serves, Misnamed, OfferedInAGap, Leases, Good, GiveOps, NoJob, Settled
<1> QED BY <1>3, <1>4, Owned

LEMMA AttachGoneKeeps == ASSUME Inv, More, NEW a \in Agents, AttachGone(a) PROVE More'
<1> DEFINE b == HuntOf(a).bot
<1>1. /\ HuntOf(a).pc = "gate" /\ HuntOf(a)' = NoJob /\ TaskOf(a)' = TaskOf(a) /\ Apart(a)
      /\ TaskOf(a).op \in {"none", "delete"} /\ ~Clash(a, b) /\ b \in Bots
  BY HuntPut DEF AttachGone, At, End, HuntOf, TaskOf, Busy, Op, Inv, More, Fine, Tasked, Leases
<1>2. /\ UNCHANGED <<row, state, box, copied, arch, called, adding, sweep>>
      /\ gap' = gap \cup {w \in {"gone"} : row[a] = b} \cup {w \in {"copy"} : b \in Copies}
      /\ queued' = [queued EXCEPT ![b] = IdleName(b, pool')]
      /\ \E p \in {Unused(a, b)} \cup {q \in {"free"} : pool[b] = "out"} : pool' = [pool EXCEPT ![b] = p]
  BY DEF AttachGone, HuntOf, self
<1>3. /\ pool' \in [Bots -> Agents \cup {"out", "free"}] /\ \A d \in Bots \ {b} : pool'[d] = pool[d]
      /\ \/ pool'[b] = pool[b]
         \/ pool'[b] = "free" /\ pool[b] \in {a, "out"}
      /\ pool'[b] # a
  <2>1. PICK p \in {Unused(a, b)} \cup {q \in {"free"} : pool[b] = "out"} :
          pool' = [pool EXCEPT ![b] = p]
    BY <1>2
  <2>2. p = Unused(a, b) \/ (p = "free" /\ pool[b] = "out")
    BY <2>1
  <2> QED BY <1>1, <2>1, <2>2, BoundsAssumption DEF Unused, Freed, More, Typing
<1>4. /\ queued' \in [Bots -> Names \cup {None}] /\ \A d \in Bots \ {b} : queued'[d] = queued[d]
      /\ pool'[b] \in Agents => queued'[b] = queued[b]
  BY <1>1, <1>2, BoundsAssumption DEF IdleName, Names, More, Typing
<1>5. \A c \in Agents \ {a} : row[c] # b
  <2> TAKE c \in Agents \ {a}
  <2>1. state[c] = "DELETED" => row[c] = None
    BY Known DEF Good
  <2> QED BY <1>1, <2>1, Known DEF Clash
<1>6. Own(a) /\ Typing'
  BY <1>1, <1>2, <1>3, <1>4, <1>5 DEF Own, More, Typing, Copies
<1>7. (copied[a] = b => "copy" \in gap') /\ (row[a] = b => "gone" \in gap')
  BY <1>2 DEF Copies
<1>8. Fine(a)'
  <2>0. Fine(a)
    BY Known
  <2>1. Tasked(a)'
    BY <1>1, Known DEF Fine, Tasked, Leases, NoJob
  <2>2. CutOff(a)'
    BY <1>1, <1>2, Known DEF Fine, CutOff
  <2>3. Going(a)'
    BY <1>1, <1>2, <1>3, Known DEF Fine, Going
  <2>4. RowHeld(a)'
    BY <1>1, <1>2, <1>3, <1>4, <1>7, <2>0 DEF Fine, RowHeld, Between, OfferedInAGap, Going,
         Tasked, CutOff, Good, After, GiveOps, NoJob
  <2>5. LeaseHeld(a)'
    BY <1>1, <1>2, <1>3, Known DEF Fine, LeaseHeld
  <2>6. CopyOut(a)'
    BY <1>1, <1>2, <1>7, Known DEF Fine, CopyOut, OfferedInAGap
  <2>7. Serves(a)'
    BY <1>1, <1>2, <1>3, Known DEF Fine, Serves, Misnamed
  <2> QED BY <2>1, <2>2, <2>3, <2>4, <2>5, <2>6, <2>7 DEF Fine
<1> QED BY <1>6, <1>8, Owned

LEMMA AttachedKeeps == ASSUME Inv, More, NEW a \in Agents, Attached(a) PROVE More'
<1> DEFINE b == HuntOf(a).bot
<1>1. /\ HuntOf(a).pc = "gate" /\ b \in Bots /\ row[a] = None /\ state[a] \in {"RUNNING", "STOPPED"}
      /\ TaskOf(a).op \in {"none", "delete"}
  BY DEF Attached, Refused, At, Busy, Op, HuntOf, TaskOf, More, Fine, Tasked, Leases
<1>2. /\ HuntOf(a)' = NoJob \/ (HuntOf(a)'.pc = "sync" /\ HuntOf(a)'.bot = b)
      /\ TaskOf(a)' = TaskOf(a) /\ Apart(a)
  <2>1. CASE Put(<<a, "attach">>, NoJob)
    <3>1. HuntOf(a)' = NoJob /\ TaskOf(a)' = TaskOf(a) /\ Apart(a)
      BY <2>1, HuntPut DEF Inv
    <3> QED BY <3>1
  <2>2. CASE Goto(<<a, "attach">>, "sync")
    BY <2>2, HuntGoto DEF Inv
  <2> QED BY <2>1, <2>2 DEF Attached, End
<1>3. /\ row' = [row EXCEPT ![a] = b] /\ gap' = (IF pool[b] \notin {a, "out"} THEN gap \cup {"added"} ELSE gap)
      /\ UNCHANGED <<pool, state, box, copied, arch, queued, called, adding, sweep>>
  BY DEF Attached, HuntOf, GapIf, names
<1>4. Own(a) /\ Typing'
  BY <1>2, <1>3 DEF Own, More, Typing, Inv, Shape
<1>5. Fine(a)'
  BY <1>1, <1>2, <1>3, Known DEF Fine, Tasked, CutOff, Going, RowHeld, Between, LeaseHeld,
       CopyOut, Serves, Misnamed, OfferedInAGap, Leases, Good, After, GiveOps, NoJob, Settled
<1> QED BY <1>4, <1>5, Owned

(* What a rename leaves of a bot's names.                                   *)
LEMMA RenameDoes ==
  ASSUME Typing, NEW a \in Agents, NEW b \in Bots, Rename(b, a)
  PROVE  /\ called' \in [Bots -> Names] /\ queued' \in [Bots -> Names \cup {None}]
         /\ \A d \in Bots \ {b} : called'[d] = called[d] /\ queued'[d] = queued[d]
         /\ \A g \in gap : g \in gap'
         /\ pool[b] # a => "late" \in gap'
         /\ \/ "late" \in gap' \/ "dead" \in gap'
            \/ a \in {called'[b], queued'[b]} /\ queued'[b] \in {None, a}
         /\ gap' \subseteq gap \cup {"late", "dead"}
BY DEF Rename, Answers, GapIf, Typing, Names

LEMMA AttachSyncsKeeps == ASSUME Inv, More, NEW a \in Agents, AttachSyncs(a) PROVE More'
<1> DEFINE b == HuntOf(a).bot
<1>1. /\ HuntOf(a).pc = "sync" /\ HuntOf(a)' = NoJob /\ TaskOf(a)' = TaskOf(a) /\ Apart(a)
      /\ b \in Bots /\ Rename(b, a) /\ Typing
  BY HuntPut DEF AttachSyncs, At, End, HuntOf, Inv, More, Fine, Tasked
<1>2. UNCHANGED <<pool, row, state, box, copied, arch, adding, sweep>>
  BY DEF AttachSyncs, self
<1>3. Own(a) /\ Typing'
  BY <1>1, <1>2, RenameDoes DEF Own, Typing
<1>4. Fine(a)'
  BY <1>1, <1>2, RenameDoes, Known DEF Fine, Tasked, CutOff, Going, RowHeld, Between, LeaseHeld,
       CopyOut, Serves, Misnamed, OfferedInAGap, Leases, NoJob, Settled
<1> QED BY <1>3, <1>4, Owned

LEMMA SetUpSyncsKeeps == ASSUME Inv, More, NEW a \in Agents, SetUpSyncs(a) PROVE More'
<1> DEFINE b == TaskOf(a).bot
<1>1. /\ TaskOf(a).pc = "sync" /\ HuntOf(a)' = HuntOf(a) /\ Apart(a)
      /\ TaskOf(a)'.op = TaskOf(a).op /\ TaskOf(a)'.pc = "boot" /\ TaskOf(a)'.bot = b
      /\ TaskOf(a)'.mine = TaskOf(a).mine /\ Rename(b, a) /\ Typing
  BY OpGoto DEF SetUpSyncs, At, TaskOf, Inv, More
<1>2. b \in Bots
  BY <1>1, Known DEF Fine, Tasked
<1>3. UNCHANGED <<pool, row, state, box, copied, arch, adding, sweep>>
  BY DEF SetUpSyncs, self
<1>4. Own(a) /\ Typing'
  BY <1>1, <1>2, <1>3, RenameDoes DEF Own, Typing
<1>5. Fine(a)'
  BY <1>1, <1>3, RenameDoes, Known DEF Fine, Tasked, CutOff, Going, RowHeld, Between, LeaseHeld,
       CopyOut, Serves, Misnamed, OfferedInAGap, Leases, Settled
<1> QED BY <1>4, <1>5, Owned

(* The provisioner's two steps for a bot it has leased.                     *)
LEMMA ParkKeeps == ASSUME Inv, More, NEW j \in Jobs, Park(j) PROVE More'
<1>1. PICK a \in Agents : j = <<a, "op">> \/ j = <<a, "attach">>
  BY DEF Jobs
<1>j. j[1] = a
  BY <1>1
<1> DEFINE b == job[j].bot
<1>2. /\ UNCHANGED <<pool, row, state, box, copied, arch, called, adding, sweep>>
      /\ queued' = [queued EXCEPT ![b] = IF pool[b] = "out" THEN @ ELSE a]
      /\ gap' = IF pool[b] # a THEN gap \cup {"late"} ELSE gap
  BY <1>j DEF Park, self, GapIf
<1>3. b \in Bots
  <2>1. Tasked(a) /\ job[j].pc = "drop"
    BY Known DEF Park, At, Fine
  <2>2. TaskOf(a).op = "swap" => TaskOf(a).bot \in Bots
    BY <2>1 DEF Tasked
  <2> QED BY <1>1, <2>1, <2>2 DEF Tasked, Leases, TaskOf, HuntOf
<1>4. /\ Apart(a)
      /\ \/ /\ TaskOf(a).pc = "drop" /\ TaskOf(a)'.pc = "name" /\ TaskOf(a)'.op = TaskOf(a).op
            /\ TaskOf(a)'.bot = TaskOf(a).bot /\ TaskOf(a)'.mine = TaskOf(a).mine
            /\ HuntOf(a)' = HuntOf(a) /\ TaskOf(a).bot = b
         \/ /\ HuntOf(a).pc = "drop" /\ HuntOf(a)'.pc = "name" /\ HuntOf(a)'.bot = HuntOf(a).bot
            /\ HuntOf(a).bot = b /\ TaskOf(a)' = TaskOf(a)
  <2>1. At(j, "drop") /\ Goto(j, "name")
    BY DEF Park
  <2> QED BY <1>1, <2>1, OpGoto, HuntGoto DEF At, TaskOf, HuntOf, Inv
<1>5. Own(a) /\ Typing'
  BY <1>2, <1>3, <1>4 DEF Own, More, Typing, Names
<1>6. HuntOf(a) # NoJob \/ TaskOf(a)'.pc = "name"
  BY <1>4 DEF NoJob
<1>s. Serves(a)'
  <2>1. CASE pool[b] # a \/ Misnamed
    BY <1>2, <2>1 DEF Serves, Misnamed
  <2>2. CASE pool[b] = a /\ ~Misnamed
    <3>1. queued' = [queued EXCEPT ![b] = a] /\ gap' = gap /\ DOMAIN queued = Bots
      BY <1>2, <2>2, Known, BoundsAssumption DEF More, Typing
    <3> QED BY <1>2, <1>3, <1>4, <2>2, <3>1, Known DEF Fine, Serves, Misnamed
  <2> QED BY <2>1, <2>2
<1>7. Fine(a)'
  BY <1>2, <1>4, <1>s, Known DEF Fine, Tasked, CutOff, Going, RowHeld, Between, LeaseHeld,
       CopyOut, OfferedInAGap, Leases, NoJob, Settled
<1> QED BY <1>5, <1>7, Owned

LEMMA NamedKeeps == ASSUME Inv, More, NEW j \in Jobs, Named(j) PROVE More'
<1>1. PICK a \in Agents : j = <<a, "op">> \/ j = <<a, "attach">>
  BY DEF Jobs
<1>j. j[1] = a
  BY <1>1
<1> DEFINE b == job[j].bot
<1>2. UNCHANGED <<pool, row, state, box, copied, arch, adding, sweep>> /\ Rename(b, a) /\ Typing
  BY <1>j DEF Named, self, More
<1>3. b \in Bots
  <2>1. Tasked(a) /\ job[j].pc = "name"
    BY Known DEF Named, At, Fine
  <2>2. TaskOf(a).op = "swap" => TaskOf(a).bot \in Bots
    BY <2>1 DEF Tasked
  <2> QED BY <1>1, <2>1, <2>2 DEF Tasked, Leases, TaskOf, HuntOf
<1>4. /\ Apart(a)
      /\ \/ /\ TaskOf(a).pc = "name" /\ TaskOf(a)'.pc = "gate" /\ TaskOf(a)'.op = TaskOf(a).op
            /\ TaskOf(a)'.bot = TaskOf(a).bot /\ TaskOf(a)'.mine = TaskOf(a).mine
            /\ HuntOf(a)' = HuntOf(a) /\ TaskOf(a).bot = b
         \/ /\ HuntOf(a).pc = "name" /\ HuntOf(a)'.pc = "gate" /\ HuntOf(a)'.bot = HuntOf(a).bot
            /\ HuntOf(a).bot = b /\ TaskOf(a)' = TaskOf(a)
  <2>1. At(j, "name") /\ Goto(j, "gate")
    BY DEF Named
  <2> QED BY <1>1, <2>1, OpGoto, HuntGoto DEF At, TaskOf, HuntOf, Inv
<1>5. Own(a) /\ Typing'
  BY <1>2, <1>3, <1>4, RenameDoes DEF Own, Typing
<1>6. HuntOf(a) # NoJob \/ TaskOf(a)'.pc = "gate"
  BY <1>4 DEF NoJob
<1>7. Fine(a)'
  BY <1>2, <1>4, RenameDoes, Known DEF Fine, Tasked, CutOff, Going, RowHeld, Between, LeaseHeld,
       CopyOut, Serves, Misnamed, OfferedInAGap, Leases, NoJob, Settled
<1> QED BY <1>5, <1>7, Owned

(* An operation that begins: nothing of the agent's was in hand.            *)
LEMMA Begun ==
  ASSUME Shape, NEW a \in Agents, NEW o, NEW p, Begin(a, o, p)
  PROVE  /\ TaskOf(a)'.op = o /\ TaskOf(a)'.pc = p /\ TaskOf(a)'.bot = None
         /\ ~TaskOf(a)'.mine /\ HuntOf(a)' = HuntOf(a) /\ Apart(a)
<1>1. TaskOf(a)' = [NoJob EXCEPT !.op = o, !.pc = p] /\ HuntOf(a)' = HuntOf(a) /\ Apart(a)
  BY OpPut DEF Begin
<1> QED BY <1>1 DEF NoJob

(* The operations that end a bot's service, up to the stop.                 *)
LEMMA DetachKeeps == ASSUME Inv, More, NEW a \in Agents, Detach(a) PROVE More'
<1>1. /\ TaskOf(a).op = "none" /\ arch[a].st = "none" /\ row[a] # None /\ Settled(a)
      /\ Begin(a, "detach", "stop")
  BY DEF Detach, Request, Op, TaskOf
<1>2. /\ TaskOf(a)'.op = "detach" /\ TaskOf(a)'.pc = "stop" /\ HuntOf(a)' = HuntOf(a) /\ Apart(a)
  BY <1>1, Begun DEF Inv
<1>3. UNCHANGED <<pool, queued, called, row, state, box, copied, arch, gap, adding, sweep>>
  BY DEF Detach, names, self
<1>4. Own(a) /\ Typing'
  BY <1>2, <1>3 DEF Own, More, Typing
<1>5. Fine(a)'
  BY <1>1, <1>2, <1>3, Known DEF Fine, Tasked, CutOff, Going, RowHeld, Between, LeaseHeld,
       CopyOut, Serves, Misnamed, OfferedInAGap, Leases
<1> QED BY <1>4, <1>5, Owned

LEMMA SwapKeeps == ASSUME Inv, More, NEW a \in Agents, Swap(a) PROVE More'
<1>1. /\ TaskOf(a).op = "none" /\ arch[a].st = "none" /\ row[a] # None /\ Settled(a)
  BY DEF Swap, Request, Op, TaskOf
<1>2. UNCHANGED <<queued, called, row, state, box, copied, arch, gap, adding, sweep>>
  BY DEF Swap, names, self
<1> DEFINE k(b) == [NoJob EXCEPT !.op = "swap", !.bot = b,
                                 !.pc = IF pool[b] = a THEN "gate" ELSE "drop"]
<1>3. PICK b \in Bots : /\ b # row[a] /\ pool[b] \in {a, "free"}
                        /\ pool' = [pool EXCEPT ![b] = a] /\ Put(<<a, "op">>, k(b))
  BY DEF Swap, Offer
<1>4. TaskOf(a)' = k(b) /\ HuntOf(a)' = HuntOf(a) /\ Apart(a)
  BY <1>3, OpPut DEF Inv
<1>5. /\ TaskOf(a)'.op = "swap" /\ TaskOf(a)'.bot = b
      /\ TaskOf(a)'.pc = (IF pool[b] = a THEN "gate" ELSE "drop")
  BY <1>4 DEF NoJob
<1> HIDE DEF k
<1>6. Own(a) /\ Typing'
  BY <1>2, <1>3, <1>4 DEF Own, More, Typing
<1>7. Settled(a)'
  BY <1>1, <1>2 DEF Settled
<1>8. Fine(a)'
  BY <1>1, <1>2, <1>3, <1>4, <1>5, <1>7, Known DEF Fine, Tasked, CutOff, Going, RowHeld, Between,
       LeaseHeld, CopyOut, Serves, Misnamed, OfferedInAGap, Leases
<1> QED BY <1>6, <1>8, Owned

(* A lease that came to nothing, given back.                               *)
LEMMA GivenBack ==
  ASSUME More, NEW a \in Agents, NEW b \in Bots, pool[b] = a,
         pool' = [pool EXCEPT ![b] = Unused(a, b)],
         queued' = [queued EXCEPT ![b] = IdleName(b, pool')]
  PROVE  /\ pool'[b] = "free" /\ \A d \in Bots \ {b} : pool'[d] = pool[d] /\ queued'[d] = queued[d]
         /\ pool' \in [Bots -> Agents \cup {"out", "free"}] /\ queued' \in [Bots -> Names \cup {None}]
BY DEF Unused, Freed, IdleName, More, Typing, Names

LEMMA SwapGateKeeps == ASSUME Inv, More, NEW a \in Agents, SwapGate(a) PROVE More'
<1> DEFINE b == TaskOf(a).bot
<1>1. /\ TaskOf(a).op = "swap" /\ TaskOf(a).pc = "gate"
      /\ b \in Bots /\ pool[b] = a /\ row[a] # b /\ Settled(a)
      /\ UNCHANGED <<called, row, state, box, copied, arch, gap, adding, sweep>>
  BY DEF SwapGate, Op, At, TaskOf, self, More, Fine, Tasked
<1>2. CASE Clash(a, b)
  <2>1. /\ TaskOf(a)' = NoJob /\ HuntOf(a)' = HuntOf(a) /\ Apart(a)
        /\ pool' = [pool EXCEPT ![b] = Unused(a, b)]
        /\ queued' = [queued EXCEPT ![b] = IdleName(b, pool')]
    BY <1>2, OpPut DEF SwapGate, End, TaskOf, Inv
  <2>2. /\ pool'[b] = "free" /\ \A d \in Bots \ {b} : pool'[d] = pool[d] /\ queued'[d] = queued[d]
        /\ pool' \in [Bots -> Agents \cup {"out", "free"}] /\ queued' \in [Bots -> Names \cup {None}]
    BY <1>1, <2>1, GivenBack
  <2>3. Own(a) /\ Typing'
    BY <1>1, <2>1, <2>2, BoundsAssumption DEF Own, More, Typing
  <2>4. Fine(a)'
    BY <1>1, <2>1, <2>2, Known DEF Fine, Tasked, CutOff, Going, RowHeld, Between, LeaseHeld,
         CopyOut, Serves, Misnamed, OfferedInAGap, Leases, NoJob
  <2> QED BY <2>3, <2>4, Owned
<1>3. CASE ~Clash(a, b)
  <2>1. Goto(<<a, "op">>, "stop") /\ UNCHANGED <<pool, queued>>
    BY <1>3 DEF SwapGate, TaskOf
  <2>2. /\ TaskOf(a)'.op = "swap" /\ TaskOf(a)'.pc = "stop" /\ TaskOf(a)'.bot = b
        /\ HuntOf(a)' = HuntOf(a) /\ Apart(a)
    BY <1>1, <2>1, OpGoto DEF Inv
  <2>3. Own(a) /\ Typing'
    BY <1>1, <2>1, <2>2 DEF Own, More, Typing
  <2>4. Fine(a)'
    BY <1>1, <2>1, <2>2, Known DEF Fine, Tasked, CutOff, Going, RowHeld, Between, LeaseHeld,
         CopyOut, Serves, Misnamed, OfferedInAGap, Settled
  <2> QED BY <2>3, <2>4, Owned
<1> QED BY <1>2, <1>3

LEMMA ArchiveKeeps == ASSUME Inv, More, NEW a \in Agents, Archive(a) PROVE More'
<1>1. /\ TaskOf(a).op = "none" /\ arch[a].st = "none" /\ Begin(a, "archive", "stop")
  BY DEF Archive, Request, Op, TaskOf
<1>2. /\ TaskOf(a)'.op = "archive" /\ TaskOf(a)'.pc = "stop" /\ HuntOf(a)' = HuntOf(a) /\ Apart(a)
  BY <1>1, Begun DEF Inv
<1>3. /\ UNCHANGED <<pool, queued, called, row, state, box, copied, gap, adding, sweep>>
      /\ arch' = [arch EXCEPT ![a] = [NoArchive EXCEPT !.st = "begun", !.bot = row[a],
                                                       !.was = (state[a] = "RUNNING")]]
  BY DEF Archive, names
<1>4. arch'[a].st = "begun" /\ arch'[a].bot = row[a]
  BY <1>3 DEF NoArchive, Inv, Shape
<1>5. Own(a) /\ Typing'
  BY <1>2, <1>3 DEF Own, More, Typing, Inv, Shape
<1>6. UNCHANGED <<pool, queued, called, row, state, box, copied, gap, adding, sweep>>
  BY <1>3
<1>7. Fine(a)'
  BY <1>1, <1>2, <1>4, <1>6, Known DEF Fine, Tasked, CutOff, Going, RowHeld, Between, LeaseHeld,
       CopyOut, Serves, Misnamed, OfferedInAGap, Leases, After
<1> QED BY <1>5, <1>7, Owned

LEMMA DeleteKeeps == ASSUME Inv, More, NEW a \in Agents, Delete(a) PROVE More'
<1>1. /\ TaskOf(a).op = "none" /\ arch[a].st = "none" /\ Begin(a, "delete", "stop")
  BY DEF Delete, Request, Op, TaskOf
<1>2. /\ TaskOf(a)'.op = "delete" /\ TaskOf(a)'.pc = "stop" /\ HuntOf(a)' = HuntOf(a) /\ Apart(a)
  BY <1>1, Begun DEF Inv
<1>3. /\ UNCHANGED <<pool, queued, called, row, box, copied, arch, gap, adding, sweep>>
      /\ state' = [state EXCEPT ![a] = "DELETING"]
  BY DEF Delete, Become, names
<1>5. Own(a) /\ Typing'
  BY <1>2, <1>3 DEF Own, More, Typing, Inv, Shape
<1>7. Fine(a)'
  BY <1>1, <1>2, <1>3, Known DEF Fine, Tasked, CutOff, Going, RowHeld, Between, LeaseHeld,
       CopyOut, Serves, Misnamed, OfferedInAGap, Leases
<1> QED BY <1>5, <1>7, Owned

LEMMA DownKeeps == ASSUME Inv, More, NEW a \in Agents, Down(a) PROVE More'
<1>1. /\ TaskOf(a).pc = "stop" /\ TaskOf(a).op \in GiveOps
      /\ TaskOf(a)'.op = TaskOf(a).op /\ TaskOf(a)'.pc = "give" /\ TaskOf(a)'.bot = TaskOf(a).bot
      /\ TaskOf(a)'.mine = TaskOf(a).mine /\ HuntOf(a)' = HuntOf(a) /\ Apart(a)
  BY OpGoto, Known DEF Down, At, TaskOf, Inv, Good
<1>2. /\ UNCHANGED <<pool, queued, called, row, copied, gap, adding, sweep>>
      /\ box' = [box EXCEPT ![a].up = FALSE]
      /\ state' = IF TaskOf(a).op \in {"detach", "swap"} THEN [state EXCEPT ![a] = "STOPPED"] ELSE state
  BY DEF Down, Become, names, Op, TaskOf
<1>3. /\ TaskOf(a).op # "archive" => arch' = arch
      /\ TaskOf(a).op = "archive" =>
           arch' = [arch EXCEPT ![a].st = "stopped", ![a].copy = (row[a] # None /\ CopyElsewhere(a))]
  BY DEF Down, Op, TaskOf
<1>4. /\ ~box'[a].up /\ \A c \in Agents \ {a} : box'[c] = box[c]
      /\ TaskOf(a).op = "archive" => /\ arch'[a].st = "stopped" /\ arch'[a].bot = arch[a].bot
                                     /\ arch'[a].copy = (row[a] # None /\ CopyElsewhere(a))
      /\ TaskOf(a).op # "archive" => arch' = arch
      /\ \A c \in Agents \ {a} : arch'[c] = arch[c]
  BY <1>2, <1>3, Records DEF Inv, Shape, BoxRec, ArchRec
<1>5. Own(a) /\ Typing'
  BY <1>1, <1>2, <1>4 DEF Own, More, Typing, Inv, Shape
<1>6. /\ state'[a] \in {state[a], "STOPPED"}
      /\ UNCHANGED <<pool, queued, called, row, copied, gap, adding, sweep>>
  BY <1>2 DEF Inv, Shape
<1>7. /\ TaskOf(a).op = "archive" /\ copied'[a] # None /\ row[a] # None => arch'[a].copy
      /\ Settled(a) => Settled(a)'
  BY <1>4, <1>6, Known DEF Fine, CopyOut, CopyElsewhere, Settled
<1>8. Fine(a)'
  <2>0. Fine(a)
    BY Known
  <2>1. Tasked(a)'
    BY <1>1, <1>6, <1>7, Known DEF Fine, Tasked, Leases
  <2>2. CutOff(a)'
    BY <1>1, <1>4, <1>6, Known DEF Fine, CutOff, Good
  <2>3. Going(a)'
    BY <1>1, <1>4, <1>6, Known DEF Fine, Going
  <2>4. RowHeld(a)'
    BY <1>1, <1>4, <1>6, Known DEF Fine, RowHeld, Between, OfferedInAGap
  <2>5. LeaseHeld(a)'
    BY <1>1, <1>6, Known DEF Fine, LeaseHeld, Leases
  <2>6. CopyOut(a)'
    BY <1>1, <1>6, <1>7, Known DEF Fine, CopyOut, OfferedInAGap
  <2>7. Serves(a)'
    BY <1>1, <1>6, Known DEF Fine, Serves, Misnamed
  <2> QED BY <2>1, <2>2, <2>3, <2>4, <2>5, <2>6, <2>7 DEF Fine
<1> QED BY <1>5, <1>8, Owned

LEMMA StaysUpKeeps == ASSUME Inv, More, NEW a \in Agents, StaysUp(a) PROVE More'
<1> DEFINE b == TaskOf(a).bot
<1>1. /\ TaskOf(a).pc = "stop" /\ TaskOf(a).op \in GiveOps
      /\ TaskOf(a)' = NoJob /\ HuntOf(a)' = HuntOf(a) /\ Apart(a)
  BY OpPut, Known DEF StaysUp, At, End, TaskOf, Inv, Good
<1>2. UNCHANGED <<called, row, box, copied, gap, adding, sweep>>
  BY DEF StaysUp, Become
<1>3. /\ TaskOf(a).op = "resume" => arch' = [arch EXCEPT ![a] = [@ EXCEPT !.held = TRUE]]
      /\ TaskOf(a).op # "resume" => arch' = [arch EXCEPT ![a] = NoArchive]
      /\ state' = IF TaskOf(a).op = "delete" THEN [state EXCEPT ![a] = "FAILED"] ELSE state
  BY DEF StaysUp, Become, Op, TaskOf
<1>4. /\ TaskOf(a).op = "resume" => arch'[a].st = arch[a].st /\ arch'[a].bot = arch[a].bot
                                    /\ arch'[a].copy = arch[a].copy
      /\ TaskOf(a).op # "resume" => arch'[a].st = "none"
      /\ state'[a] \in {state[a], "FAILED"}
      /\ \A c \in Agents \ {a} : arch'[c] = arch[c] /\ state'[c] = state[c]
  BY <1>3, Records DEF Inv, Shape, ArchRec, NoArchive
<1>5. /\ TaskOf(a).op # "swap" => UNCHANGED <<pool, queued>>
      /\ TaskOf(a).op = "swap" => /\ pool' = [pool EXCEPT ![b] = Unused(a, b)]
                                  /\ queued' = [queued EXCEPT ![b] = IdleName(b, pool')]
  BY DEF StaysUp, Op, TaskOf
<1>6. /\ TaskOf(a).op = "swap" => /\ b \in Bots /\ pool[b] = a /\ row[a] # b /\ pool'[b] = "free"
                                  /\ \A d \in Bots \ {b} : pool'[d] = pool[d] /\ queued'[d] = queued[d]
      /\ pool' \in [Bots -> Agents \cup {"out", "free"}] /\ queued' \in [Bots -> Names \cup {None}]
  <2>1. CASE TaskOf(a).op = "swap"
    <3>1. b \in Bots /\ pool[b] = a /\ row[a] # b
      BY <2>1 DEF More, Fine, Tasked
    <3> QED BY <2>1, <3>1, <1>5, GivenBack
  <2>2. CASE TaskOf(a).op # "swap"
    BY <2>2, <1>5 DEF More, Typing
  <2> QED BY <2>1, <2>2
<1>7. Own(a) /\ Typing'
  BY <1>1, <1>2, <1>4, <1>5, <1>6, BoundsAssumption DEF Own, More, Typing
<1>8. TaskOf(a).op # "swap" => UNCHANGED <<pool, queued>>
  BY <1>5
<1>9. Fine(a)'
  <2>0. Fine(a)
    BY Known
  <2>1. Tasked(a)'
    BY <1>1, Known DEF Fine, Tasked, Leases, NoJob
  <2>2. CutOff(a)'
    BY <1>1, <1>2, <1>4, Known DEF Fine, CutOff
  <2>3. Going(a)'
    BY <1>1 DEF Fine, Going, NoJob
  <2>4. RowHeld(a)'
    BY <1>1, <1>2, <1>4, <1>6, <1>8, Known DEF Fine, RowHeld, Between, OfferedInAGap, Good,
         GiveOps, NoJob
  <2>5. LeaseHeld(a)'
    BY <1>1, <1>2, <1>6, <1>8, Known DEF Fine, LeaseHeld, Leases
  <2>6. CopyOut(a)'
    BY <1>1, <1>2, <1>4, <1>6, <1>8, Known DEF Fine, CopyOut, OfferedInAGap, NoJob
  <2>7. Serves(a)'
    BY <1>1, <1>2, <1>6, <1>8, Known DEF Fine, Serves, Misnamed
  <2> QED BY <2>1, <2>2, <2>3, <2>4, <2>5, <2>6, <2>7 DEF Fine
<1> QED BY <1>7, <1>9, Owned

(* What a task that gives its bot up knows: which it is, and that the       *)
(* container is down.                                                       *)
LEMMA GiverIs ==
  ASSUME Inv, More, NEW a \in Agents, TaskOf(a).pc \in After
  PROVE  TaskOf(a).op \in GiveOps /\ ~box[a].up
BY Known DEF Good

LEMMA NoBotKeeps == ASSUME Inv, More, NEW a \in Agents, NoBot(a) PROVE More'
<1>1. /\ TaskOf(a).pc = "give"
      /\ row[a] = None \/ (TaskOf(a).op = "resume" /\ ~arch[a].copy)
      /\ TaskOf(a)'.op = TaskOf(a).op /\ TaskOf(a)'.pc = "left" /\ TaskOf(a)'.bot = TaskOf(a).bot
      /\ TaskOf(a)'.mine = TaskOf(a).mine /\ HuntOf(a)' = HuntOf(a) /\ Apart(a)
  BY OpGoto DEF NoBot, Giving, At, Op, TaskOf, Inv
<1>2. UNCHANGED <<pool, queued, called, row, state, box, copied, arch, gap, adding, sweep>>
  BY DEF NoBot, names, self
<1>3. Own(a) /\ Typing'
  BY <1>1, <1>2 DEF Own, More, Typing
<1>4. TaskOf(a).op \in GiveOps /\ ~box[a].up
  BY <1>1, GiverIs DEF After
<1>5. Fine(a)'
  <2>0. Fine(a)
    BY Known
  <2>1. Tasked(a)'
    BY <1>1, Known DEF Fine, Tasked, Leases
  <2>2. CutOff(a)'
    BY <1>1, <1>2, Known DEF Fine, CutOff
  <2>3. Going(a)'
    BY <1>1, <1>2, Known DEF Fine, Going
  <2>4. RowHeld(a)'
    BY <1>1, <1>2, Known DEF Fine, RowHeld, Between, OfferedInAGap
  <2>5. LeaseHeld(a)'
    BY <1>1, <1>2, Known DEF Fine, LeaseHeld, Leases
  <2>6. CopyOut(a)'
    BY <1>1, <1>2, Known DEF Fine, CopyOut, OfferedInAGap
  <2>7. Serves(a)'
    BY <1>1, <1>2, Known DEF Fine, Serves, Misnamed
  <2> QED BY <2>1, <2>2, <2>3, <2>4, <2>5, <2>6, <2>7 DEF Fine
<1> QED BY <1>3, <1>5, Owned

LEMMA LeaveToCopyKeeps == ASSUME Inv, More, NEW a \in Agents, LeaveToCopy(a) PROVE More'
<1> DEFINE b == row[a]
<1>1. /\ TaskOf(a).pc = "give" /\ b # None
      /\ (TaskOf(a).op \in {"archive", "resume"} /\ arch[a].copy) \/ TaskOf(a).op = "delete"
      /\ TaskOf(a)'.op = TaskOf(a).op /\ TaskOf(a)'.pc = "left" /\ TaskOf(a)'.bot = TaskOf(a).bot
      /\ TaskOf(a)'.mine = TaskOf(a).mine /\ HuntOf(a)' = HuntOf(a) /\ Apart(a)
  BY OpGoto DEF LeaveToCopy, Giving, ToCopy, At, Op, TaskOf, Inv
<1>2. UNCHANGED <<called, row, state, box, copied, arch, gap, adding, sweep>>
  BY DEF LeaveToCopy, self
<1>3. /\ pool' \in [Bots -> Agents \cup {"out", "free"}] /\ queued' \in [Bots -> Names \cup {None}]
      /\ \A d \in Bots \ {b} : pool'[d] = pool[d] /\ queued'[d] = queued[d]
      /\ \/ pool[b] \in {a, "free"} /\ pool'[b] = "out"
         \/ pool[b] \notin {a, "free"} /\ pool'[b] = pool[b] /\ queued'[b] = queued[b]
      /\ b \in Bots
  BY <1>1, Known DEF LeaveToCopy, More, Typing
<1>4. Own(a) /\ Typing'
  BY <1>1, <1>2, <1>3, BoundsAssumption DEF Own, More, Typing
<1>5. TaskOf(a).op \in GiveOps /\ ~box[a].up
  BY <1>1, GiverIs DEF After
<1>6. Fine(a)'
  <2>0. Fine(a)
    BY Known
  <2>1. Tasked(a)'
    BY <1>1, Known DEF Fine, Tasked, Leases
  <2>2. CutOff(a)'
    BY <1>1, <1>2, Known DEF Fine, CutOff
  <2>3. Going(a)'
    BY <1>1, <1>2, <1>3, Known DEF Fine, Going
  <2>4. RowHeld(a)'
    BY <1>1, <1>2, <1>3, Known DEF Fine, RowHeld, Between, OfferedInAGap
  <2>5. LeaseHeld(a)'
    BY <1>1, <1>2, <1>3, Known DEF Fine, LeaseHeld
  <2>6. CopyOut(a)'
    BY <1>1, <1>2, <1>3, Known DEF Fine, CopyOut, OfferedInAGap
  <2>7. Serves(a)'
    BY <1>1, <1>2, <1>3, Known DEF Fine, Serves, Misnamed
  <2> QED BY <2>1, <2>2, <2>3, <2>4, <2>5, <2>6, <2>7 DEF Fine
<1> QED BY <1>4, <1>6, Owned

(* No one asked for a copy, and a gap says so if there is one.             *)
LEMMA Asks ==
  ASSUME More, NEW a \in Agents, ~ToCopy(a), TaskOf(a).pc = "give", row[a] # None, TaskOf(a).op # "resume",
         gap' = IF Unasked(a, row[a]) THEN gap \cup {"copy"} ELSE gap
  PROVE  /\ TaskOf(a).op \in {"archive", "delete"} => copied[a] = None
         /\ TaskOf(a).op \in {"detach", "swap"} /\ copied[a] = row[a] => "copy" \in gap'
         /\ \A c \in Agents \ {a} : copied[c] = row[a] => "copy" \in gap'
BY DEF More, Fine, CopyOut, ToCopy, CopyElsewhere, Unasked, Op, TaskOf, After

LEMMA RecycleKeeps == ASSUME Inv, More, NEW a \in Agents, Recycle(a) PROVE More'
<1> DEFINE b == row[a]
<1>1. /\ TaskOf(a).pc = "give" /\ b # None /\ TaskOf(a).op # "resume" /\ pool[b] = "out" /\ ~ToCopy(a)
      /\ TaskOf(a)'.op = TaskOf(a).op /\ TaskOf(a)'.pc = "release" /\ TaskOf(a)'.bot = TaskOf(a).bot
      /\ TaskOf(a)'.mine = TaskOf(a).mine /\ HuntOf(a)' = HuntOf(a) /\ Apart(a)
  BY OpGoto DEF Recycle, Giving, At, Op, TaskOf, Inv
<1>2. /\ UNCHANGED <<queued, called, row, state, box, copied, arch, adding, sweep>>
      /\ gap' = IF Unasked(a, row[a]) THEN gap \cup {"copy"} ELSE gap
      /\ \E p \in {"free", "out"} : pool' = [pool EXCEPT ![b] = p]
  BY DEF Recycle, self, names, GapIf
<1>3. /\ pool' \in [Bots -> Agents \cup {"out", "free"}] /\ b \in Bots
      /\ pool'[b] \in {"free", "out"} /\ \A d \in Bots \ {b} : pool'[d] = pool[d]
  BY <1>1, <1>2, Known DEF More, Typing
<1>4. /\ TaskOf(a).op \in {"archive", "delete"} => copied[a] = None
      /\ TaskOf(a).op \in {"detach", "swap"} /\ copied[a] = row[a] => "copy" \in gap'
      /\ \A c \in Agents \ {a} : copied[c] = row[a] => "copy" \in gap'
      /\ \A g \in gap : g \in gap'
  BY <1>1, <1>2, Asks
<1>5. \A c \in Agents \ {a} : row[c] # b
  BY <1>1 DEF Inv, OneRow
<1>6. Own(a) /\ Typing'
  BY <1>1, <1>2, <1>3, <1>4, <1>5, BoundsAssumption DEF Own, More, Typing
<1>7. TaskOf(a).op \in GiveOps /\ ~box[a].up
  BY <1>1, GiverIs DEF After
<1>8. UNCHANGED <<queued, called, row, state, box, copied, arch, adding, sweep>>
  BY <1>2
<1>9. Fine(a)'
  <2>0. Fine(a)
    BY Known
  <2>1. Tasked(a)'
    BY <1>1, <1>3, <1>8, Known DEF Fine, Tasked, Leases, Settled
  <2>2. CutOff(a)'
    BY <1>1, <1>8, Known DEF Fine, CutOff
  <2>3. Going(a)'
    BY <1>1, <1>7, <1>8 DEF Fine, Going, GiveOps
  <2>4. RowHeld(a)'
    BY <1>1, <1>7, <1>8 DEF Fine, RowHeld, Between
  <2>5. LeaseHeld(a)'
    BY <1>1, <1>3, <1>4, Known DEF Fine, LeaseHeld, Leases
  <2>6. CopyOut(a)'
    BY <1>1, <1>3, <1>4, <1>7, <1>8, Known DEF Fine, CopyOut, OfferedInAGap, GiveOps
  <2>7. Serves(a)'
    BY <1>1, <1>3, <1>4, <1>8, Known DEF Fine, Serves, Misnamed
  <2> QED BY <2>1, <2>2, <2>3, <2>4, <2>5, <2>6, <2>7 DEF Fine
<1> QED BY <1>6, <1>9, Owned

LEMMA ReleasedKeeps == ASSUME Inv, More, NEW a \in Agents, Released(a) PROVE More'
<1> DEFINE b == row[a]
<1>1. /\ \/ TaskOf(a).pc = "release"
         \/ TaskOf(a).pc = "give" /\ b # None /\ TaskOf(a).op # "resume" /\ ~ToCopy(a)
      /\ TaskOf(a)'.op = TaskOf(a).op /\ TaskOf(a)'.pc = "goodbye" /\ TaskOf(a)'.bot = TaskOf(a).bot
      /\ TaskOf(a)'.mine = TaskOf(a).mine /\ HuntOf(a)' = HuntOf(a) /\ Apart(a)
  BY OpGoto DEF Released, Giving, At, Op, TaskOf, Inv
<1>2. /\ UNCHANGED <<queued, called, row, state, box, copied, arch, adding, sweep>>
      /\ gap' = IF Unasked(a, b) THEN gap \cup {"copy"} ELSE gap
      /\ pool' = [pool EXCEPT ![b] = Freed(a, b)]
  BY DEF Released, Release, self, names, GapIf
<1>3. TaskOf(a).op \in GiveOps /\ ~box[a].up
  BY <1>1, GiverIs DEF After
<1>4. b \in Bots /\ TaskOf(a).op \in {"detach", "swap", "archive", "delete"}
  BY <1>1, <1>3, Known DEF Fine, Going, GiveOps
<1>5. /\ pool' \in [Bots -> Agents \cup {"out", "free"}]
      /\ pool'[b] = (IF pool[b] = a THEN "free" ELSE pool[b]) /\ \A d \in Bots \ {b} : pool'[d] = pool[d]
  BY <1>2, <1>4 DEF More, Typing, Freed
<1>6. /\ TaskOf(a).op \in {"archive", "delete"} => copied[a] = None
      /\ TaskOf(a).op \in {"detach", "swap"} /\ copied[a] = row[a] => "copy" \in gap'
      /\ \A g \in gap : g \in gap'
  <2>1. CASE TaskOf(a).pc = "release"
    BY <1>2, <1>4, <2>1, Known DEF Fine, CopyOut, Unasked, Op, TaskOf
  <2>2. CASE TaskOf(a).pc # "release"
    BY <1>1, <1>2, <2>2, Asks
  <2> QED BY <2>1, <2>2
<1>7. Own(a) /\ Typing'
  BY <1>1, <1>2, <1>5, <1>6, BoundsAssumption DEF Own, More, Typing
<1>8. UNCHANGED <<queued, called, row, state, box, copied, arch, adding, sweep>>
  BY <1>2
<1>9. Fine(a)'
  <2>0. Fine(a)
    BY Known
  <2>1. Tasked(a)'
    BY <1>1, <1>5, <1>8, Known DEF Fine, Tasked, Leases, Settled
  <2>2. CutOff(a)'
    BY <1>1, <1>8, Known DEF Fine, CutOff
  <2>3. Going(a)'
    BY <1>1, <1>4, <1>5, <1>8, Known DEF Fine, Going
  <2>4. RowHeld(a)'
    BY <1>1, <1>3, <1>8 DEF Fine, RowHeld, Between
  <2>5. LeaseHeld(a)'
    BY <1>1, <1>4, <1>5, <1>6, Known DEF Fine, LeaseHeld
  <2>6. CopyOut(a)'
    BY <1>1, <1>4, <1>5, <1>6, <1>8, Known DEF Fine, CopyOut, OfferedInAGap
  <2>7. Serves(a)'
    BY <1>1, <1>5, <1>6, <1>8, Known DEF Fine, Serves, Misnamed
  <2> QED BY <2>1, <2>2, <2>3, <2>4, <2>5, <2>6, <2>7 DEF Fine
<1> QED BY <1>7, <1>9, Owned

LEMMA LeftKeeps == ASSUME Inv, More, NEW a \in Agents, Left(a) PROVE More'
<1> DEFINE b == row[a]
<1>1. /\ TaskOf(a).pc \in {"goodbye", "left"}
      /\ \/ TaskOf(a)' = NoJob /\ TaskOf(a).op \notin {"archive", "resume", "delete"}
         \/ /\ TaskOf(a)'.op = TaskOf(a).op /\ TaskOf(a)'.pc = "last" /\ TaskOf(a)'.bot = TaskOf(a).bot
            /\ TaskOf(a)'.mine = TaskOf(a).mine /\ TaskOf(a).op \in {"archive", "resume", "delete"}
      /\ HuntOf(a)' = HuntOf(a) /\ Apart(a)
  BY OpGoto, OpPut DEF Left, At, Op, End, TaskOf, Inv
<1>2. TaskOf(a).op \in GiveOps /\ ~box[a].up
  BY <1>1, GiverIs DEF After
<1>3. /\ UNCHANGED <<pool, called, state, box, copied, adding, sweep>>
      /\ queued' = IF TaskOf(a).pc = "goodbye" THEN [queued EXCEPT ![b] = IdleName(b, pool)] ELSE queued
      /\ gap' = IF TaskOf(a).op = "swap" /\ Taken(a) THEN gap \cup {"added"} ELSE gap
      /\ arch' = IF TaskOf(a).op = "archive" THEN [arch EXCEPT ![a].st = "released"] ELSE arch
      /\ row' = [row EXCEPT ![a] = IF TaskOf(a).op # "swap" THEN None
                                   ELSE IF Taken(a) THEN b ELSE TaskOf(a).bot]
  BY DEF Left, At, Op, GapIf, TaskOf
<1>4. /\ \A d \in Bots : pool[d] # "free" => queued'[d] = queued[d]
      /\ queued' \in [Bots -> Names \cup {None}] /\ \A g \in gap : g \in gap'
  BY <1>3 DEF IdleName, More, Typing, Names
<1>5. /\ TaskOf(a).op # "archive" => arch' = arch
      /\ TaskOf(a).op = "archive" => /\ arch'[a].st = "released" /\ arch'[a].bot = arch[a].bot
                                     /\ arch'[a].copy = arch[a].copy
      /\ \A c \in Agents \ {a} : arch'[c] = arch[c] /\ row'[c] = row[c]
  BY <1>3, Records DEF Inv, Shape, ArchRec
<1>6. /\ TaskOf(a).op # "swap" => row'[a] = None
      /\ TaskOf(a).op = "swap" => row'[a] = TaskOf(a).bot \/ (row'[a] = b /\ "added" \in gap')
  BY <1>3 DEF Inv, Shape
<1>7. Own(a) /\ Typing'
  BY <1>1, <1>3, <1>4, <1>5, BoundsAssumption DEF Own, More, Typing
<1>8. /\ UNCHANGED <<pool, called, state, box, copied, adding, sweep>>
      /\ b # None => pool[b] # a
  BY <1>1, <1>3, Known DEF Fine, Going
<1>9. Fine(a)'
  <2>0. Fine(a)
    BY Known
  <2>1. Tasked(a)'
    BY <1>1, Known DEF Fine, Tasked, Leases, NoJob
  <2>2. CutOff(a)'
    BY <1>1, <1>2, <1>5, <1>6, Known DEF Fine, CutOff, Good, GiveOps
  <2>3. Going(a)'
    BY <1>1 DEF Fine, Going, NoJob
  <2>4. RowHeld(a)'
    BY <1>6, <1>8, Known DEF Fine, RowHeld, OfferedInAGap, Tasked
  <2>5. LeaseHeld(a)'
    BY <1>1, <1>4, <1>6, <1>8, Known DEF Fine, LeaseHeld, Leases
  <2>6. CopyOut(a)'
    BY <1>1, <1>4, <1>6, <1>8, Known DEF Fine, CopyOut, OfferedInAGap, NoJob
  <2>7. Serves(a)'
    BY <1>1, <1>4, <1>8, Known DEF Fine, Serves, Misnamed
  <2> QED BY <2>1, <2>2, <2>3, <2>4, <2>5, <2>6, <2>7 DEF Fine
<1> QED BY <1>7, <1>9, Owned

LEMMA GoneKeeps == ASSUME Inv, More, NEW a \in Agents, Gone(a) PROVE More'
<1>1. /\ TaskOf(a).pc = "last" /\ TaskOf(a)' = NoJob /\ HuntOf(a)' = HuntOf(a) /\ Apart(a)
      /\ row[a] = None
  BY OpPut, Known DEF Gone, At, End, TaskOf, Inv, Good
<1>2. /\ UNCHANGED <<pool, queued, called, row, box, copied, gap, adding, sweep>>
      /\ arch' = [arch EXCEPT ![a] = NoArchive]
      /\ \E s \in {"DELETED", "ARCHIVED", "FAILED"} : state' = [state EXCEPT ![a] = s]
  BY DEF Gone, Become, names
<1>3. arch'[a].st = "none" /\ state'[a] \in {"DELETED", "ARCHIVED", "FAILED"}
  BY <1>2 DEF NoArchive, Inv, Shape
<1>4. Own(a) /\ Typing'
  BY <1>1, <1>2 DEF Own, More, Typing, Inv, Shape
<1>5. UNCHANGED <<pool, queued, called, row, box, copied, gap, adding, sweep>>
  BY <1>2
<1>6. Fine(a)'
  <2>0. Fine(a)
    BY Known
  <2>1. Tasked(a)'
    BY <1>1, Known DEF Fine, Tasked, Leases, NoJob
  <2>2. CutOff(a)'
    BY <1>3 DEF Fine, CutOff
  <2>3. Going(a)'
    BY <1>1 DEF Fine, Going, NoJob
  <2>4. RowHeld(a)'
    BY <1>1, <1>5 DEF Fine, RowHeld
  <2>5. LeaseHeld(a)'
    BY <1>1, <1>5, Known DEF Fine, LeaseHeld, Tasked, Leases
  <2>6. CopyOut(a)'
    BY <1>1, <1>3, <1>5, Known DEF Fine, CopyOut, OfferedInAGap, NoJob
  <2>7. Serves(a)'
    BY <1>1, <1>5, Known DEF Fine, Serves, Misnamed
  <2> QED BY <2>1, <2>2, <2>3, <2>4, <2>5, <2>6, <2>7 DEF Fine
<1> QED BY <1>4, <1>6, Owned

(* The others: start, stop, download, and the resumes after a restart.      *)
LEMMA BootKeeps == ASSUME Inv, More, NEW a \in Agents, Boot(a) PROVE More'
<1>1. /\ TaskOf(a).op = "none" /\ arch[a].st = "none"
      /\ state' = [state EXCEPT ![a] = "RUNNING"] /\ copied' = [copied EXCEPT ![a] = None]
      /\ box' = [box EXCEPT ![a] = [up |-> TRUE, bot |-> row[a]]]
      /\ UNCHANGED <<job, pool, queued, called, row, arch, gap, adding, sweep>>
  BY DEF Boot, Request, Op, TaskOf, Become, names, proc
<1>2. TaskOf(a)' = TaskOf(a) /\ HuntOf(a)' = HuntOf(a) /\ Apart(a)
  BY <1>1, Untasked DEF Apart, Inv
<1>3. Own(a) /\ Typing'
  BY <1>1, <1>2 DEF Own, More, Typing, Inv, Shape
<1>4. Fine(a)'
  BY <1>1, <1>2, Known DEF Fine, Tasked, CutOff, Going, RowHeld, Between, LeaseHeld, CopyOut,
       Serves, Misnamed, OfferedInAGap
<1> QED BY <1>3, <1>4, Owned

LEMMA StopKeeps == ASSUME Inv, More, NEW a \in Agents, Stop(a) PROVE More'
<1>1. /\ TaskOf(a).op = "none" /\ arch[a].st = "none"
      /\ state' = [state EXCEPT ![a] = "STOPPED"] /\ copied' = copied
      /\ box' = [box EXCEPT ![a].up = FALSE]
      /\ UNCHANGED <<job, pool, queued, called, row, arch, gap, adding, sweep>>
  BY DEF Stop, Request, Op, TaskOf, Become, names, proc
<1>2. TaskOf(a)' = TaskOf(a) /\ HuntOf(a)' = HuntOf(a) /\ Apart(a)
  BY <1>1, Untasked DEF Apart, Inv
<1>3. Own(a) /\ Typing'
  BY <1>1, <1>2 DEF Own, More, Typing, Inv, Shape
<1>4. Fine(a)'
  BY <1>1, <1>2, Known DEF Fine, Tasked, CutOff, Going, RowHeld, Between, LeaseHeld, CopyOut,
       Serves, Misnamed, OfferedInAGap
<1> QED BY <1>3, <1>4, Owned

LEMMA DownloadKeeps == ASSUME Inv, More, NEW a \in Agents, Download(a) PROVE More'
<1>1. /\ TaskOf(a).op = "none" /\ arch[a].st = "none" /\ state[a] = "STOPPED" /\ row[a] # None
      /\ copied' = [copied EXCEPT ![a] = row[a]]
      /\ UNCHANGED <<job, pool, queued, called, row, state, box, arch, gap, adding, sweep>>
  BY DEF Download, Request, Op, TaskOf, names, proc
<1>2. TaskOf(a)' = TaskOf(a) /\ HuntOf(a)' = HuntOf(a) /\ Apart(a)
  BY <1>1, Untasked DEF Apart, Inv
<1>3. Own(a) /\ Typing'
  BY <1>1, <1>2 DEF Own, More, Typing, Inv, Shape
<1>4. pool[row[a]] \in {a, "out"} \/ OfferedInAGap
  BY <1>1, Known DEF Fine, RowHeld, Between, Going
<1>5. copied'[a] = row[a]
  BY <1>1, Known
<1>6. Fine(a)'
  <2>0. Fine(a)
    BY Known
  <2>1. Tasked(a)'
    BY <1>1, <1>2, Known DEF Fine, Tasked
  <2>2. CutOff(a)'
    BY <1>1 DEF Fine, CutOff
  <2>3. Going(a)'
    BY <1>1, <1>2, Known DEF Fine, Going
  <2>4. RowHeld(a)'
    BY <1>1, <1>4 DEF Fine, RowHeld, OfferedInAGap
  <2>5. LeaseHeld(a)'
    BY <1>1, <1>2, Known DEF Fine, LeaseHeld
  <2>6. CopyOut(a)'
    BY <1>1, <1>2, <1>4, Known DEF Fine, CopyOut, OfferedInAGap
  <2>7. Serves(a)'
    BY <1>1, <1>2, Known DEF Fine, Serves, Misnamed
  <2> QED BY <2>1, <2>2, <2>3, <2>4, <2>5, <2>6, <2>7 DEF Fine
<1> QED BY <1>3, <1>6, Owned

LEMMA ResumeSetUpKeeps == ASSUME Inv, More, NEW a \in Agents, ResumeSetUp(a) PROVE More'
<1>1. /\ TaskOf(a).op = "none" /\ state[a] = "PROVISIONING"
      /\ UNCHANGED <<pool, queued, called, row, box, arch, gap, adding, sweep>>
  BY DEF ResumeSetUp, Op, TaskOf, names
<1>2. arch[a].st = "none"
  BY <1>1, Known DEF Good
<1>3. CASE Begin(a, "setup", "find") /\ UNCHANGED <<state, copied>>
  <2>1. /\ TaskOf(a)'.op = "setup" /\ TaskOf(a)'.pc = "find" /\ ~TaskOf(a)'.mine
        /\ HuntOf(a)' = HuntOf(a) /\ Apart(a)
    BY <1>3, Begun DEF Inv
  <2>2. Own(a) /\ Typing'
    BY <1>1, <1>3, <2>1 DEF Own, More, Typing
  <2>3. Fine(a)'
    BY <1>1, <1>3, <2>1, Known DEF Fine, Tasked, CutOff, Going, RowHeld, Between, LeaseHeld,
         CopyOut, Serves, Misnamed, OfferedInAGap, Leases
  <2> QED BY <2>2, <2>3, Owned
<1>4. CASE job' = job /\ state' = [state EXCEPT ![a] = "FAILED"] /\ copied' = copied
  <2>1. TaskOf(a)' = TaskOf(a) /\ HuntOf(a)' = HuntOf(a) /\ Apart(a)
    BY <1>4, Untasked DEF Apart, Inv
  <2>2. Own(a) /\ Typing'
    BY <1>1, <1>4, <2>1 DEF Own, More, Typing, Inv, Shape
  <2>3. Fine(a)'
    BY <1>1, <1>4, <2>1, Known DEF Fine, Tasked, CutOff, Going, RowHeld, Between, LeaseHeld,
         CopyOut, Serves, Misnamed, OfferedInAGap
  <2> QED BY <2>2, <2>3, Owned
<1> QED BY <1>3, <1>4 DEF ResumeSetUp, Become

LEMMA FinishKeeps == ASSUME Inv, More, NEW a \in Agents, Finish(a) PROVE More'
<1>1. /\ TaskOf(a).op = "none" /\ arch[a].st # "none" /\ GivenUp(a) /\ Begin(a, "resume", "stop")
      /\ arch' = [arch EXCEPT ![a].held = FALSE]
      /\ UNCHANGED <<pool, queued, called, row, state, box, copied, gap, adding, sweep>>
  BY DEF Finish, TakenUp, Cut, Op, TaskOf, names
<1>2. /\ TaskOf(a)'.op = "resume" /\ TaskOf(a)'.pc = "stop" /\ HuntOf(a)' = HuntOf(a) /\ Apart(a)
  BY <1>1, Begun DEF Inv
<1>3. /\ arch'[a].st = arch[a].st /\ arch'[a].bot = arch[a].bot /\ arch'[a].copy = arch[a].copy
      /\ \A c \in Agents \ {a} : arch'[c] = arch[c]
  BY <1>1, Records DEF Inv, Shape, ArchRec
<1>4. Own(a) /\ Typing'
  BY <1>1, <1>2, <1>3 DEF Own, More, Typing
<1>5. row[a] # None /\ ~arch[a].copy => pool[row[a]] # a
  BY <1>1, Known DEF GivenUp, Fine, CutOff
<1>6. /\ TaskOf(a).op = "none" /\ arch[a].st # "none"
      /\ UNCHANGED <<pool, queued, called, row, state, box, copied, gap, adding, sweep>>
  BY <1>1
<1>7. Fine(a)'
  <2>0. Fine(a)
    BY Known
  <2>1. Tasked(a)'
    BY <1>2, Known DEF Fine, Tasked, Leases
  <2>2. CutOff(a)'
    BY <1>2, <1>3, <1>6, Known DEF Fine, CutOff
  <2>3. Going(a)'
    BY <1>2, <1>3, <1>5, <1>6 DEF Fine, Going
  <2>4. RowHeld(a)'
    BY <1>2, <1>3, <1>6, Known DEF Fine, RowHeld, Between, OfferedInAGap
  <2>5. LeaseHeld(a)'
    BY <1>2, <1>6, Known DEF Fine, LeaseHeld
  <2>6. CopyOut(a)'
    BY <1>2, <1>6, Known DEF Fine, CopyOut, OfferedInAGap
  <2>7. Serves(a)'
    BY <1>2, <1>6, Known DEF Fine, Serves, Misnamed, Tasked, Leases
  <2> QED BY <2>1, <2>2, <2>3, <2>4, <2>5, <2>6, <2>7 DEF Fine
<1> QED BY <1>4, <1>7, Owned

LEMMA UndoKeeps == ASSUME Inv, More, NEW a \in Agents, Undo(a) PROVE More'
<1>1. /\ TaskOf(a).op = "none" /\ arch[a].st # "none" /\ ~GivenUp(a)
      /\ arch' = [arch EXCEPT ![a] = NoArchive]
      /\ UNCHANGED <<job, pool, queued, called, row, gap, adding, sweep>>
  BY DEF Undo, TakenUp, Cut, Op, TaskOf, names, proc
<1>2. /\ state' = state /\ copied' = copied /\ box' = box
      \/ /\ state' = [state EXCEPT ![a] = "RUNNING"] /\ copied' = [copied EXCEPT ![a] = None]
         /\ box' = [box EXCEPT ![a].up = TRUE]
  BY DEF Undo, Become
<1>3. TaskOf(a)' = TaskOf(a) /\ HuntOf(a)' = HuntOf(a) /\ Apart(a)
  BY <1>1, Untasked DEF Apart, Inv
<1>4. arch'[a].st = "none"
  BY <1>1 DEF NoArchive, Inv, Shape
<1>5. Own(a) /\ Typing'
  BY <1>1, <1>2, <1>3 DEF Own, More, Typing, Inv, Shape
<1>6. row[a] # None => pool[row[a]] \in {a, "out"}
  BY <1>1, Known DEF GivenUp, Fine, CutOff
<1>7. /\ copied'[a] \in {copied[a], None} /\ (copied'[a] # None => copied'[a] = copied[a] /\ state'[a] # "RUNNING")
      /\ Settled(a) => Settled(a)'
  BY <1>2, Known DEF Settled, Fine, CopyOut, Inv, Shape
<1>8. UNCHANGED <<job, pool, queued, called, row, gap, adding, sweep>>
  BY <1>1
<1>9. TaskOf(a).op = "none"
  BY <1>1
<1>10. Fine(a)'
  <2>0. Fine(a)
    BY Known
  <2>1. Tasked(a)'
    BY <1>3, <1>9, Known DEF Fine, Tasked
  <2>2. CutOff(a)'
    BY <1>4 DEF Fine, CutOff
  <2>3. Going(a)'
    BY <1>3, <1>8, <1>9, Known DEF Fine, Going
  <2>4. RowHeld(a)'
    BY <1>6, <1>8 DEF Fine, RowHeld
  <2>5. LeaseHeld(a)'
    BY <1>3, <1>8, Known DEF Fine, LeaseHeld
  <2>6. CopyOut(a)'
    BY <1>3, <1>7, <1>8, <1>9, Known DEF Fine, CopyOut, OfferedInAGap
  <2>7. Serves(a)'
    BY <1>3, <1>8, Known DEF Fine, Serves, Misnamed
  <2> QED BY <2>1, <2>2, <2>3, <2>4, <2>5, <2>6, <2>7 DEF Fine
<1> QED BY <1>5, <1>10, Owned

(* A step that touches no agent, no lease and no name.                      *)
LEMMA AsideKeeps ==
  ASSUME Inv, More, adding' \in Bots \cup {None},
         UNCHANGED <<job, pool, queued, called, row, state, box, copied, arch, gap, sweep>>
  PROVE  More'
<1>1. ASSUME NEW a \in Agents PROVE Fine(a)'
  <2>1. TaskOf(a)' = TaskOf(a) /\ HuntOf(a)' = HuntOf(a)
    BY Untasked DEF Inv
  <2>2. Fine(a)'
    <3>0. Fine(a)
      BY Known
    <3>1. Tasked(a)'
      BY <2>1, Known DEF Fine, Tasked, Settled
    <3>2. CutOff(a)'
      BY <2>1, Known DEF Fine, CutOff
    <3>3. Going(a)'
      BY <2>1, Known DEF Fine, Going
    <3>4. RowHeld(a)'
      BY <2>1, Known DEF Fine, RowHeld, Between, OfferedInAGap
    <3>5. LeaseHeld(a)'
      BY <2>1, Known DEF Fine, LeaseHeld
    <3>6. CopyOut(a)'
      BY <2>1, Known DEF Fine, CopyOut, OfferedInAGap
    <3>7. Serves(a)'
      BY <2>1, Known DEF Fine, Serves, Misnamed
    <3> QED BY <3>1, <3>2, <3>3, <3>4, <3>5, <3>6, <3>7 DEF Fine
  <2> QED BY <2>2
<1> QED BY <1>1 DEF More, Typing

(* The pool's own operations, and the sweep of names that are due.          *)
LEMMA RemoveKeeps == ASSUME Inv, More, NEW b \in Bots, Remove(b) PROVE More'
<1>1. /\ pool[b] = "free" /\ pool' = [pool EXCEPT ![b] = "out"] /\ queued' = [queued EXCEPT ![b] = None]
      /\ UNCHANGED <<job, called, row, state, box, copied, arch, gap, adding, sweep>>
  BY DEF Remove, self, proc
<1>2. ASSUME NEW a \in Agents PROVE Fine(a)'
  <2>1. TaskOf(a)' = TaskOf(a) /\ HuntOf(a)' = HuntOf(a)
    BY <1>1, Untasked DEF Inv
  <2>2. /\ pool[b] = "free" /\ pool'[b] = "out" /\ \A d \in Bots \ {b} : pool'[d] = pool[d] /\ queued'[d] = queued[d]
    BY <1>1 DEF More, Typing
  <2>3. UNCHANGED <<job, called, row, state, box, copied, arch, gap, adding, sweep>>
    BY <1>1
  <2>4. Fine(a)'
    <3>0. Fine(a)
      BY Known
    <3>1. Tasked(a)'
      BY <2>1, <2>2, <2>3, Known DEF Fine, Tasked, Settled
    <3>2. CutOff(a)'
      BY <2>1, <2>3, Known DEF Fine, CutOff
    <3>3. Going(a)'
      BY <2>1, <2>2, <2>3, Known DEF Fine, Going
    <3>4. RowHeld(a)'
      BY <2>1, <2>2, <2>3, Known DEF Fine, RowHeld, Between, OfferedInAGap
    <3>5. LeaseHeld(a)'
      BY <2>1, <2>2, <2>3, Known DEF Fine, LeaseHeld
    <3>6. CopyOut(a)'
      BY <2>1, <2>2, <2>3, Known DEF Fine, CopyOut, OfferedInAGap
    <3>7. Serves(a)'
      BY <2>1, <2>2, <2>3, Known DEF Fine, Serves, Misnamed
    <3> QED BY <3>1, <3>2, <3>3, <3>4, <3>5, <3>6, <3>7 DEF Fine
  <2> QED BY <2>4
<1> QED BY <1>1, <1>2 DEF More, Typing

LEMMA AddedKeeps == ASSUME Inv, More, Added PROVE More'
<1> DEFINE b == adding
<1>1. /\ b \in Bots /\ adding' = None
      /\ pool' = [pool EXCEPT ![b] = IF @ = "out" THEN "free" ELSE @]
      /\ gap' = IF \E a \in Agents : b \in {row[a], copied[a]} /\ pool[b] = "out"
                THEN gap \cup {"added"} ELSE gap
      /\ UNCHANGED <<job, queued, called, row, state, box, copied, arch, sweep>>
  BY DEF Added, GapIf, self, names, More, Typing
<1>2. /\ \A d \in Bots \ {b} : pool'[d] = pool[d]
      /\ (pool[b] = "out" /\ pool'[b] = "free") \/ pool'[b] = pool[b]
      /\ \A g \in gap : g \in gap'
  BY <1>1 DEF More, Typing
<1>3. ASSUME NEW a \in Agents PROVE Fine(a)'
  <2>1. TaskOf(a)' = TaskOf(a) /\ HuntOf(a)' = HuntOf(a)
    BY <1>1, Untasked DEF Inv
  <2>2. b \in {row[a], copied[a]} /\ pool[b] = "out" => OfferedInAGap'
    BY <1>1 DEF OfferedInAGap
  <2>3. UNCHANGED <<job, queued, called, row, state, box, copied, arch, sweep>> /\ b \in Bots
    BY <1>1
  <2>4. Fine(a)'
    <3>0. Fine(a)
      BY Known
    <3>1. Tasked(a)'
      BY <1>2, <2>1, <2>3, Known DEF Fine, Tasked, Settled
    <3>2. CutOff(a)'
      BY <2>1, <2>3, Known DEF Fine, CutOff
    <3>3. Going(a)'
      BY <1>2, <2>1, <2>3, Known DEF Fine, Going
    <3>4. RowHeld(a)'
      BY <1>2, <2>1, <2>2, <2>3, Known DEF Fine, RowHeld, Between, OfferedInAGap
    <3>5. LeaseHeld(a)'
      BY <1>2, <2>1, <2>3, Known DEF Fine, LeaseHeld
    <3>6. CopyOut(a)'
      BY <1>2, <2>1, <2>2, <2>3, Known DEF Fine, CopyOut, OfferedInAGap
    <3>7. Serves(a)'
      BY <1>2, <2>1, <2>3, Known DEF Fine, Serves, Misnamed
    <3> QED BY <3>1, <3>2, <3>3, <3>4, <3>5, <3>6, <3>7 DEF Fine
  <2> QED BY <2>4
<1> QED BY <1>1, <1>3 DEF More, Typing

LEMMA SweepTakesKeeps == ASSUME Inv, More, NEW b \in Bots, SweepTakes(b) PROVE More'
<1>1. /\ queued[b] # None
      /\ sweep' = [bot |-> b, name |-> queued[b],
                   for |-> IF \E j \in Jobs : At(j, "drop") /\ job[j].bot = b THEN None ELSE pool[b]]
      /\ UNCHANGED <<job, pool, queued, called, row, state, box, copied, arch, gap, adding>>
  BY DEF SweepTakes, self, names
<1>2. sweep'.bot = b /\ sweep'.name = queued[b]
  BY <1>1
<1>3. ASSUME NEW a \in Agents PROVE Fine(a)'
  <2>1. TaskOf(a)' = TaskOf(a) /\ HuntOf(a)' = HuntOf(a)
    BY <1>1, Untasked DEF Inv
  <2>2. UNCHANGED <<job, pool, queued, called, row, state, box, copied, arch, gap, adding>>
    BY <1>1
  <2>3. sweep'.for = a => sweep'.name = a \/ Misnamed
    <3>1. SUFFICES ASSUME sweep'.for = a, ~Misnamed PROVE queued[b] = a
      BY <1>2
    <3>2. ~\E j \in Jobs : At(j, "drop") /\ job[j].bot = b
      BY <1>1, <3>1, Known
    <3>3. pool[b] = a
      BY <1>1, <3>1, <3>2
    <3>4. /\ ~(TaskOf(a).pc = "drop" /\ TaskOf(a).bot = b)
          /\ ~(HuntOf(a).pc = "drop" /\ HuntOf(a).bot = b)
      BY <3>2, TwoTasks DEF At, TaskOf, HuntOf
    <3> QED BY <1>1, <3>1, <3>3, <3>4, Known DEF Fine, Serves
  <2>4. Serves(a)'
    BY <2>1, <2>2, <2>3, Known DEF Fine, Serves, Misnamed
  <2>5. Fine(a)'
    <3>0. Fine(a)
      BY Known
    <3>1. Tasked(a)'
      BY <2>1, <2>2, Known DEF Fine, Tasked, Settled
    <3>2. CutOff(a)'
      BY <2>1, <2>2, Known DEF Fine, CutOff
    <3>3. Going(a)'
      BY <2>1, <2>2, Known DEF Fine, Going
    <3>4. RowHeld(a)'
      BY <2>1, <2>2, Known DEF Fine, RowHeld, Between, OfferedInAGap
    <3>5. LeaseHeld(a)'
      BY <2>1, <2>2, Known DEF Fine, LeaseHeld
    <3>6. CopyOut(a)'
      BY <2>1, <2>2, Known DEF Fine, CopyOut, OfferedInAGap
    <3>7. Serves(a)'
      BY <2>4 DEF Fine
    <3> QED BY <3>1, <3>2, <3>3, <3>4, <3>5, <3>6, <3>7 DEF Fine
  <2> QED BY <2>5
<1> QED BY <1>1, <1>2, <1>3 DEF More, Typing

LEMMA SweepLandsKeeps == ASSUME Inv, More, SweepLands PROVE More'
<1> DEFINE b == sweep.bot
           n == sweep.name
<1>1. UNCHANGED <<job, pool, row, state, box, copied, arch, adding>> /\ sweep' = NoSweep
  BY DEF SweepLands, self
<1>2. /\ called' \in [Bots -> Names] /\ queued' \in [Bots -> Names \cup {None}]
      /\ \A d \in Bots \ {b} : called'[d] = called[d] /\ queued'[d] = queued[d]
      /\ \A g \in gap : g \in gap'
      /\ b \in Bots /\ pool[b] # "out" =>
           \/ "dead" \in gap'
           \/ called'[b] = called[b] /\ queued'[b] = queued[b]
           \/ /\ called'[b] = n /\ queued'[b] = (IF queued[b] = n THEN None ELSE queued[b])
              /\ pool[b] \in Agents \ {sweep.for, n} /\ queued[b] # pool[b] => "crossed" \in gap'
  <2>1. n \in Names /\ Typing
    BY DEF More, Typing
  <2> HIDE DEF n
  <2>2. CASE /\ called' = [called EXCEPT ![b] = n]
             /\ queued' = [queued EXCEPT ![b] = IF pool[b] = "out" THEN @ ELSE IfStill(b, None)]
             /\ GapIf(pool[b] \in Agents \ {sweep.for, n} /\ queued[b] # pool[b], "crossed")
    BY <2>1, <2>2 DEF Typing, IfStill, GapIf, n
  <2>3. CASE /\ called' = called /\ gap' = gap
             /\ queued' = [queued EXCEPT ![b] = IF pool[b] = "out" THEN @ ELSE IfStill(b, n)]
    BY <2>1, <2>3 DEF Typing, IfStill, n
  <2>4. CASE called' = called /\ GapIf(TRUE, "dead") /\ queued' = [queued EXCEPT ![b] = IfStill(b, None)]
    BY <2>1, <2>4 DEF Typing, IfStill, GapIf
  <2> QED BY <2>2, <2>3, <2>4 DEF SweepLands, n
<1>3. ASSUME NEW a \in Agents PROVE Fine(a)'
  <2>1. TaskOf(a)' = TaskOf(a) /\ HuntOf(a)' = HuntOf(a)
    BY <1>1, Untasked DEF Inv
  <2>2. sweep'.for # a
    BY <1>1, Known DEF NoSweep
  <2>3. \A g \in gap : g \in gap'
    BY <1>2
  <2>4. Serves(a)'
    <3>1. CASE Misnamed \/ Misnamed'
      BY <2>3, <3>1 DEF Serves, Misnamed
    <3>2. CASE ~Misnamed /\ ~Misnamed'
      BY <1>1, <1>2, <2>1, <2>2, <3>2, Known DEF Fine, Serves, Misnamed
    <3> QED BY <3>1, <3>2
  <2>5. Fine(a)'
    <3>0. Fine(a)
      BY Known
    <3>1. Tasked(a)'
      BY <1>1, <2>1, Known DEF Fine, Tasked, Settled
    <3>2. CutOff(a)'
      BY <1>1, <2>1, Known DEF Fine, CutOff
    <3>3. Going(a)'
      BY <1>1, <2>1, Known DEF Fine, Going
    <3>4. RowHeld(a)'
      BY <1>1, <2>1, <2>3, Known DEF Fine, RowHeld, Between, OfferedInAGap
    <3>5. LeaseHeld(a)'
      BY <1>1, <2>1, <2>3, Known DEF Fine, LeaseHeld
    <3>6. CopyOut(a)'
      BY <1>1, <2>1, <2>3, Known DEF Fine, CopyOut, OfferedInAGap
    <3>7. Serves(a)'
      BY <2>4 DEF Fine
    <3> QED BY <3>1, <3>2, <3>3, <3>4, <3>5, <3>6, <3>7 DEF Fine
  <2> QED BY <2>5
<1>4. sweep'.bot = None /\ sweep'.name \in Names
  BY <1>1 DEF NoSweep, Names
<1> QED BY <1>1, <1>2, <1>3, <1>4 DEF More, Typing

(* A death: every task is gone, and what it held is a gap.  With one death  *)
(* only archives that still run are cut; a second could cut a resume.       *)
LEMMA CrashKeeps == ASSUME Inv, More, MaxCrashes <= 1, Crash PROVE More'
<1>1. /\ UNCHANGED <<pool, queued, called, row, state, copied, arch>>
      /\ adding' = None /\ sweep' = NoSweep /\ crashes < MaxCrashes
      /\ gap' = gap \cup {why \in {"lease", "farewell"} : \E j \in Jobs : CutAt(j, why)}
      /\ job' = [j \in Jobs |-> NoJob]
  BY DEF Crash, names
<1>2. \A g \in gap : g \in gap'
  BY <1>1
<1>3. PICK f \in [Agents -> UNION {Half(a) : a \in Agents}] :
        (\A a \in Agents : f[a] \in Half(a)) /\ box' = f
  BY DEF Crash
<1>4. ASSUME NEW a \in Agents PROVE Fine(a)'
  <2>1. TaskOf(a)' = NoJob /\ HuntOf(a)' = NoJob
    BY <1>1, TwoTasks DEF TaskOf, HuntOf
  <2>2. box'[a].up => box[a].up \/ TaskOf(a).pc = "boot"
    <3>1. box'[a] \in Half(a) /\ box[a] \in BoxRec
      BY <1>3, Records DEF Inv
    <3> QED BY <3>1 DEF Half, At, TaskOf, BoxRec
  <2>3. /\ TaskOf(a).op = "swap" \/ TaskOf(a).pc \in Leases => "lease" \in gap'
        /\ HuntOf(a).pc \in Leases => "lease" \in gap'
        /\ TaskOf(a).op \in {"detach", "swap", "delete"} /\ TaskOf(a).pc \in {"release", "goodbye"} =>
             OfferedInAGap'
    BY <1>1, TwoTasks DEF CutAt, TaskOf, HuntOf, Leases, OfferedInAGap
  <2>4. arch[a].st # "none" => TaskOf(a).op = "archive"
    BY <1>1, Known, BoundsAssumption DEF Good, Inv, Shape
  <2>5. UNCHANGED <<pool, queued, called, row, state, copied, arch>> /\ sweep'.for = None
    BY <1>1 DEF NoSweep
  <2>6. TaskOf(a).pc = "boot" => arch[a].st = "none"
    BY Known DEF Good, Fine, Tasked
  <2>7. Fine(a)'
    <3>0. Fine(a)
      BY Known
    <3>1. Tasked(a)'
      BY <2>1 DEF Fine, Tasked, Leases, NoJob
    <3>2. CutOff(a)'
      BY <2>1, <2>4, <2>5, Known DEF Fine, CutOff
    <3>3. Going(a)'
      BY <2>1 DEF Fine, Going, NoJob
    <3>4. RowHeld(a)'
      BY <1>2, <2>1, <2>2, <2>3, <2>5, <2>6, Known DEF Fine, RowHeld, Between, OfferedInAGap,
           Going, Good, NoJob
    <3>5. LeaseHeld(a)'
      BY <1>2, <2>3, <2>5, Known DEF Fine, LeaseHeld
    <3>6. CopyOut(a)'
      BY <1>2, <2>1, <2>5, Known DEF Fine, CopyOut, OfferedInAGap, NoJob
    <3>7. Serves(a)'
      BY <1>2, <2>3, <2>5, Known DEF Fine, Serves, Misnamed, Leases
    <3> QED BY <3>1, <3>2, <3>3, <3>4, <3>5, <3>6, <3>7 DEF Fine
  <2> QED BY <2>7
<1>5. sweep'.bot = None /\ sweep'.name \in Names
  BY <1>1 DEF NoSweep, Names
<1> QED BY <1>1, <1>4, <1>5 DEF More, Typing

(* More holds at first, and every step keeps it.                            *)
LEMMA MoreInit == ASSUME Init PROVE More
<1> DEFINE a0 == CHOOSE a \in Agents : TRUE
           b0 == CHOOSE b \in Bots : TRUE
<1>1. b0 \in Bots /\ a0 \in Agents
  BY SomeOfEach
<1>2. /\ row = [c \in Agents |-> IF c = a0 THEN b0 ELSE None]
      /\ state = [c \in Agents |-> IF c = a0 THEN "RUNNING" ELSE "NEW"]
      /\ \E p \in {a0, "out"} : pool = [d \in Bots |-> IF d = b0 THEN p ELSE "free"]
      /\ called = [d \in Bots |-> IF d = b0 THEN a0 ELSE "idle"]
  BY DEF Init
<1>3. /\ queued = [b \in Bots |-> None] /\ copied = [a \in Agents |-> None]
      /\ arch = [a \in Agents |-> NoArchive] /\ job = [j \in Jobs |-> NoJob]
      /\ adding = None /\ sweep = NoSweep
  BY DEF Init
<1>4. ASSUME NEW a \in Agents PROVE Fine(a)
  <2>1. TaskOf(a) = NoJob /\ HuntOf(a) = NoJob /\ a0 \in Agents
    BY <1>3, TwoTasks DEF TaskOf, HuntOf
  <2>2. arch[a].st = "none" /\ copied[a] = None /\ sweep.for = None /\ a # None
    BY <1>3, BoundsAssumption DEF NoArchive, NoSweep
  <2>3. \A b \in Bots : pool[b] = a => a = a0 /\ b = b0
    BY <1>2, BoundsAssumption
  <2>4. Serves(a)
    BY <1>1, <1>2, <1>3, <2>2, <2>3 DEF Serves
  <2>5. RowHeld(a) /\ LeaseHeld(a)
    BY <1>1, <1>2, <2>1, <2>3, BoundsAssumption DEF RowHeld, LeaseHeld
  <2>6. Tasked(a) /\ CutOff(a) /\ Going(a) /\ CopyOut(a)
    BY <2>1, <2>2 DEF Tasked, CutOff, Going, CopyOut, NoJob, Leases
  <2> QED BY <2>4, <2>5, <2>6 DEF Fine
<1>5. Typing
  <2> HIDE DEF a0, b0
  <2> QED BY <1>1, <1>2, <1>3 DEF Typing, NoSweep, Names
<1> QED BY <1>4, <1>5 DEF More

LEMMA MoreNext == ASSUME MaxCrashes <= 1, Inv, More, [Next]_vars PROVE More'
<1>1. CASE Provisioner
  BY <1>1, ParkKeeps, NamedKeeps DEF Provisioner
<1>2. CASE SettingUp
  BY <1>2, SetUpKeeps, SetUpFindsKeeps, SetUpSyncsKeeps, SetUpGateKeeps, SetUpBootsKeeps,
     SetUpDoneKeeps, SetUpFailsKeeps DEF SettingUp
<1>3. CASE Attaching
  BY <1>3, AttachKeeps, AttachRefusedKeeps, AttachGoneKeeps, AttachedKeeps,
       AttachSyncsKeeps DEF Attaching
<1>4. CASE Leaving
  BY <1>4, DetachKeeps, SwapKeeps, SwapGateKeeps, ArchiveKeeps, DeleteKeeps, DownKeeps,
       StaysUpKeeps,
     NoBotKeeps, LeaveToCopyKeeps, RecycleKeeps, ReleasedKeeps, LeftKeeps, GoneKeeps DEF Leaving,
          Giver
<1>5. CASE Others
  <2>1. CASE \E a \in Agents : Boot(a) \/ Stop(a) \/ Download(a)
    BY <2>1, BootKeeps, StopKeeps, DownloadKeeps
  <2>2. CASE \E b \in Bots : AddBegin(b)
    BY <2>2, AsideKeeps DEF AddBegin, names, self
  <2>3. CASE \E b \in Bots : Remove(b) \/ SweepTakes(b)
    BY <2>3, RemoveKeeps, SweepTakesKeeps
  <2>4. CASE Added \/ SweepLands
    BY <2>4, AddedKeeps, SweepLandsKeeps
  <2> QED BY <1>5, <2>1, <2>2, <2>3, <2>4 DEF Others
<1>6. CASE Crash
  BY <1>6, CrashKeeps
<1>7. CASE Resume
  BY <1>7, ResumeSetUpKeeps, FinishKeeps, UndoKeeps DEF Resume
<1>8. CASE UNCHANGED vars
  BY <1>8, AsideKeeps DEF vars, names, self, proc, More, Typing
<1> QED BY <1>1, <1>2, <1>3, <1>4, <1>5, <1>6, <1>7, <1>8 DEF Next

(* Where an archive's operation ends: given up before anything was given    *)
(* away, finished, or undone after a restart.                               *)
LEMMA ArchiveOver ==
  ASSUME Inv, Next, NEW a \in Agents, arch[a].st # "none", arch'[a].st = "none"
  PROVE  StaysUp(a) \/ Gone(a) \/ Undo(a)
<1>0. arch \in [Agents -> ArchRec] /\ arch' # arch
  BY DEF Inv, Shape
<1>1. ASSUME Provisioner \/ SettingUp \/ Attaching PROVE FALSE
  BY <1>0, <1>1 DEF Provisioner, Park, Named, SettingUp, SetUp, SetUpFinds, SetUpSyncs,
       SetUpGate, SetUpBoots,
     SetUpDone, SetUpFails, Attaching, Attach, AttachRefused, AttachGone, Attached, AttachSyncs,
          self
<1>2. ASSUME Others \/ Crash PROVE FALSE
  BY <1>0, <1>2 DEF Others, Boot, Stop, Download, AddBegin, Remove, SweepTakes, Added,
       SweepLands, Crash, self
<1>3. ASSUME Leaving PROVE StaysUp(a) \/ Gone(a)
  <2>1. PICK c \in Agents : Detach(c) \/ Swap(c) \/ SwapGate(c) \/ Archive(c) \/ Delete(c)
                             \/ Down(c) \/ StaysUp(c) \/ Giver(c)
    BY <1>3 DEF Leaving
  <2>2. CASE Detach(c) \/ Swap(c) \/ SwapGate(c) \/ Delete(c)
    BY <1>0, <2>2 DEF Detach, Swap, SwapGate, Delete, self
  <2>3. CASE NoBot(c) \/ LeaveToCopy(c) \/ Recycle(c) \/ Released(c)
    BY <1>0, <2>3 DEF NoBot, LeaveToCopy, Recycle, Released, self
  <2>4. CASE Archive(c)
    <3>1. arch[c].st = "none" /\ \E k : arch' = [arch EXCEPT ![c] = k]
      BY <2>4 DEF Archive, Request
    <3> QED BY <1>0, <3>1
  <2>5. CASE Down(c)
    <3>1. \/ arch' = arch
          \/ \E k \in BOOLEAN : arch' = [arch EXCEPT ![c].st = "stopped", ![c].copy = k]
      BY <2>5 DEF Down, CopyElsewhere
    <3> QED BY <1>0, <3>1 DEF ArchRec
  <2>6. CASE Left(c)
    <3>1. arch' = arch \/ arch' = [arch EXCEPT ![c].st = "released"]
      BY <2>6 DEF Left
    <3> QED BY <1>0, <3>1 DEF ArchRec
  <2>7. CASE StaysUp(c)
    <3>1. \E k : arch' = [arch EXCEPT ![c] = k]
      BY <2>7 DEF StaysUp
    <3>2. c = a
      BY <1>0, <3>1
    <3> QED BY <2>7, <3>2
  <2>8. CASE Gone(c)
    <3>1. \E k : arch' = [arch EXCEPT ![c] = k]
      BY <2>8 DEF Gone
    <3>2. c = a
      BY <1>0, <3>1
    <3> QED BY <2>8, <3>2
  <2> QED BY <2>1, <2>2, <2>3, <2>4, <2>5, <2>6, <2>7, <2>8 DEF Giver
<1>4. ASSUME Resume PROVE Undo(a)
  <2>1. PICK c \in Agents : ResumeSetUp(c) \/ Finish(c) \/ Undo(c)
    BY <1>4 DEF Resume
  <2>2. CASE ResumeSetUp(c)
    BY <1>0, <2>2 DEF ResumeSetUp
  <2>3. CASE Finish(c)
    <3>1. arch' = [arch EXCEPT ![c].held = FALSE]
      BY <2>3 DEF Finish
    <3> QED BY <1>0, <3>1 DEF ArchRec
  <2>4. CASE Undo(c)
    <3>1. arch' = [arch EXCEPT ![c] = NoArchive]
      BY <2>4 DEF Undo
    <3>2. c = a
      BY <1>0, <3>1
    <3> QED BY <2>4, <3>2
  <2> QED BY <2>1, <2>2, <2>3, <2>4
<1> QED BY <1>1, <1>2, <1>3, <1>4 DEF Next

(* A step that ends an archive without archiving has the row to itself.     *)
LEMMA UndoneStep ==
  ASSUME Inv, More, Next, NEW a \in Agents,
         arch[a].st # "none", arch'[a].st = "none", state'[a] # "ARCHIVED"
  PROVE  \/ row'[a] = arch[a].bot /\ (arch[a].bot = None \/ pool'[arch[a].bot] \in {a, "out"})
         \/ OfferedInAGap
<1>1. CASE StaysUp(a)
  <2>1. TaskOf(a).pc = "stop" /\ row' = row
    BY <1>1 DEF StaysUp, At, TaskOf
  <2>2. TaskOf(a).op # "resume"
    <3>1. TaskOf(a).op = "resume" => arch' = [arch EXCEPT ![a] = [@ EXCEPT !.held = TRUE]]
      BY <1>1 DEF StaysUp, Op, TaskOf
    <3> QED BY <3>1, Records DEF Inv, Shape, ArchRec
  <2>3. TaskOf(a).op = "archive" /\ arch[a].st # "released"
    BY <2>1, <2>2, Known DEF Good, GiveOps
  <2>4. pool' = pool
    BY <1>1, <2>3 DEF StaysUp, Op, TaskOf
  <2>5. row[a] = arch[a].bot /\ ~Between(a)
    BY <2>1, <2>3, Known DEF Fine, CutOff, Between
  <2> QED BY <2>1, <2>4, <2>5, Known DEF Fine, RowHeld
<1>2. CASE Gone(a)
  <2>1. TaskOf(a).pc = "last" /\ (TaskOf(a).op # "delete" => state' = [state EXCEPT ![a] = "ARCHIVED"])
    BY <1>2 DEF Gone, At, Op, TaskOf, Become
  <2>2. TaskOf(a).op # "delete"
    BY Known DEF Good
  <2> QED BY <2>1, <2>2, Known
<1>3. CASE Undo(a)
  <2>1. TaskOf(a).op = "none" /\ ~GivenUp(a) /\ row' = row /\ pool' = pool
    BY <1>3 DEF Undo, TakenUp, Cut, Op, TaskOf
  <2>2. row[a] = arch[a].bot
    BY <2>1, Known DEF Fine, CutOff, GivenUp
  <2> QED BY <2>1, <2>2 DEF GivenUp
<1> QED BY <1>1, <1>2, <1>3, ArchiveOver

-----------------------------------------------------------------------------
(* Both invariants hold throughout.                                         *)
LEMMA Invariants == ASSUME MaxCrashes <= 1 PROVE Spec => [](Inv /\ More)
<1>1. Init => Inv /\ More
  BY InvInit, MoreInit
<1>2. Inv /\ More /\ [Next]_vars => (Inv /\ More)'
  BY InvNext, MoreNext
<1> QED BY <1>1, <1>2, PTL DEF Spec

(* A bot a running container polls is never offered, and a deleted agent    *)
(* holds no lease, outside the gaps: addToPool, recycle and the             *)
(* compensations of runProvisionSteps between them write the pool.          *)
THEOREM ThePoolIsTrue == ASSUME MaxCrashes <= 1 PROVE Spec => []PoolIsTrue
<1>1. ASSUME Inv, More, NEW a \in Agents, box[a].up, box[a].bot # None, pool[box[a].bot] = "free"
      PROVE  OfferedInAGap
  <2>1. row[a] = box[a].bot
    BY <1>1, Known DEF Good
  <2> QED BY <1>1, <2>1, Known DEF Fine, RowHeld, Between
<1>2. ASSUME Inv, More, NEW a \in Agents, state[a] = "DELETED", NEW b \in Bots, pool[b] = a
      PROVE  gap \cap {"kept", "lease", "added"} # {} \/ job[<<a, "attach">>] # NoJob
  <2>1. row[a] = None /\ TaskOf(a).op \notin {"setup", "swap"}
    BY <1>2, Known DEF Good, Fine, Tasked, Settled
  <2>2. HuntOf(a).pc \in Leases => job[<<a, "attach">>] # NoJob
    BY DEF HuntOf, NoJob, Leases
  <2> QED BY <1>2, <2>1, <2>2, Known DEF Fine, LeaseHeld
<1>3. Inv /\ More => PoolIsTrue
  BY <1>1, <1>2 DEF PoolIsTrue
<1> QED BY <1>3, Invariants, PTL

(* A downloaded copy keeps its bot: archiveAgent and delete ask             *)
(* copyElsewhere before they recycle; what does not ask is a gap.           *)
THEOREM CopiesKeepTheirBots == ASSUME MaxCrashes <= 1 PROVE Spec => []CopyKeepsItsBot
<1>1. Inv /\ More => CopyKeepsItsBot
  BY Known DEF CopyKeepsItsBot, Fine, CopyOut
<1> QED BY <1>1, Invariants, PTL

(* A leased bot in an agent's row bears the agent's name or has it queued,  *)
(* whatever rename is refused, parked, swept late or retried.               *)
THEOREM BotsServeUnderTheirNames == ASSUME MaxCrashes <= 1 PROVE Spec => []ServesUnderItsName
<1>1. ASSUME Inv, More, NEW a \in Agents, NEW b \in Bots, row[a] = b, pool[b] = a
      PROVE  \/ a \in {called[b], queued[b]} \/ At(<<a, "attach">>, "drop")
             \/ gap \cap {"crossed", "dead", "late", "lease"} # {}
  <2>1. ~(TaskOf(a).pc = "drop" /\ TaskOf(a).bot = b)
    BY <1>1, Known DEF Good, Fine, Tasked, Leases
  <2> QED BY <1>1, <2>1, Known DEF Fine, Serves, Misnamed, At, HuntOf
<1>2. Inv /\ More => ServesUnderItsName
  BY <1>1 DEF ServesUnderItsName
<1> QED BY <1>2, Invariants, PTL

(* resumeArchive undoes an archive only where the row still names the bot   *)
(* on record, and the bot is still the agent's or in no pool.               *)
THEOREM UndoneOnlyWithItsBot == ASSUME MaxCrashes <= 1 PROVE Spec => UndoneKeepsItsBot
<1> DEFINE A == \A a \in Agents :
             arch[a].st # "none" /\ arch'[a].st = "none" /\ state'[a] # "ARCHIVED" =>
               \/ row'[a] = arch[a].bot /\ (arch[a].bot = None \/ pool'[arch[a].bot] \in {a, "out"})
               \/ OfferedInAGap
<1>1. Inv /\ More /\ [Next]_vars => [A]_vars
  BY UndoneStep
<1> QED BY <1>1, Invariants, PTL DEF Spec, UndoneKeepsItsBot
=============================================================================
