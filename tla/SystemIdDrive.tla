--------------------------- MODULE SystemIdDrive ---------------------------
(***************************************************************************)
(* Drives whose velocities come from an identified model: SystemIdDrive    *)
(* with a coupled NARX model, the narx_sim_tool that replays a table       *)
(* through the same model, and DiffDrive with use_id_model.                *)
(*                                                                         *)
(* Abstractions.  Time is counted in physics steps.  The timer of the      *)
(* model fires at the latest Period steps after the last time (see         *)
(* UpdateTimer).  Publications only read the state and are left out.  Of   *)
(* the two models of DiffDrive, which do not interact, one is modelled.    *)
(***************************************************************************)
EXTENDS Integers, Sequences, SequencesExt

CONSTANTS
  Ring,        \* the number of values
  Files,       \* model files, see below
  Wanted,      \* linear_output and angular_output
  Known,       \* commands that command_mapping provides
  Values,      \* values of commands
  Timeout,     \* cmd_timeout, 0 for none
  Period,      \* steps between two samples, at most
  MaxSamples,  \* bound on the samples of a drive
  MaxRows,     \* bound on the rows of a table
  MaxSeed,     \* bound on the rows that seed the model
  OEs,         \* configurations of a DiscreteOEModel
  SampleTimes  \* Ts in units of which a step has StepSize
CONSTANT StepSize

-----------------------------------------------------------------------------
(***************************************************************************)
(* NarxCoupledModel and DiscreteOEModel: the identified models that may    *)
(* take the place of a drive's own dynamics, one sample per Step.          *)
(*                                                                         *)
(* A model file is a sequence of sub-models                                *)
(*   [output |-> name, inputs |-> <<names>>, terms |-> <<terms>>],         *)
(* a term is [theta, factors], a factor [var, lag]: var 0 is the output of *)
(* the sub-model itself ("y"), var i its i-th input ("xi").                *)
(*                                                                         *)
(* Abstraction.  Values are residues modulo Ring: what is checked is which *)
(* sample meets which coefficient, not rounding.                           *)
(***************************************************************************)
Zeros(n) == [i \in 1 .. n |-> 0]

Outputs(file) == {file[s].output : s \in DOMAIN file}
Factors(m) == UNION {Range(t.factors) : t \in Range(m.terms)}

(* Every input that no sub-model predicts is an external command.          *)
CommandNames(file) ==
  UNION {Range(file[s].inputs) : s \in DOMAIN file} \ Outputs(file)

GlobalMaxLag(file) ==
  Max({1} \cup {f.lag : f \in UNION {Factors(file[s]) : s \in DOMAIN file}})

(* What Load accepts of a file: own outputs and predictions of other       *)
(* sub-models only of the past.                                            *)
FactorOk(file, m, f) ==
  \/ f.var = 0 /\ f.lag >= 1
  \/ /\ f.var \in 1 .. Len(m.inputs) /\ f.lag >= 0
     /\ m.inputs[f.var] \in Outputs(file) => f.lag >= 1

Loads(file) ==
  /\ file # <<>>
  /\ \A s \in DOMAIN file :
       /\ file[s].inputs # <<>> /\ file[s].terms # <<>>
       /\ \A f \in Factors(file[s]) : FactorOk(file, file[s], f)

(* The first sub-model that predicts a name.                               *)
Predictor(file, name) == Min({s \in DOMAIN file : file[s].output = name})

-----------------------------------------------------------------------------
(* Histories, newest sample last: h.cmd of every command, h.pred of every  *)
(* sub-model.  Reset fills them with zeros.                                *)
Reset(file) ==
  [cmd  |-> [c \in CommandNames(file) |-> Zeros(GlobalMaxLag(file))],
   pred |-> [s \in DOMAIN file |-> Zeros(GlobalMaxLag(file))]]

MutantTrim(file, history) ==
  LET keep == GlobalMaxLag(file) - 1
  IN  IF Len(history) > keep * 4
      THEN SubSeq(history, Len(history) - keep + 1, Len(history))
      ELSE history
Trim(file, history) ==
  LET keep == GlobalMaxLag(file) + 1
  IN  IF Len(history) > keep * 4
      THEN SubSeq(history, Len(history) - keep + 1, Len(history))
      ELSE history

(* The place a factor reads in its history: commands are already those of  *)
(* the sample being computed, predictions end with the one before.         *)
Place(file, h, s, f) ==
  IF f.var = 0 THEN <<h.pred[s], Len(h.pred[s]) - f.lag + 1>>
  ELSE LET name == file[s].inputs[f.var]
       IN  IF name \in Outputs(file)
           THEN LET past == h.pred[Predictor(file, name)]
                IN  <<past, Len(past) - f.lag + 1>>
           ELSE <<h.cmd[name], Len(h.cmd[name]) - f.lag>>

(* No factor reads outside its history.                                    *)
InBounds(file, h) ==
  \A s \in DOMAIN file : \A f \in Factors(file[s]) :
    LET place == Place(file, h, s, f) IN place[2] \in DOMAIN place[1]

TermValue(file, h, s, t) ==
  FoldLeft(LAMBDA val, f : LET place == Place(file, h, s, f)
                           IN  (val * place[1][place[2]]) % Ring,
           t.theta % Ring, t.factors)

Evaluate(file, h) ==
  [s \in DOMAIN file |->
     FoldLeft(LAMBDA out, t : (out + TermValue(file, h, s, t)) % Ring,
              0, file[s].terms)]

Pushed(h, commands) ==
  [h EXCEPT !.cmd = [c \in DOMAIN h.cmd |-> Append(h.cmd[c], commands[c])]]

(* The histories after a sample whose outputs are given, by Step from      *)
(* Evaluate, by SeedStep from a recording.                                 *)
Advance(file, h, commands, outputs) ==
  [cmd  |-> [c \in DOMAIN h.cmd |-> Trim(file, Append(h.cmd[c], commands[c]))],
   pred |-> [s \in DOMAIN h.pred |-> Trim(file, Append(h.pred[s], outputs[s]))]]

(* The reference (simulate_coupled): the outputs of all samples from the   *)
(* rows of a table, [commands, outputs] or [commands, <<>>] if the outputs *)
(* are to be computed, everything before the first row being zero.         *)
FreeRun(file, rows) ==
  LET past(out, s, k) == IF k < 1 THEN 0 ELSE out[k][s]
      command(c, k) == IF k < 1 THEN 0 ELSE rows[k].commands[c]
      factor(out, s, f, k) ==
        CASE f.var = 0 -> past(out, s, k - f.lag)
          [] f.var # 0 /\ file[s].inputs[f.var] \in Outputs(file) ->
               past(out, Predictor(file, file[s].inputs[f.var]), k - f.lag)
          [] OTHER -> command(file[s].inputs[f.var], k - f.lag)
      value(out, s, k) ==
        FoldLeft(LAMBDA sum, t :
          (sum + FoldLeft(LAMBDA p, f : (p * factor(out, s, f, k)) % Ring,
                          t.theta % Ring, t.factors)) % Ring,
          0, file[s].terms)
  IN  FoldLeft(LAMBDA out, row :
        Append(out, IF row.outputs # <<>> THEN row.outputs
                    ELSE [s \in DOMAIN file |-> value(out, s, Len(out) + 1)]),
        <<>>, rows)

-----------------------------------------------------------------------------
(* DiscreteOEModel: [B, F, nk], and its queues, newest sample first.       *)
OEConfigures(oe) == oe.B # <<>> /\ oe.nk >= 0

OEQueues(oe) == [u |-> Zeros(oe.nk + Len(oe.B)), y |-> Zeros(Len(oe.F))]

(* push_front, and pop_back of what is too old.                            *)
PushFront(queue, value) == SubSeq(<<value>> \o queue, 1, Len(queue))

Weighted(coefficients, queue, delay) ==
  FoldLeftDomain(
    LAMBDA sum, i : sum + coefficients[i] * queue[delay + i], 0, coefficients)

(* y(k) = sum B[i] u(k - nk - i) - sum F[j] y(k - 1 - j)                    *)
OEOutput(oe, q, value) ==
  (Weighted(oe.B, PushFront(q.u, value), oe.nk) - Weighted(oe.F, q.y, 0)) % Ring

OEAdvance(oe, q, value) ==
  [u |-> PushFront(q.u, value), y |-> PushFront(q.y, OEOutput(oe, q, value))]

(* The reference: the output of the last sample of a sequence of inputs,   *)
(* by the difference equation.                                             *)
Difference(oe, inputs) ==
  LET u(k) == IF k < 1 THEN 0 ELSE inputs[k]
      y[k \in 0 .. Len(inputs)] ==
        IF k = 0 THEN 0
        ELSE ( FoldLeftDomain(LAMBDA sum, i :
                 sum + oe.B[i] * u(k - oe.nk - i + 1), 0, oe.B)
             - FoldLeftDomain(LAMBDA sum, j :
                 sum + oe.F[j] * (IF k > j THEN y[k - j] ELSE 0), 0, oe.F) )
             % Ring
  IN  y[Len(inputs)]

-----------------------------------------------------------------------------
VARIABLES
  user,      \* "SystemIdDrive", "narx_sim_tool" or "DiffDrive"
  stage,     \* "loading", "running" or "refused"
  file,      \* the model file
  hist,      \* cmd_hist_ and pred_hist_
  command,   \* cmd_speed_ and cmd_steering_
  received,  \* cmd_received_
  age,       \* now - last_cmd_sim_s_, Never before the first command
  since,     \* steps since the model's last sample
  held,      \* v_hat_ and w_hat_
  oe,        \* the configured DiscreteOEModel
  queues,    \* u_history_ and y_history_
  acc,       \* oe_time_accumulator_
  ts,        \* its sample time
  rows,      \* history: all samples the model was given
  quiet      \* history: steps since the last command arrived

vars == <<user, stage, file, hist, command, received, age, since, held,
          oe, queues, acc, ts, rows, quiet>>

fixed == <<user, file, oe, ts>>
narx == <<hist, command, received, age, since, held, quiet>>
outputerror == <<queues, acc>>

Never == -1
Old == Timeout + Period + 2  \* ages are not told apart beyond

Silence == [c \in CommandNames(file) |-> 0]

Init ==
  /\ user \in {"SystemIdDrive", "narx_sim_tool", "DiffDrive"}
  /\ stage = "loading"
  /\ IF user = "DiffDrive" THEN file = <<>> ELSE file \in Files
  /\ IF user = "DiffDrive" THEN oe \in OEs /\ ts \in SampleTimes
                           ELSE oe = <<>> /\ ts = 0
  /\ hist = <<>> /\ queues = <<>> /\ rows = <<>> /\ command = <<>>
  /\ received = FALSE /\ age = Never /\ quiet = Old
  /\ since = 0 /\ acc = 0
  /\ held = IF user = "DiffDrive" THEN <<0>> ELSE [s \in DOMAIN file |-> 0]

(* OnInitialize, or the beginning of the tool's main: Load must accept the *)
(* file, the drive needs its two outputs among the predictions and a       *)
(* mapping of every command.                                               *)
MayRun ==
  CASE user = "DiffDrive" -> OEConfigures(oe)
    [] user = "narx_sim_tool" -> Loads(file)
    [] user = "SystemIdDrive" -> /\ Loads(file)
                                 /\ Wanted \subseteq Outputs(file)
                                 /\ CommandNames(file) \subseteq Known

OnInitialize ==
  /\ stage = "loading"
  /\ IF MayRun
     THEN /\ stage' = "running"
          /\ IF user = "DiffDrive"
             THEN /\ queues' = OEQueues(oe) /\ UNCHANGED hist
                  /\ command' = 0
             ELSE /\ hist' = Reset(file) /\ UNCHANGED queues
                  /\ command' = Silence
     ELSE /\ stage' = "refused"
          /\ UNCHANGED <<hist, queues, command>>
  /\ UNCHANGED <<fixed, received, age, since, held, acc, rows, quiet>>

-----------------------------------------------------------------------------
(* SystemIdDrive.                                                          *)

CommandCallback ==
  /\ stage = "running" /\ user = "SystemIdDrive"
  /\ command' \in [CommandNames(file) -> Values]
  /\ received' = TRUE
  /\ quiet' = 0
  /\ UNCHANGED <<fixed, stage, hist, age, since, held, outputerror, rows>>

(* Freshness is tracked in simulated time, at the first step that sees the *)
(* command.                                                                *)
Aged == CASE received -> 0
          [] ~received /\ age = Never -> Never
          [] OTHER -> Min({age + 1, Old})

Applied ==
  IF Aged = Never \/ (Timeout > 0 /\ Aged > Timeout) THEN Silence ELSE command

(* NarxCoupledModel::Step.                                                 *)
Sample(commands) ==
  LET out == Evaluate(file, Pushed(hist, commands))
  IN  /\ hist' = Advance(file, hist, commands, out)
      /\ held' = out
      /\ rows' = Append(rows, [commands |-> commands, outputs |-> <<>>])

BeforePhysicsStep ==
  /\ stage = "running" /\ user = "SystemIdDrive"
  /\ age' = Aged
  /\ received' = FALSE
  /\ quiet' = Min({quiet + 1, Old})
  /\ \/ /\ Len(rows) < MaxSamples
        /\ Sample(Applied)
        /\ since' = 0
     \/ /\ since + 1 < Period
        /\ since' = since + 1
        /\ UNCHANGED <<hist, held, rows>>
  /\ UNCHANGED <<fixed, stage, command, outputerror>>

-----------------------------------------------------------------------------
(* narx_sim_tool: the first rows seed the model with recorded outputs.     *)

SeedStep ==
  /\ stage = "running" /\ user = "narx_sim_tool"
  /\ Len(rows) < MaxSeed
  /\ \A k \in DOMAIN rows : rows[k].outputs # <<>>
  /\ \E commands \in [CommandNames(file) -> Values],
        outputs \in [DOMAIN file -> Values] :
       /\ hist' = Advance(file, hist, commands, outputs)
       /\ held' = outputs
       /\ rows' = Append(rows, [commands |-> commands, outputs |-> outputs])
  /\ UNCHANGED <<fixed, stage, command, received, age, since, quiet,
                 outputerror>>

ReplayRow ==
  /\ stage = "running" /\ user = "narx_sim_tool"
  /\ Len(rows) < MaxRows
  /\ \E commands \in [CommandNames(file) -> Values] : Sample(commands)
  /\ UNCHANGED <<fixed, stage, command, received, age, since, quiet,
                 outputerror>>

-----------------------------------------------------------------------------
(* DiffDrive with use_id_model: the model catches up with simulated time.  *)

TwistCallback ==
  /\ stage = "running" /\ user = "DiffDrive"
  /\ command' \in Values
  /\ UNCHANGED <<fixed, stage, hist, received, age, since, held, quiet,
                 outputerror, rows>>

CatchUp(total) == [i \in 1 .. total \div ts |-> i]

DiffDriveStep ==
  /\ stage = "running" /\ user = "DiffDrive"
  /\ LET samples == CatchUp(acc + StepSize)
         after == FoldLeft(LAMBDA r, i :
                    [q |-> OEAdvance(oe, r.q, command),
                     y |-> OEOutput(oe, r.q, command)],
                    [q |-> queues, y |-> held[1]], samples)
     IN  /\ Len(rows) + Len(samples) <= MaxSamples
         /\ queues' = after.q
         /\ held' = <<after.y>>
         /\ acc' = acc + StepSize - ts * Len(samples)
         /\ rows' = rows \o [i \in DOMAIN samples |-> command]
  /\ UNCHANGED <<fixed, stage, hist, command, received, age, since, quiet>>

Next ==
  \/ OnInitialize
  \/ CommandCallback \/ BeforePhysicsStep
  \/ SeedStep \/ ReplayRow
  \/ TwistCallback \/ DiffDriveStep

Spec == Init /\ [][Next]_vars
-----------------------------------------------------------------------------
(* However many samples went by, and were trimmed from the histories, the  *)
(* velocities a drive holds are those the definition of the model gives    *)
(* for all commands since it was loaded, and no factor of a file that Load *)
(* accepts reads outside the histories.  A DiffDrive's model is less than  *)
(* a sample behind simulated time.                                         *)
HoldsItsAnswer ==
  IF user = "DiffDrive"
  THEN /\ rows # <<>> => held = <<Difference(oe, rows)>>
       /\ acc < ts
  ELSE /\ InBounds(file, Pushed(hist, Silence))
       /\ rows # <<>> => held = Last(FreeRun(file, rows))

(* A robot whose commands stay away is driven by zeros, at the latest one  *)
(* period and a step after cmd_timeout; one whose commands come in time is *)
(* driven by the newest one after at most a period.                        *)
FollowsTheStream ==
  user = "SystemIdDrive" /\ rows # <<>> =>
    LET applied == Last(rows).commands
    IN  /\ Timeout > 0 /\ quiet > Timeout + Period => applied = Silence
        /\ quiet \in Period .. Timeout => applied = command

(* The drive moves as its model answers to the commands of the moment.     *)
RunsAsIdentified == stage = "running" => HoldsItsAnswer /\ FollowsTheStream
=============================================================================
