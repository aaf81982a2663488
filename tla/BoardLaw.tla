------------------------------ MODULE BoardLaw ------------------------------
(* The control laws of a board: coordination_task.c for the scalar law,     *)
(* microgrid_task.c for the two of the microgrid.  A step takes what the    *)
(* board holds of its parameters and its variables to the variables after   *)
(* it; an input is what the tick reads besides: the held neighbour values,  *)
(* which neighbours are enabled, and the next draw of the generator.  No    *)
(* number here is infinite, so what the code does of one is left out.       *)
EXTENDS LawNumbers, Sequences, SequencesExt

-----------------------------------------------------------------------------
(* The scalar law.                                                         *)

\* apply_control latches what ALGORITHM carried.
ScalarReset(b) ==
    LET a == b.algorithm
    IN  [x |-> Num(a.state), z |-> Num(a.vstate), vartheta |-> Num(a.vartheta),
         counter |-> a.counter]

\* disturbance(); its clock is the wrapping counter.
BoardDisturbance(b, counter, uniform) ==
    LET d == b.disturbance
        t == counter * b.algorithm.dt
    IN  IF d.enabled = 0 THEN 0
        ELSE Num(d.noise_amplitude) * Num(uniform - d.noise_offset) + Num(d.beta)
             + Num(d.sine_amplitude) * Sin(Num(Num(d.frequency) * Num(t - d.phase)))

\* v_i(): a neighbour in agreement or disabled contributes nothing.
Coupling(b, z, input) ==
    MapThenSumSet(
        LAMBDA j : LET diff == Num(z - input.heard[j][1])
                   IN  -Sign(diff) * Power(Magnitude(diff), Num(b.algorithm.alpha)),
        {j \in DOMAIN b.neighbors : input.enabled[j]})

ScalarStep(b, v, input) ==
    LET a == b.algorithm
        nu == BoardDisturbance(b, v.counter, input.uniform)
        gi == Num(Num(a.gain_ij) * Num(Coupling(b, v.z, input)))
        sigma == Num(v.x - v.z)
        u == Num(gi - v.vartheta * Sign(sigma))
    IN  [x |-> Num(v.x + Num(a.dt) * Num(u + nu)),
         z |-> Num(v.z + Num(a.dt) * gi),
         vartheta |-> IF Magnitude(sigma) > Num(a.delta)
                      THEN Num(v.vartheta + Num(a.dt) * Num(a.eta)) ELSE v.vartheta,
         counter |-> (v.counter + 1) % b.disturbance.samples]

-----------------------------------------------------------------------------
(* The microgrid's laws.                                                   *)

\* The variables as the last microgrid_reset left them.
MicrogridReset(b) ==
    [x |-> <<Over(b.start.X0[1], b.start.kappa), Over(b.start.X0[2], b.start.kappa)>>,
     z |-> <<Num(b.start.z0[1]), Num(b.start.z0[2])>>,
     c |-> Num(b.start.c_0), vartheta |-> Num(b.start.vartheta_0),
     S |-> <<0, 0>>, updates |-> 0, satRun |-> 0, watchdog |-> "none", counter |-> 0]

\* The regressor of smooth_saturation and a_zeta, on any parameter: of the
\* emulator's own, or of the estimate.
Uncertainty(b, x, t, S) ==
    LET ps == Num(Num(b.plant.p_max) * Tanh(Over(b.plant.kappa * x[1], b.plant.p_max)))
        qs == Num(Num(b.plant.q_max) * Tanh(Over(b.plant.kappa * x[2], b.plant.q_max)))
        zeta == IF b.plant.profile = 0 THEN Exp(Num(-5 * t)) ELSE Num(3 + Sin(Num(t)))
        A == Over(zeta, b.plant.kappa)
    IN  <<Num(A * Num(ps * S[1] + qs * S[2])), Num(A * Num(qs * S[1] - ps * S[2]))>>

\* mg_hold: over every declared neighbour, whatever its age.
Held(b, input) ==
    [q \in Coordinates |->
        Num(MapThenSumSet(LAMBDA j : input.heard[j][q], DOMAIN b.neighbors)
            + Num(b.virtual.b) * Num(IF q = 1 THEN b.virtual.rP ELSE b.virtual.rQ))]

\* mg_alpha.
Schedule(b, t) ==
    Over(Num(b.virtual.alpha_0) * Num(b.virtual.T_o),
         AtLeast(b.virtual.T_o - t, b.virtual.delta_o))

\* Steps 1 and 2 of the tick: the slope, and c after it.
Observer(b, v, input, t) ==
    LET h == Num(b.algorithm.dt)
        D == Num(b.virtual.degree + b.virtual.b)
        alpha == Schedule(b, t)
        f == Num(alpha + b.virtual.kappa_o)
        a == Num(v.c * f)
        w == Held(b, input)
        eta == [q \in Coordinates |-> Num(D * v.z[q] - w[q])]
        gain == Num(Num(h * 2 * alpha) * Num(Num(b.virtual.xi) * Num(f * f)))
    IN  [g |-> [q \in Coordinates |-> Over(-a * eta[q], 1 + h * Num(a * D))],
         c |-> Num(v.c + gain * Num(eta[1] * eta[1] + eta[2] * eta[2]))]

\* Step 3 under LAW_MICROGRID_LC: the command, and whether the estimate moves.
LcTerminal(b, t) == b.interface.terminal # 0 /\ t >= b.interface.T_c
LcCommand(b, v, g, sigma, t) ==
    LET delta == IF b.interface.delta_c <= 0 THEN 2 * b.algorithm.dt ELSE b.interface.delta_c
        lambda == Over(b.interface.beta_c, AtLeast(b.interface.T_c - t, delta))
        estimated == Uncertainty(b, v.x, t, v.S)
    IN  IF LcTerminal(b, t) THEN <<0, 0>>
        ELSE [q \in Coordinates |-> Num(g[q] - lambda * sigma[q] - estimated[q])]
\* Mutant of LcAdapts: the estimate is not frozen with the command.
LcAdaptsPastDeadline(b, sigma, t) ==
    \/ b.interface.adapt_band < 0
    \/ Magnitude(sigma[1]) + Magnitude(sigma[2]) <= Num(b.interface.adapt_band)
LcAdapts(b, sigma, t) ==
    /\ ~LcTerminal(b, t)
    /\ b.interface.adapt_band < 0
       \/ Magnitude(sigma[1]) + Magnitude(sigma[2]) <= Num(b.interface.adapt_band)

\* Step 3 of the adaptive law: the correction is clipped.
AdaptiveCommand(b, v, g, sigma) ==
    [q \in Coordinates |->
        Num(g[q] - Sign(sigma[q]) * Least(v.vartheta, Over(Magnitude(sigma[q]), b.algorithm.dt)))]
AdaptiveAdapts(b, sigma) ==
    Magnitude(sigma[1]) + Magnitude(sigma[2]) > Num(b.interface.eps)

\* The watchdog: it latches, and its branches are tried in this order.
Watchdog(b, v, t) ==
    CASE v.watchdog # "none"                                      -> v.watchdog
      [] Magnitude(v.x[1]) > XWatch \/ Magnitude(v.x[2]) > XWatch -> "state"
      [] v.vartheta > VarthetaWatch                               -> "vartheta"
      [] t >= b.interface.T_c /\ v.satRun > SatPersist            -> "saturation"
      [] OTHER                                                    -> "none"

Command(b, v, g, sigma, t) ==
    IF b.law = 2 THEN LcCommand(b, v, g, sigma, t) ELSE AdaptiveCommand(b, v, g, sigma)

\* Steps 3 to 6: the estimate or the gain moves after the command was formed,
\* and the emulator advances on the command applied.
Advanced(b, v, o, sigma, mu, t) ==
    LET h == Num(b.algorithm.dt)
        lc == b.law = 2
        applied == [q \in Coordinates |-> Clip(mu[q], Num(b.interface.mu_max))]
        adapts == IF lc THEN LcAdapts(b, sigma, t) ELSE AdaptiveAdapts(b, sigma)
        rate == Num(h * Num(Num(b.interface.Phi) * Num(Num(b.plant.kappa) * Num(b.plant.kappa))))
        zeta == Uncertainty(b, v.x, t, <<Num(b.plant.S1), Num(b.plant.S2)>>)
        residual == Uncertainty(b, v.x, t, sigma)
    IN  [v EXCEPT
           !.x = [q \in Coordinates |-> Num(@[q] + h * Num(applied[q] + zeta[q]))],
           !.z = [q \in Coordinates |-> Num(@[q] + h * o.g[q])],
           !.c = o.c,
           !.S = IF lc /\ adapts
                 THEN [q \in Coordinates |-> Num(@[q] + rate * residual[q])]
                 ELSE @,
           !.vartheta = IF ~lc /\ adapts THEN Num(@ + b.interface.gamma) ELSE @,
           !.updates = IF adapts THEN @ + 1 ELSE @,
           !.satRun = IF applied # mu THEN @ + 1 ELSE 0,
           !.counter = @ + 1]
Judged(b, v, t) == [v EXCEPT !.watchdog = Watchdog(b, v, t)]

\* microgrid_step.  The command is formed on the old states.
MicrogridStep(b, v, input) ==
    LET t == v.counter * b.algorithm.dt
        sigma == [q \in Coordinates |-> Num(v.x[q] - v.z[q])]
        Stepped(o) == Advanced(b, v, o, sigma, Command(b, v, o.g, sigma, t), t)
    IN  Judged(b, Stepped(Observer(b, v, input, t)), t)

-----------------------------------------------------------------------------
(* A run: what the trigger left, then one discrete_step per input.         *)

BoardTrajectory(b, inputs) ==
    LET Step(v, input) == IF b.law = 0 THEN ScalarStep(b, v, input) ELSE MicrogridStep(b, v, input)
    IN  FoldLeft(LAMBDA run, input : Append(run, Step(Last(run), input)),
                 <<IF b.law = 0 THEN ScalarReset(b) ELSE MicrogridReset(b)>>, inputs)
=============================================================================
