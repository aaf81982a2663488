------------------------------- MODULE PiLaw --------------------------------
(* The control laws of a Pi agent, vertex/controllers: the scalar law, and  *)
(* the microgrid controller composed of its virtual layer, its interface    *)
(* and its emulator.  Parameters are those of ControllerParams and of its   *)
(* blocks; an input is what Agent._control_step gives a step.               *)
EXTENDS LawNumbers, Sequences, SequencesExt

CONSTANTS
    None,           \* an absent optional field
    TcDefault       \* T_C_DEFAULT, in ms

ASSUME PiLawAssumption == TcDefault \in Nat

-----------------------------------------------------------------------------
(* FiniteTimeAdaptiveController and Disturbance.                           *)

FiniteTimeReset(p) ==
    [x |-> Num(p.state), z |-> Num(p.vstate), vartheta |-> Num(p.vartheta), step_count |-> 0]

Disturbance(p, t, uniform) ==
    LET d == p.disturbance
    IN  IF ~d.enabled THEN 0
        ELSE Num(d.noise_amplitude) * Num(uniform - d.noise_offset)
             + Num(d.beta) + Num(d.sine_amplitude) * Sin(Num(Num(d.frequency) * Num(t - d.phase)))

\* _consensus_term over the values that are usable.
ConsensusTerm(p, z, vstates, enabled) ==
    MapThenSumSet(
        LAMBDA j : -Sign(Num(z - vstates[j]))
                   * Power(Magnitude(Num(z - vstates[j])), Num(p.alpha)),
        {j \in DOMAIN vstates : j \in DOMAIN enabled /\ enabled[j]})

FiniteTimeStep(p, s, vstates, enabled, uniform) ==
    LET nu == Disturbance(p, s.step_count * p.dt, uniform)
        gi == Num(Num(p.gain_ij) * Num(ConsensusTerm(p, s.z, vstates, enabled)))
        sigma == Num(s.x - s.z)
        u == Num(gi - s.vartheta * Sign(sigma))
        dvartheta == IF Magnitude(sigma) > Num(p.delta) THEN 1 ELSE 0
    IN  [x |-> Num(s.x + Num(p.dt) * Num(u + nu)),
         z |-> Num(s.z + Num(p.dt) * gi),
         vartheta |-> Num(s.vartheta + Num(Num(p.dt) * Num(p.eta)) * dvartheta),
         step_count |-> (s.step_count + 1) % p.disturbance.samples]

-----------------------------------------------------------------------------
(* VirtualLayer.                                                           *)

\* hold, on the values _snapshot takes from the flat list; one that is not
\* there counts as zero.
HeldPairs(p, vstates) ==
    [j \in 1 .. p.degree |->
        [q \in Coordinates |-> IF 2 * (j - 1) + q \in DOMAIN vstates
                               THEN vstates[2 * (j - 1) + q] ELSE 0]]
Hold(p, held) ==
    LET v == p.virtual  r == <<v.rP, v.rQ>>
    IN  [q \in Coordinates |->
            Num(MapThenSumSet(LAMBDA j : held[j][q], DOMAIN held) + Num(v.b) * Num(r[q]))]

\* alpha and coefficients.
Alpha(p, t) ==
    Over(Num(p.virtual.alpha_0) * Num(p.virtual.T_o), AtLeast(p.virtual.T_o - t, p.virtual.delta_o))
FO(p, t) == Num(Alpha(p, t) + p.virtual.kappa_o)
RhoO(p, t) == Num(2 * Alpha(p, t))

\* candidate: nothing is committed.
Candidate(p, s, w, t) ==
    LET h == Num(p.dt)
        D == Num(p.degree + p.virtual.b)
        ao == Num(s.c * FO(p, t))
        eta == [q \in Coordinates |-> Num(D * s.z[q] - w[q])]
        k == Over(-ao, 1 + Num(h * ao) * D)
        g == [q \in Coordinates |-> Num(k * eta[q])]
    IN  [g |-> g,
         z |-> [q \in Coordinates |-> Num(s.z[q] + h * g[q])],
         c |-> Num(s.c + Num(Num(h * RhoO(p, t)) * Num(p.virtual.xi))
                         * Num(Num(FO(p, t) * FO(p, t)) * Num(eta[1] * eta[1] + eta[2] * eta[2])))]

-----------------------------------------------------------------------------
(* MicrogridPlant.                                                         *)

SmoothSaturation(r, x) ==
    <<Num(Num(r.p_max) * Tanh(Over(Num(r.kappa) * x[1], r.p_max))),
      Num(Num(r.q_max) * Tanh(Over(Num(r.kappa) * x[2], r.q_max)))>>
AZeta(profile, t) == IF profile = "rep" THEN Exp(Num(-5 * t)) ELSE Num(3 + Sin(Num(t)))

\* zeta, in normalized coordinates.
Zeta(r, x, t) ==
    LET s == SmoothSaturation(r, x)
        a == Over(AZeta(r.profile, t), r.kappa)
    IN  <<Num(a * Num(s[1] * Num(r.S1) + s[2] * Num(r.S2))),
          Num(a * Num(s[2] * Num(r.S1) - s[1] * Num(r.S2)))>>

PlantStep(p, x, mu, t) ==
    LET zeta == Zeta(p.plant, x, t)
    IN  [q \in Coordinates |-> Num(x[q] + Num(p.dt) * Num(mu[q] + zeta[q]))]

-----------------------------------------------------------------------------
(* The interfaces.  A step forms its command, then adapts: it returns the   *)
(* command, the applied one, and what it changed of itself.                 *)

Sigma(s) == [q \in Coordinates |-> Num(s.x[q] - s.z[q])]
Trig(sigma) == Magnitude(sigma[1]) + Magnitude(sigma[2])
Applied(p, mu) == [q \in Coordinates |-> Clip(mu[q], Num(p.interface.mu_max))]

AdaptiveInterface(p, s, g) ==
    LET sigma == Sigma(s)
        omega == [q \in Coordinates |->
                    Num(Sign(sigma[q]) * Least(s.vartheta, Over(Magnitude(sigma[q]), p.dt)))]
        mu == [q \in Coordinates |-> Num(g[q] - omega[q])]
        fired == Trig(sigma) > Num(p.interface.eps)
    IN  [mu |-> mu, applied |-> Applied(p, mu), fired |-> fired, S |-> s.S,
         vartheta |-> IF fired THEN Num(s.vartheta + p.interface.gamma) ELSE s.vartheta]

\* R_hat is symmetric, so the adaptation's transpose is free.
LCInterface(p, s, g, t) ==
    LET i == p.interface
        sigma == Sigma(s)
        r == SmoothSaturation(p.plant, s.x)
        A == Over(AZeta(p.plant.profile, t), p.plant.kappa)
        R(v) == <<Num(A * Num(r[1] * v[1] + r[2] * v[2])), Num(A * Num(r[2] * v[1] - r[1] * v[2]))>>
        deltaC == IF i.delta_c # None THEN i.delta_c ELSE 2 * p.dt
        lam == Over(i.beta_c, AtLeast(i.T_c - t, deltaC))
        terminal == i.terminal /\ t >= i.T_c
        estimated == R(s.S)  residual == R(sigma)
        omega == IF terminal THEN g ELSE [q \in Coordinates |-> Num(lam * sigma[q] + estimated[q])]
        mu == IF terminal THEN <<0, 0>> ELSE [q \in Coordinates |-> Num(g[q] - omega[q])]
        fired == /\ ~terminal
                 /\ i.adapt_band # None => Trig(sigma) <= Num(i.adapt_band)
        gammaS == Num(Num(i.Phi) * Num(Num(p.plant.kappa) * Num(p.plant.kappa)))
    IN  [mu |-> mu, applied |-> Applied(p, mu), fired |-> fired, vartheta |-> s.vartheta,
         S |-> IF ~fired THEN s.S
               ELSE [q \in Coordinates |-> Num(s.S[q] + Num(Num(p.dt) * gammaS) * residual[q])]]

-----------------------------------------------------------------------------
(* MicrogridController.                                                    *)

ControllerReset(p) ==
    [x |-> [q \in Coordinates |-> Over(p.X0[q], p.plant.kappa)],
     z |-> [q \in Coordinates |-> Num(p.z0[q])],
     c |-> Num(p.virtual.c_0), S |-> <<0, 0>>, updates |-> 0,
     vartheta |-> IF p.kind = "lc" THEN 0 ELSE Num(p.interface.vartheta0),
     step_count |-> 0, sat_run |-> 0, watchdog_cause |-> "none"]

\* T_C_DEFAULT, for an interface that has no deadline of its own.
Armed(p, t) == t >= (IF p.kind = "lc" THEN p.interface.T_c ELSE TcDefault)

\* _watchdog; the baseline has no gain to look at.
Cause(p, s, armed) ==
    CASE \E q \in Coordinates : Magnitude(s.x[q]) > XWatch     -> "state"
      [] p.kind = "adaptive" /\ s.vartheta > VarthetaWatch      -> "vartheta"
      [] armed /\ s.sat_run > SatPersist                        -> "saturation"
      [] OTHER                                                  -> "none"

\* The interface's command is applied, the virtual state committed.
Interface(p, s, g, t) ==
    IF p.kind = "lc" THEN LCInterface(p, s, g, t) ELSE AdaptiveInterface(p, s, g)
Committed(p, s, next, i, t) ==
    [x |-> PlantStep(p, s.x, i.applied, t), z |-> next.z, c |-> next.c,
     S |-> i.S, vartheta |-> i.vartheta,
     updates |-> IF i.fired THEN s.updates + 1 ELSE s.updates,
     step_count |-> s.step_count + 1,
     sat_run |-> IF s.watchdog_cause # "none" THEN s.sat_run
                 ELSE IF i.applied # i.mu THEN s.sat_run + 1 ELSE 0,
     watchdog_cause |-> s.watchdog_cause]
Watched(p, s, t) ==
    IF s.watchdog_cause # "none" THEN s
    ELSE [s EXCEPT !.watchdog_cause = Cause(p, s, Armed(p, t))]

ControllerStep(p, s, vstates) ==
    LET t == s.step_count * p.dt
        Stepped(next) == Committed(p, s, next, Interface(p, s, next.g, t), t)
    IN  Watched(p, Stepped(Candidate(p, s, Hold(p, HeldPairs(p, vstates)), t)), t)

-----------------------------------------------------------------------------
(* A run: a reset at the trigger, then one step per input.                 *)

Flat(heard) == [k \in 1 .. 2 * Len(heard) |-> heard[(k + 1) \div 2][2 - (k % 2)]]

PiTrajectory(p, inputs) ==
    LET Step(s, input) ==
          IF p.kind = "scalar"
          THEN FiniteTimeStep(p, s, [j \in DOMAIN input.heard |-> input.heard[j][1]],
                              input.enabled, input.uniform)
          ELSE ControllerStep(p, s, Flat(input.heard))
    IN  FoldLeft(LAMBDA run, input : Append(run, Step(Last(run), input)),
                 <<IF p.kind = "scalar" THEN FiniteTimeReset(p) ELSE ControllerReset(p)>>, inputs)
=============================================================================
