------------------------- MODULE DscpQosScheduling -------------------------
(***************************************************************************)
(* How the DSCP of a packet reaches the scheduler.  Four kinds of threads  *)
(* meet here: SDAP entities of the CU-UP, the DU manager that sets up      *)
(* DRBs, and the cell thread that configures UEs and computes priorities.  *)
(* Each UE has one DRB.  The QoS of its logical channel is an object of    *)
(* logical_channel_config_pool, which UEs with equal configurations share; *)
(* operator== ignores five_qi and the runtime_* members.                   *)
(***************************************************************************)
EXTENDS DscpQosMapper

CONSTANTS Bearer,     \* the DRBs the core asks for: [five_qi, gbr]
          QosConfig   \* the 5QIs of the DU's qos_config

VARIABLES sdap,      \* DSCP that an SDAP entity registered and has yet to map
          drb,       \* progress of the set-up of the UE's DRB
          pool,      \* the shared objects, by what operator== looks at
          tracked,   \* track_delivered_rate of the UE's logical channel
          sched      \* what the cell thread is doing

vars == <<mapperVars, sdap, drb, pool, tracked, sched>>
duVars == <<drb, pool>>
cellVars == <<tracked, sched>>

ASSUME BearerAssumption ==
  /\ QosConfig \subseteq FiveQi
  /\ \A b \in Bearer : b.five_qi \in QosConfig

UsesGbrRate(res_type) == res_type \in {"gbr", "dc_gbr"}

\* The core signals GBR QoS flow information with every GBR 5QI.
ASSUME GbrBearerAssumption ==
  \A b \in Bearer : UsesGbrRate(QosOf(b.five_qi).res_type) => b.gbr # NoRates

NoBearer == [five_qi |-> None, gbr |-> NoRates]
NoKey == [qos |-> NoProfile, gbr |-> NoRates]
NoDrb == [st |-> "none", dscp |-> None, bearer |-> NoBearer, key |-> NoKey]
NotWeighed == [priority |-> 0, pdb |-> 0, dscp |-> None, rate |-> 0, measured |-> FALSE]
Idle == [pc |-> "idle", ue |-> None, dscp |-> None, weighed |-> NotWeighed]

Init ==
  /\ MapperInit
  /\ sdap = [i \in Index |-> None]
  /\ drb = [i \in Index |-> NoDrb]
  /\ pool = << >>
  /\ tracked = [i \in Index |-> FALSE]
  /\ sched = Idle

-----------------------------------------------------------------------------
\* SDAP: handle_sdu() and, for the uplink, handle_pdu().

\* The handler goes on to map the DSCP, registered or not; for one that is mapped
\* already the rest changes nothing, and the step is the whole handler.
handle_sdu(i, d, small) ==
  /\ sdap[i] = None
  /\ register_dscp_for_ue(i, d, small)
  /\ sdap' = [sdap EXCEPT ![i] = IF dscp_to_5qi_map[d] = None THEN d ELSE None]
  /\ UNCHANGED <<duVars, cellVars>>

handle_sdu_map(i) ==
  /\ sdap[i] # None
  /\ auto_map_dscp(sdap[i])
  /\ sdap' = [sdap EXCEPT ![i] = None]
  /\ UNCHANGED <<duVars, cellVars>>

-----------------------------------------------------------------------------
\* DU manager: setup_drbs() and the scheduler request that follows it.

setup_drbs(i, b) ==
  /\ drb[i].st = "none"
  /\ b.five_qi \in QosConfig
  /\ drb' = [drb EXCEPT ![i] = [NoDrb EXCEPT !.st = "read", !.dscp = ue_dscp_map[i], !.bearer = b]]
  /\ UNCHANGED <<mapperVars, sdap, pool, cellVars>>

Mapped5qi(dscp, five_qi) ==
  IF dscp # None /\ map_dscp_to_5qi(dscp) # None THEN map_dscp_to_5qi(dscp) ELSE five_qi

\* sync_runtime_with_original()
Original(five_qi, gbr) ==
  [five_qi |-> five_qi, res_type |-> QosOf(five_qi).res_type,
   priority |-> QosOf(five_qi).priority, pdb |-> QosOf(five_qi).pdb, gbr |-> gbr]

\* config_object_pool::create(): an equal object that exists is returned as it is.
PoolCreate(key, obj) ==
  [k \in DOMAIN pool \cup {key} |-> IF k \in DOMAIN pool THEN pool[k] ELSE obj]

\* qos_config.at() throws for a 5QI the DU was not configured with.
setup_drbs_map(i) ==
  LET five_qi == Mapped5qi(drb[i].dscp, drb[i].bearer.five_qi)
      key == [qos |-> QosOf(five_qi), gbr |-> drb[i].bearer.gbr]
  IN  /\ drb[i].st = "read"
      /\ IF five_qi \in QosConfig
           THEN /\ drb' = [drb EXCEPT ![i] = [NoDrb EXCEPT !.st = "created", !.key = key]]
                /\ pool' = PoolCreate(key, Original(five_qi, drb[i].bearer.gbr))
           ELSE /\ drb' = [drb EXCEPT ![i] = [NoDrb EXCEPT !.st = "thrown"]]
                /\ UNCHANGED pool
      /\ UNCHANGED <<mapperVars, sdap, cellVars>>

-----------------------------------------------------------------------------
\* Cell thread.

Lc(i) == pool[drb[i].key]

\* Between two tasks; after a priority its inputs are still at hand in sched.weighed.
AtRest == sched.pc \in {"idle", "done"}

\* dl_logical_channel_manager::configure()
configure(i) ==
  /\ AtRest
  /\ drb[i].st = "created"
  /\ drb' = [drb EXCEPT ![i].st = "active"]
  /\ tracked' = [tracked EXCEPT ![i] = Lc(i).gbr # NoRates \/ drb[i].key.gbr # NoRates]
  /\ sched' = Idle
  /\ UNCHANGED <<mapperVars, sdap, pool>>

\* The UE is released; neither the mapper nor the pool hears of it.
rem_ue(i) ==
  /\ AtRest
  /\ drb[i].st = "active"
  /\ drb' = [drb EXCEPT ![i] = NoDrb]
  /\ tracked' = [tracked EXCEPT ![i] = FALSE]
  /\ sched' = Idle
  /\ UNCHANGED <<mapperVars, sdap, pool>>

compute_prio_cached(i) ==
  /\ AtRest
  /\ drb[i].st = "active"
  /\ sched' = [Idle EXCEPT !.pc = "apply", !.ue = i,
                           !.dscp = IF sched.ue = i THEN sched.dscp ELSE ue_dscp_map[i]]
  /\ UNCHANGED <<mapperVars, sdap, duVars, tracked>>

\* compute_dl_prio() or compute_ul_prio() reads the DSCP of the UE,
compute_prio(i) ==
  /\ AtRest
  /\ drb[i].st = "active"
  /\ sched' = [Idle EXCEPT !.pc = "apply", !.ue = i, !.dscp = ue_dscp_map[i]]
  /\ UNCHANGED <<mapperVars, sdap, duVars, tracked>>

OverlaidRates_kept(lc, dscp, res_type) ==
  IF dscp # None /\ UsesGbrRate(res_type) THEN map_dscp_to_qos_rates(dscp) ELSE lc.gbr

\* runtime_gbr_qos_info after the overlay; without a DSCP it stays.
OverlaidRates(lc, dscp, res_type) ==
  CASE dscp = None -> lc.gbr
    [] dscp # None /\ UsesGbrRate(res_type) -> map_dscp_to_qos_rates(dscp)
    [] OTHER -> NoRates

AvgWindow_never_back(i, gbr) ==
  IF sched.dscp = None THEN tracked ELSE [tracked EXCEPT ![i] = @ /\ gbr # NoRates]

\* apply_lc_rate_avg_window(), called only for a UE with a DSCP.
AvgWindow(i, gbr) ==
  IF sched.dscp = None THEN tracked ELSE [tracked EXCEPT ![i] = gbr # NoRates]

\* overlays the QoS of the shared object,
apply_5qi_based_runtime_overrides ==
  LET i == sched.ue
      qos == QosOf(Mapped5qi(sched.dscp, Lc(i).five_qi))
      gbr == OverlaidRates(Lc(i), sched.dscp, qos.res_type)
  IN  /\ sched.pc = "apply"
      /\ pool' = [pool EXCEPT ![drb[i].key] =
                    [@ EXCEPT !.res_type = qos.res_type, !.priority = qos.priority,
                              !.pdb = qos.pdb, !.gbr = gbr]]
      /\ tracked' = AvgWindow(i, gbr)
      /\ sched' = [sched EXCEPT !.pc = "weigh"]
      /\ UNCHANGED <<mapperVars, sdap, drb>>

\* and weighs the UE, asking the mapper for its DSCP and the rates once more.  This is
\* compute_dl_qos_weights(); the uplink's weights, from the same overlay, take the average
\* of another manager, are not modelled and change no state.
compute_qos_weights ==
  LET i == sched.ue
      lc == Lc(i)
      rates == IF UsesGbrRate(lc.res_type) /\ ue_dscp_map[i] # None
               THEN map_dscp_to_qos_rates(ue_dscp_map[i]) ELSE NoRates
  IN  /\ sched.pc = "weigh"
      /\ sched' = [sched EXCEPT !.pc = "done",
                     !.weighed = [priority |-> lc.priority, pdb |-> lc.pdb, dscp |-> ue_dscp_map[i],
                                  rate |-> rates.gbr, measured |-> tracked[i]]]
      /\ UNCHANGED <<mapperVars, sdap, duVars, tracked>>

-----------------------------------------------------------------------------
\* Nothing catches what qos_config.at() throws: it ends the program.
Alive == \A i \in Index : drb[i].st # "thrown"

UeStep(i) ==
  \/ \E d \in Dscp, small \in BOOLEAN : handle_sdu(i, d, small)
  \/ handle_sdu_map(i)
  \/ \E b \in Bearer : setup_drbs(i, b)
  \/ setup_drbs_map(i)
  \/ configure(i)
  \/ rem_ue(i)
  \/ compute_prio(i)

Next ==
  /\ Alive
  /\ \/ \E i \in Index : UeStep(i)
     \/ apply_5qi_based_runtime_overrides
     \/ compute_qos_weights

Spec == Init /\ [][Next]_vars

\* Handlers end, and every slot the cell thread computes the priority of every UE
\* that has data: no UE is passed over for ever, whatever the others do.
Fairness ==
  /\ WF_vars(Alive /\ apply_5qi_based_runtime_overrides)
  /\ WF_vars(Alive /\ compute_qos_weights)
  /\ \A i \in Index :
       /\ WF_vars(Alive /\ handle_sdu_map(i))
       /\ SF_vars(Alive /\ compute_prio(i))

LiveSpec == Spec /\ Fairness

-----------------------------------------------------------------------------
Rates == {NoRates, gbr_rates, dc_gbr_rates} \cup {b.gbr : b \in Bearer}

Qos == [res_type : {"gbr", "non_gbr", "dc_gbr"}, priority : Nat, pdb : Nat]
Key == [qos : Qos \cup {NoProfile}, gbr : Rates]
Object == [five_qi : FiveQi, res_type : {"gbr", "non_gbr", "dc_gbr"},
           priority : Nat, pdb : Nat, gbr : Rates]
Drb == [st : {"none", "read", "created", "active", "thrown"},
        dscp : Dscp \cup {None}, bearer : Bearer \cup {NoBearer}, key : Key]
Weights == [priority : Nat, pdb : Nat, dscp : Dscp \cup {None}, rate : Nat, measured : BOOLEAN]
Sched == [pc : {"idle", "apply", "weigh", "done"}, ue : Index \cup {None},
          dscp : Dscp \cup {None}, weighed : Weights]

TypeOK ==
  /\ ue_dscp_map \in [Index -> Dscp \cup {None}]
  /\ dscp_to_5qi_map \in [Dscp -> FiveQi \cup {None}]
  /\ sdap \in [Index -> Dscp \cup {None}]
  /\ drb \in [Index -> Drb]
  /\ \A k \in DOMAIN pool : pool[k] \in Object
  /\ tracked \in [Index -> BOOLEAN]
  /\ sched \in Sched

\* The 5QI and the rates that a DSCP stands for once it is mapped.
Settled(d) ==
  IF InTable(d) THEN [five_qi |-> TableRow(d)[2], rates |-> TableRow(d)[3]]
  ELSE [five_qi |-> 9, rates |-> NoRates]

Weight(d) ==
  LET qos == QosOf(Settled(d).five_qi)
      rates == Settled(d).rates
  IN  [priority |-> qos.priority, pdb |-> qos.pdb, dscp |-> d, rate |-> rates.gbr,
       measured |-> rates # NoRates]

HasProfile(lc, d) ==
  LET five_qi == {Settled(d).five_qi} \cup (IF InTable(d) THEN {} ELSE {lc.five_qi})
  IN  /\ [res_type |-> lc.res_type, priority |-> lc.priority, pdb |-> lc.pdb]
           \in {QosOf(q) : q \in five_qi}
      /\ lc.gbr = Settled(d).rates

\* When a UE is weighed, its logical channel has the profile of one DSCP, the one
\* read at the start: priority, budget and type of its 5QI, and its rates, which are
\* measured if it has any.  Neither another UE that shares the object nor a packet
\* that arrives meanwhile mixes two profiles.  Only a DSCP that is neither in the
\* table nor mapped yet leaves the 5QI that the bearer was set up with.
OneProfile ==
  sched.pc = "weigh" /\ sched.dscp # None =>
    /\ HasProfile(Lc(sched.ue), sched.dscp)
    /\ tracked[sched.ue] <=> Lc(sched.ue).gbr # NoRates

\* compute_dl_qos_weights() takes an average of 0 for a UE that was not served and gives
\* it max_metric_weight; the average of a rate that is not measured is 0 as well.  The
\* code does weigh a rate target against such an average, but only in a decision that a
\* packet overtook: the DSCP read first has no row in the table, so that the overlay kept
\* a GBR bearer's type and dropped its rates, and the DSCP read for the rates is another
\* one.  Whenever both reads return the same DSCP, or the first one finds none or one of
\* the table, a UE with a rate target has its rate measured.
UnmeasuredOnlyOvertaken ==
  sched.weighed.rate # 0 /\ ~sched.weighed.measured =>
    /\ sched.weighed.dscp # sched.dscp
    /\ sched.dscp # None /\ ~InTable(sched.dscp)

\* Once the DSCP of a UE stays the same, so does what its priority is computed from:
\* the profile of that DSCP, whichever packets, UEs and bearers came before.
Converges ==
  \A i \in Index, d \in Dscp :
    <>[](ue_dscp_map[i] = d /\ dscp_to_5qi_map[d] # None /\ drb[i].st = "active" /\ Alive)
      => /\ []<>(sched.pc = "done" /\ sched.ue = i)
         /\ <>[](sched.pc = "done" /\ sched.ue = i => sched.weighed = Weight(d))


-----------------------------------------------------------------------------
\* The inductive invariant behind OneProfile: a DSCP is mapped to its own 5QI, an
\* object that a logical channel uses is never dropped, and the UE whose priority is
\* being computed stays configured.
IndInv ==
  /\ TypeOK
  /\ \A d \in Dscp : dscp_to_5qi_map[d] \in {None, Settled(d).five_qi}
  /\ \A i \in Index : drb[i].st = "read" => drb[i].bearer \in Bearer
  /\ \A i \in Index : drb[i].st \in {"created", "active"} => drb[i].key \in DOMAIN pool
  /\ sched.pc \in {"apply", "weigh"} => sched.ue \in Index /\ drb[sched.ue].st = "active"
  /\ OneProfile

\* The bearer of a UE was set up with a 5QI that has a guaranteed rate.
Guaranteed(i) == UsesGbrRate(drb[i].key.qos.res_type)

\* A UE whose index never had a DSCP has the bearer that the core asked for, and its
\* rate is measured if it is guaranteed.
AsAsked(i) ==
  ue_dscp_map[i] = None =>
    /\ drb[i].st = "read" => drb[i].dscp = None
    /\ drb[i].st = "created" /\ Guaranteed(i) => drb[i].key.gbr # NoRates
    /\ drb[i].st = "active" /\ Guaranteed(i) => tracked[i]

\* From the moment the absence of a DSCP was read, the rate of the UE remains measured,
\* and the overlay gives the object the type it was created with; a DSCP that was read
\* stays registered, though it may be replaced.
AsRead ==
  /\ sched.pc \in {"apply", "weigh"} /\ sched.dscp = None /\ Guaranteed(sched.ue) =>
       tracked[sched.ue]
  /\ sched.pc = "weigh" /\ sched.dscp = None =>
       Lc(sched.ue).res_type = drb[sched.ue].key.qos.res_type
  /\ sched.pc = "apply" /\ sched.dscp # None => ue_dscp_map[sched.ue] # None

\* The inductive invariant behind UnmeasuredOnlyOvertaken; an object keeps the 5QI that it
\* was created with, whatever is overlaid.
MeasuredInv ==
  /\ \A k \in DOMAIN pool : QosOf(pool[k].five_qi) = k.qos
  /\ \A i \in Index : AsAsked(i)
  /\ AsRead
  /\ UnmeasuredOnlyOvertaken
=============================================================================
