--------------------------- MODULE DscpQosProofs ---------------------------
(***************************************************************************)
(* OneProfile and UnmeasuredOnlyOvertaken for every set of code points, UEs and  *)
(* bearers, from the actual tables of dscp_qos_mapper.                     *)
(***************************************************************************)
EXTENDS DscpQosScheduling, TLAPS

GbrFiveQi == {1, 2, 3, 4, 65, 66, 67, 82, 83, 84, 85}

\* Every row of the 5QI table is typed, and the GBR 5QIs are those listed.
LEMMA QosRows ==
  ASSUME NEW s \in five_qi_to_qos_mapping
  PROVE  /\ s[2] \in {"gbr", "non_gbr", "dc_gbr"} /\ s[3] \in Nat /\ s[4] \in Nat
         /\ s[2] \in {"gbr", "dc_gbr"} <=> s[1] \in GbrFiveQi
  BY DEF five_qi_to_qos_mapping, GbrFiveQi

\* The QoS of a 5QI of the table is well-typed.
LEMMA QosTyped ==
  ASSUME NEW q \in FiveQi
  PROVE  QosOf(q) \in Qos /\ (UsesGbrRate(QosOf(q).res_type) <=> q \in GbrFiveQi)
<1> DEFINE row == CHOOSE r \in five_qi_to_qos_mapping : r[1] = q
<1>1. \E r \in five_qi_to_qos_mapping : r[1] = q
  BY DEF FiveQi
<1>2. row \in five_qi_to_qos_mapping /\ row[1] = q
  BY <1>1
<1>3. QosOf(q) = [res_type |-> row[2], priority |-> row[3], pdb |-> row[4]]
  BY DEF QosOf
<1> HIDE DEF row
<1>4. /\ row[2] \in {"gbr", "non_gbr", "dc_gbr"} /\ row[3] \in Nat /\ row[4] \in Nat
      /\ row[2] \in {"gbr", "dc_gbr"} <=> q \in GbrFiveQi
  BY <1>2, QosRows
<1> QED
  BY <1>3, <1>4 DEF Qos, UsesGbrRate

\* Every row of the DSCP table names a 5QI of the other table, and has rates exactly
\* if that 5QI is a GBR one.
LEMMA ProfileRows ==
  ASSUME NEW s \in dscp_qos_profile_table
  PROVE  /\ s[2] \in FiveQi /\ s[3] \in {NoRates, gbr_rates, dc_gbr_rates}
         /\ s[3] # NoRates <=> s[2] \in GbrFiveQi
<1>1. NoRates # gbr_rates /\ NoRates # dc_gbr_rates
  BY DEF NoRates, gbr_rates, dc_gbr_rates
<1>2. {2, 3, 4, 5, 6, 7, 9, 66, 67, 70, 80, 82, 83, 84, 85} \subseteq FiveQi
  BY DEF FiveQi, five_qi_to_qos_mapping
<1>3. s[2] \in {2, 3, 4, 5, 6, 7, 9, 66, 67, 70, 80, 82, 83, 84, 85}
  BY DEF dscp_qos_profile_table
<1>4. s[3] \in {NoRates, gbr_rates, dc_gbr_rates}
  BY DEF dscp_qos_profile_table
<1>5. s[3] # NoRates <=> s[2] \in GbrFiveQi
  BY <1>1 DEF dscp_qos_profile_table, GbrFiveQi
<1> QED
  BY <1>2, <1>3, <1>4, <1>5

\* What a DSCP stands for: its rates and its 5QI agree.
LEMMA SettledTyped ==
  ASSUME NEW d \in Dscp
  PROVE  /\ Settled(d).five_qi \in FiveQi
         /\ Settled(d).rates \in {NoRates, gbr_rates, dc_gbr_rates}
         /\ Settled(d).rates # NoRates <=> Settled(d).five_qi \in GbrFiveQi
         /\ InTable(d) => /\ Settled(d).five_qi = TableRow(d)[2]
                          /\ Settled(d).rates = TableRow(d)[3]
         /\ ~InTable(d) => Settled(d).five_qi = 9 /\ Settled(d).rates = NoRates
<1>1. CASE InTable(d)
  <2>1. TableRow(d) \in dscp_qos_profile_table
    BY <1>1 DEF InTable, TableRow
  <2>2. Settled(d) = [five_qi |-> TableRow(d)[2], rates |-> TableRow(d)[3]]
    BY <1>1 DEF Settled
  <2> QED
    BY <1>1, <2>1, <2>2, ProfileRows
<1>2. CASE ~InTable(d)
  <2>1. 9 \in FiveQi /\ 9 \notin GbrFiveQi
    BY DEF FiveQi, five_qi_to_qos_mapping, GbrFiveQi
  <2> QED
    BY <1>2, <2>1 DEF Settled
<1> QED
  BY <1>1, <1>2

\* What the mapper answers for a DSCP, whether or not it is mapped yet: its own 5QI
\* and its own rates, and nothing only if it is neither mapped nor in the table.
LEMMA Answers ==
  ASSUME NEW d \in Dscp, dscp_to_5qi_map[d] \in {None, Settled(d).five_qi}
  PROVE  /\ map_dscp_to_qos_rates(d) = Settled(d).rates
         /\ \/ map_dscp_to_5qi(d) = Settled(d).five_qi
            \/ map_dscp_to_5qi(d) = None /\ ~InTable(d)
         /\ Settled(d).five_qi # None
<1>1. None \notin FiveQi
  BY DEF None, FiveQi, five_qi_to_qos_mapping
<1>2. Settled(d).five_qi # None
  BY <1>1, SettledTyped
<1>3. CASE InTable(d)
  <2>1. resolve_dscp_profile(d) = [five_qi |-> Settled(d).five_qi, rates |-> Settled(d).rates]
    BY <1>2, <1>3, SettledTyped DEF resolve_dscp_profile
  <2> QED
    BY <1>2, <2>1 DEF map_dscp_to_qos_rates, map_dscp_to_5qi
<1>4. CASE ~InTable(d)
  <2>1. resolve_dscp_profile(d) = [five_qi |-> dscp_to_5qi_map[d], rates |-> NoRates]
    BY <1>4 DEF resolve_dscp_profile
  <2> QED
    BY <1>2, <1>4, <2>1, SettledTyped DEF map_dscp_to_qos_rates, map_dscp_to_5qi
<1> QED
  BY <1>2, <1>3, <1>4

\* The 5QI that the overlay or the set-up of a DRB uses.
LEMMA MappedOK ==
  ASSUME NEW d \in Dscp \cup {None}, NEW q \in FiveQi,
         d # None => dscp_to_5qi_map[d] \in {None, Settled(d).five_qi}
  PROVE  /\ Mapped5qi(d, q) \in FiveQi
         /\ d # None => \/ Mapped5qi(d, q) = Settled(d).five_qi
                        \/ ~InTable(d) /\ Mapped5qi(d, q) = q
<1>1. CASE d = None
  BY <1>1 DEF Mapped5qi
<1>2. CASE d # None
  BY <1>2, Answers, SettledTyped DEF Mapped5qi
<1> QED
  BY <1>1, <1>2

\* The rates that the overlay writes are those of the DSCP.
LEMMA OverlaidOK ==
  ASSUME NEW d \in Dscp, NEW lc \in Object,
         dscp_to_5qi_map[d] \in {None, Settled(d).five_qi}
  PROVE  d # None => OverlaidRates(lc, d, QosOf(Mapped5qi(d, lc.five_qi)).res_type) = Settled(d).rates
<1> DEFINE q == Mapped5qi(d, lc.five_qi)
<1>1. lc.five_qi \in FiveQi
  BY DEF Object
<1>2. /\ q \in FiveQi
      /\ d # None => q = Settled(d).five_qi \/ ~InTable(d)
  BY <1>1, MappedOK
<1>3. UsesGbrRate(QosOf(q).res_type) <=> q \in GbrFiveQi
  BY <1>2, QosTyped
<1> HIDE DEF q
<1>4. map_dscp_to_qos_rates(d) = Settled(d).rates
  BY Answers
<1>5. d # None /\ ~UsesGbrRate(QosOf(q).res_type) => Settled(d).rates = NoRates
  BY <1>2, <1>3, SettledTyped
<1>6. d # None => OverlaidRates(lc, d, QosOf(q).res_type) = Settled(d).rates
  BY <1>4, <1>5 DEF OverlaidRates
<1> QED
  BY <1>6 DEF q

\* Packets of the CU-UP change the mapper only, and add only what a DSCP stands for.
LEMMA SdapOK ==
  ASSUME IndInv, NEW i \in Index,
         handle_sdu_map(i) \/ \E d \in Dscp, small \in BOOLEAN : handle_sdu(i, d, small)
  PROVE  IndInv'
<1>1. UNCHANGED <<drb, pool, tracked, sched>>
  BY DEF handle_sdu, handle_sdu_map, duVars, cellVars
<1>2. OneProfile'
  BY <1>1 DEF IndInv, OneProfile, Lc
<1>3. CASE handle_sdu_map(i)
  <2>1. sdap[i] \in Dscp
    BY <1>3 DEF IndInv, TypeOK, handle_sdu_map
  <2>2. /\ ue_dscp_map' = ue_dscp_map
        /\ sdap' \in [Index -> Dscp \cup {None}]
    BY <1>3 DEF IndInv, TypeOK, handle_sdu_map, auto_map_dscp
  <2>3. \A d \in Dscp : dscp_to_5qi_map'[d] \in {dscp_to_5qi_map[d], Settled(d).five_qi}
    <3>1. \A d \in Dscp \ {sdap[i]} : dscp_to_5qi_map'[d] = dscp_to_5qi_map[d]
      BY <1>3, <2>1 DEF IndInv, TypeOK, handle_sdu_map, auto_map_dscp
    <3>2. dscp_to_5qi_map'[sdap[i]] =
            IF dscp_to_5qi_map[sdap[i]] # None THEN dscp_to_5qi_map[sdap[i]]
            ELSE IF InTable(sdap[i]) /\ TableRow(sdap[i])[2] \in FiveQi
                 THEN TableRow(sdap[i])[2] ELSE 9
      BY <1>3, <2>1 DEF IndInv, TypeOK, handle_sdu_map, auto_map_dscp
    <3>3. dscp_to_5qi_map'[sdap[i]] \in {dscp_to_5qi_map[sdap[i]], Settled(sdap[i]).five_qi}
      BY <2>1, <3>2, SettledTyped
    <3> QED
      BY <3>1, <3>3
  <2>4. \A d \in Dscp : dscp_to_5qi_map'[d] \in {None, Settled(d).five_qi}
    BY <2>3 DEF IndInv
  <2>5. dscp_to_5qi_map' \in [Dscp -> FiveQi \cup {None}]
    <3>1. \A d \in Dscp : dscp_to_5qi_map'[d] \in FiveQi \cup {None}
      BY <2>4, SettledTyped
    <3>2. dscp_to_5qi_map' = [d \in Dscp |-> dscp_to_5qi_map'[d]]
      BY <1>3, Zenon DEF IndInv, TypeOK, handle_sdu_map, auto_map_dscp
    <3> QED
      BY <3>1, <3>2
  <2>6. TypeOK'
    BY <1>1, <2>2, <2>5 DEF IndInv, TypeOK
  <2> QED
    BY <1>1, <1>2, <2>4, <2>6 DEF IndInv, Settled, InTable, TableRow
<1>4. ASSUME NEW d \in Dscp, NEW small \in BOOLEAN, handle_sdu(i, d, small) PROVE IndInv'
  <2>1. dscp_to_5qi_map' = dscp_to_5qi_map /\ sdap' \in [Index -> Dscp \cup {None}]
    BY <1>4 DEF IndInv, TypeOK, handle_sdu, register_dscp_for_ue
  <2>2. ue_dscp_map' \in {ue_dscp_map, [ue_dscp_map EXCEPT ![i] = d]}
    BY <1>4 DEF handle_sdu, register_dscp_for_ue
  <2>3. ue_dscp_map' \in [Index -> Dscp \cup {None}]
    BY <2>2 DEF IndInv, TypeOK
  <2>4. TypeOK'
    BY <1>1, <2>1, <2>3 DEF IndInv, TypeOK
  <2> QED
    BY <1>1, <1>2, <2>1, <2>4 DEF IndInv, Settled, InTable, TableRow
<1> QED
  BY <1>3, <1>4

\* The set-up of a DRB may add an object to the pool and never touches one.
LEMMA SetupOK ==
  ASSUME IndInv, NEW i \in Index, setup_drbs_map(i) \/ \E b \in Bearer : setup_drbs(i, b)
  PROVE  IndInv'
<1>1. /\ UNCHANGED <<ue_dscp_map, dscp_to_5qi_map, sdap, tracked, sched>>
      /\ drb[i].st \in {"none", "read"}
  BY Zenon DEF setup_drbs, setup_drbs_map, mapperVars, cellVars
<1>2. NoDrb \in Drb
  BY DEF NoDrb, NoKey, Key, Rates, Drb
<1>3. /\ drb' \in [Index -> Drb]
      /\ \A u \in Index \ {i} : drb'[u] = drb[u]
      /\ drb'[i].st \in {"read", "created", "thrown"}
      /\ drb'[i].st = "read" => drb'[i].bearer \in Bearer
      /\ drb'[i].st = "created" => drb'[i].key \in DOMAIN pool'
      /\ DOMAIN pool \subseteq DOMAIN pool' /\ \A k \in DOMAIN pool : pool'[k] = pool[k]
      /\ \A k \in DOMAIN pool' : pool'[k] \in Object
  <2>1. ASSUME NEW b \in Bearer, setup_drbs(i, b) PROVE <1>3!:
    <3> DEFINE n == [NoDrb EXCEPT !.st = "read", !.dscp = ue_dscp_map[i], !.bearer = b]
    <3>1. drb' = [drb EXCEPT ![i] = n] /\ pool' = pool
      BY <2>1 DEF setup_drbs
    <3>2. /\ n \in Drb
          /\ n.st = "read" /\ n.bearer = b
      BY <1>2, Zenon DEF IndInv, TypeOK, Drb
    <3> HIDE DEF n
    <3> QED
      BY <3>1, <3>2 DEF IndInv, TypeOK
  <2>2. CASE setup_drbs_map(i)
    <3> DEFINE q == Mapped5qi(drb[i].dscp, drb[i].bearer.five_qi)
               key == [qos |-> QosOf(q), gbr |-> drb[i].bearer.gbr]
               obj == Original(q, drb[i].bearer.gbr)
               made == [NoDrb EXCEPT !.st = "created", !.key = key]
               lost == [NoDrb EXCEPT !.st = "thrown"]
    <3>1. drb[i].dscp \in Dscp \cup {None} /\ drb[i].bearer \in Bearer
      BY <2>2 DEF IndInv, TypeOK, setup_drbs_map, Drb
    <3>2. drb[i].bearer.five_qi \in FiveQi /\ drb[i].bearer.gbr \in Rates
      BY <3>1, BearerAssumption DEF Rates
    <3>3. q \in FiveQi
      BY <3>1, <3>2, MappedOK DEF IndInv
    <3>4. QosOf(q) \in Qos
      BY <3>3, QosTyped
    <3> HIDE DEF q
    <3>5. key \in Key
      BY <3>2, <3>4 DEF Key
    <3>6. obj \in Object
      BY <3>2, <3>3, <3>4 DEF Original, Object, Qos
    <3>7. IF q \in QosConfig THEN drb' = [drb EXCEPT ![i] = made] /\ pool' = PoolCreate(key, obj)
                             ELSE drb' = [drb EXCEPT ![i] = lost] /\ pool' = pool
      BY <2>2 DEF setup_drbs_map, q
    <3> HIDE DEF key, obj
    <3>8. /\ made \in Drb
          /\ made.st = "created" /\ made.key = key
          /\ lost \in Drb
          /\ lost.st = "thrown"
      BY <1>2, <3>5, Zenon DEF Drb
    <3> HIDE DEF made, lost
    <3>9. CASE q \in QosConfig
      <4>1. /\ DOMAIN pool' = DOMAIN pool \cup {key}
            /\ \A k \in DOMAIN pool' : pool'[k] = IF k \in DOMAIN pool THEN pool[k] ELSE obj
        BY <3>7, <3>9 DEF PoolCreate
      <4> QED
        BY <3>6, <3>7, <3>8, <3>9, <4>1 DEF IndInv, TypeOK
    <3>10. CASE q \notin QosConfig
      <4>1. drb' = [drb EXCEPT ![i] = lost] /\ pool' = pool
        BY <3>7, <3>10
      <4> QED
        BY <3>8, <4>1 DEF IndInv, TypeOK
    <3> QED
      BY <3>9, <3>10
  <2> QED
    BY <2>1, <2>2
<1>4. sched.pc \in {"apply", "weigh"} => sched.ue # i /\ drb'[sched.ue] = drb[sched.ue]
  BY <1>1, <1>3 DEF IndInv
<1>5. sched.pc = "weigh" => Lc(sched.ue)' = Lc(sched.ue)
  BY <1>1, <1>3, <1>4 DEF IndInv, Lc
<1>6. OneProfile'
  BY <1>1, <1>5 DEF IndInv, OneProfile
<1>7. TypeOK'
  BY <1>1, <1>3 DEF IndInv, TypeOK
<1>8. \A u \in Index : /\ drb'[u].st = "read" => drb'[u].bearer \in Bearer
                       /\ drb'[u].st \in {"created", "active"} => drb'[u].key \in DOMAIN pool'
  BY <1>3 DEF IndInv
<1>9. sched'.pc \in {"apply", "weigh"} => sched'.ue \in Index /\ drb'[sched'.ue].st = "active"
  BY <1>1, <1>4 DEF IndInv
<1> QED
  BY <1>1, <1>6, <1>7, <1>8, <1>9 DEF IndInv, Settled, InTable, TableRow

\* The cell thread at rest, before it has computed any priority.
LEMMA IdleTyped == Idle \in Sched /\ Idle.pc = "idle"
  BY DEF Idle, Sched, NotWeighed, Weights

\* The cell thread configures, releases and visits UEs only between two priorities.
LEMMA AtRestOK ==
  ASSUME IndInv, NEW i \in Index, configure(i) \/ rem_ue(i) \/ compute_prio(i)
  PROVE  IndInv'
<1>1. UNCHANGED <<ue_dscp_map, dscp_to_5qi_map, sdap, pool>>
  BY DEF configure, rem_ue, compute_prio, mapperVars, duVars
<1>2. Idle \in Sched /\ Idle.pc = "idle"
  BY IdleTyped
<1>3. CASE configure(i)
  <2>1. /\ drb' = [drb EXCEPT ![i].st = "active"] /\ drb[i].st = "created" /\ sched' = Idle
        /\ tracked' \in [Index -> BOOLEAN]
    BY <1>3 DEF configure, IndInv, TypeOK
  <2>2. /\ drb' \in [Index -> Drb]
        /\ \A u \in Index \ {i} : drb'[u] = drb[u]
        /\ drb'[i].st = "active" /\ drb'[i].key = drb[i].key
    <3> DEFINE n == [drb[i] EXCEPT !.st = "active"]
    <3>1. n \in Drb /\ n.st = "active" /\ n.key = drb[i].key
      BY DEF IndInv, TypeOK, Drb
    <3>2. drb' = [drb EXCEPT ![i] = n]
      BY <2>1
    <3> HIDE DEF n
    <3> QED
      BY <3>1, <3>2 DEF IndInv, TypeOK
  <2>3. TypeOK'
    BY <1>1, <1>2, <2>1, <2>2 DEF IndInv, TypeOK
  <2>4. OneProfile'
    BY <1>2, <2>1 DEF OneProfile
  <2> QED
    BY <1>1, <1>2, <2>1, <2>2, <2>3, <2>4 DEF IndInv
<1>4. CASE rem_ue(i)
  <2>1. drb' = [drb EXCEPT ![i] = NoDrb] /\ sched' = Idle /\ tracked' \in [Index -> BOOLEAN]
    BY <1>4 DEF rem_ue, IndInv, TypeOK
  <2>2. /\ NoDrb \in Drb
        /\ NoDrb.st = "none"
    BY DEF NoDrb, NoKey, Key, Rates, Drb
  <2>3. /\ drb' \in [Index -> Drb]
        /\ \A u \in Index \ {i} : drb'[u] = drb[u]
        /\ drb'[i].st = "none"
    BY <2>1, <2>2 DEF IndInv, TypeOK
  <2>4. TypeOK'
    BY <1>1, <1>2, <2>1, <2>3 DEF IndInv, TypeOK
  <2>5. OneProfile'
    BY <1>2, <2>1 DEF OneProfile
  <2> QED
    BY <1>1, <1>2, <2>1, <2>3, <2>4, <2>5 DEF IndInv
<1>5. CASE compute_prio(i)
  <2>1. UNCHANGED <<drb, tracked>> /\ drb[i].st = "active"
    BY <1>5 DEF compute_prio, duVars
  <2>2. sched'.pc = "apply" /\ sched'.ue = i /\ sched' \in Sched
    <3>1. sched' = [Idle EXCEPT !.pc = "apply", !.ue = i, !.dscp = ue_dscp_map[i]]
      BY <1>5 DEF compute_prio
    <3>2. ue_dscp_map[i] \in Dscp \cup {None}
      BY DEF IndInv, TypeOK
    <3> QED
      BY <1>2, <3>1, <3>2, ZenonT(30) DEF Sched
  <2>3. TypeOK'
    BY <1>1, <2>1, <2>2 DEF IndInv, TypeOK
  <2>4. OneProfile'
    BY <2>2 DEF OneProfile
  <2> QED
    BY <1>1, <2>1, <2>2, <2>3, <2>4 DEF IndInv
<1> QED
  BY <1>3, <1>4, <1>5

\* The overlay gives the shared object the profile of the DSCP that was read.
LEMMA ApplyOK ==
  ASSUME IndInv, apply_5qi_based_runtime_overrides
  PROVE  IndInv'
<1> DEFINE i == sched.ue
           d == sched.dscp
           k == drb[i].key
           q == Mapped5qi(d, Lc(i).five_qi)
           gbr == OverlaidRates(Lc(i), d, QosOf(q).res_type)
           obj == [Lc(i) EXCEPT !.res_type = QosOf(q).res_type, !.priority = QosOf(q).priority,
                                !.pdb = QosOf(q).pdb, !.gbr = gbr]
<1>1. /\ i \in Index /\ k \in DOMAIN pool /\ d \in Dscp \cup {None} /\ Lc(i) = pool[k]
      /\ Lc(i) \in Object
  BY Zenon DEF IndInv, TypeOK, apply_5qi_based_runtime_overrides, Lc, Sched, Drb
<1>2. /\ UNCHANGED <<ue_dscp_map, dscp_to_5qi_map, sdap, drb>>
      /\ pool' = [pool EXCEPT ![k] = obj]
      /\ tracked' = AvgWindow(i, gbr)
      /\ sched' = [sched EXCEPT !.pc = "weigh"]
  BY Zenon DEF apply_5qi_based_runtime_overrides, mapperVars, Lc
<1>3. Lc(i).five_qi \in FiveQi /\ Lc(i).gbr \in Rates
  BY <1>1 DEF Object
<1>4. /\ q \in FiveQi
      /\ d # None => q = Settled(d).five_qi \/ (~InTable(d) /\ q = Lc(i).five_qi)
  BY <1>1, <1>3, MappedOK DEF IndInv
<1>5. QosOf(q) \in Qos
  BY <1>4, QosTyped
<1>6. d # None => gbr = Settled(d).rates
  BY <1>1, OverlaidOK DEF IndInv
<1>7. gbr \in Rates
  <2>1. CASE d = None
    BY <2>1, <1>3 DEF OverlaidRates
  <2>2. CASE d # None
    BY <2>2, <1>1, <1>6, SettledTyped DEF Rates
  <2> QED
    BY <2>1, <2>2
<1> HIDE DEF q, gbr
<1>8. /\ obj \in Object /\ obj.five_qi = Lc(i).five_qi /\ obj.gbr = gbr
      /\ [res_type |-> obj.res_type, priority |-> obj.priority, pdb |-> obj.pdb] = QosOf(q)
  BY <1>1, <1>5, <1>7, Zenon DEF Object, Qos
<1>9. d # None => HasProfile(obj, d)
  BY <1>4, <1>6, <1>8 DEF HasProfile
<1>10. /\ tracked' \in [Index -> BOOLEAN]
       /\ d # None => (tracked'[i] <=> gbr # NoRates)
  BY <1>1, <1>2, Zenon DEF AvgWindow, IndInv, TypeOK
<1> HIDE DEF obj
<1>11. /\ DOMAIN pool' = DOMAIN pool /\ pool'[k] = obj
       /\ \A j \in DOMAIN pool : pool'[j] \in Object
  BY <1>1, <1>2, <1>8 DEF IndInv, TypeOK
<1>12. sched'.pc = "weigh" /\ sched'.ue = i /\ sched'.dscp = d /\ sched' \in Sched
  BY <1>2 DEF IndInv, TypeOK, Sched
<1>13. TypeOK'
  BY <1>1, <1>2, <1>10, <1>11, <1>12 DEF IndInv, TypeOK
<1>14. Lc(sched.ue)' = obj
  BY <1>2, <1>11, <1>12 DEF Lc
<1>15. OneProfile'
  BY <1>8, <1>9, <1>10, <1>12, <1>14 DEF OneProfile
<1>16. drb[i].st = "active"
  BY DEF IndInv, apply_5qi_based_runtime_overrides
<1> QED
  BY <1>1, <1>2, <1>11, <1>12, <1>13, <1>15, <1>16, Zenon DEF IndInv

\* Weighing changes nothing but the result.
LEMMA WeighOK ==
  ASSUME IndInv, compute_qos_weights
  PROVE  IndInv'
<1> DEFINE i == sched.ue
           lc == Lc(i)
           rates == IF UsesGbrRate(lc.res_type) /\ ue_dscp_map[i] # None
                    THEN map_dscp_to_qos_rates(ue_dscp_map[i]) ELSE NoRates
           w == [priority |-> lc.priority, pdb |-> lc.pdb, dscp |-> ue_dscp_map[i],
                 rate |-> rates.gbr, measured |-> tracked[i]]
<1>1. /\ UNCHANGED <<ue_dscp_map, dscp_to_5qi_map, sdap, drb, pool, tracked>>
      /\ sched' = [sched EXCEPT !.pc = "done", !.weighed = w]
  BY DEF compute_qos_weights, mapperVars, duVars
<1>2. i \in Index /\ lc \in Object /\ ue_dscp_map[i] \in Dscp \cup {None}
  BY DEF compute_qos_weights, IndInv, TypeOK, Lc
<1>3. rates \in {NoRates, gbr_rates, dc_gbr_rates}
  BY <1>2, Answers, SettledTyped DEF IndInv
<1>4. rates.gbr \in Nat
  <2> HIDE DEF rates
  <2> QED
    BY <1>3 DEF NoRates, gbr_rates, dc_gbr_rates
<1>5. tracked[i] \in BOOLEAN
  BY <1>2 DEF IndInv, TypeOK
<1> HIDE DEF rates, lc
<1>6. w \in Weights
  BY <1>2, <1>4, <1>5 DEF Weights, Object
<1> HIDE DEF w
<1>7. sched' \in Sched /\ sched'.pc = "done"
  BY <1>1, <1>6, Zenon DEF IndInv, TypeOK, Sched
<1>8. TypeOK'
  BY <1>1, <1>7 DEF IndInv, TypeOK
<1>9. OneProfile'
  BY <1>7 DEF OneProfile
<1> QED
  BY <1>1, <1>7, <1>8, <1>9 DEF IndInv

-----------------------------------------------------------------------------
\* The mapper and the pool start empty and the cell thread is idle.
LEMMA InitIndInv == Init => IndInv
<1> SUFFICES ASSUME Init PROVE IndInv
  OBVIOUS
<1>1. NoDrb \in Drb
  BY DEF NoDrb, NoKey, Key, Rates, Drb
<1>2. \A i \in Index : drb[i] = NoDrb
  BY DEF Init
<1>3. sched.pc = "idle" /\ sched \in Sched
  BY IdleTyped DEF Init
<1>4. DOMAIN pool = {}
  BY DEF Init
<1>5. TypeOK
  <2> HIDE DEF NoDrb
  <2> QED
    BY <1>1, <1>3, <1>4 DEF Init, MapperInit, TypeOK
<1>6. NoDrb.st = "none"
  BY DEF NoDrb
<1> QED
  BY <1>2, <1>3, <1>5, <1>6 DEF IndInv, OneProfile, Init, MapperInit

\* Every handler of SDAP, DU manager and cell thread preserves the invariant.
LEMMA NextIndInv == IndInv /\ [Next]_vars => IndInv'
<1> SUFFICES ASSUME IndInv, [Next]_vars PROVE IndInv'
  OBVIOUS
<1>1. ASSUME NEW i \in Index, UeStep(i) PROVE IndInv'
  BY <1>1, SdapOK, SetupOK, AtRestOK DEF UeStep
<1>2. CASE apply_5qi_based_runtime_overrides
  BY <1>2, ApplyOK
<1>3. CASE compute_qos_weights
  BY <1>3, WeighOK
<1>4. CASE UNCHANGED vars
  <2>1. UNCHANGED <<ue_dscp_map, dscp_to_5qi_map, sdap, drb, pool, tracked, sched>>
    BY <1>4 DEF vars, mapperVars
  <2>2. TypeOK'
    BY <2>1 DEF IndInv, TypeOK
  <2>3. OneProfile'
    BY <2>1 DEF IndInv, OneProfile, Lc
  <2> QED
    BY <2>1, <2>2, <2>3 DEF IndInv
<1> QED
  BY <1>1, <1>2, <1>3, <1>4 DEF Next

\* Whatever packets, UEs and bearers come together, a UE is weighed with the profile
\* of the one DSCP that was read for it (apply_5qi_based_runtime_overrides).
THEOREM OneProfileHolds == Spec => []OneProfile
<1>1. IndInv => OneProfile
  BY DEF IndInv
<1> QED
  BY <1>1, InitIndInv, NextIndInv, PTL DEF Spec

-----------------------------------------------------------------------------
\* Rates that count are measured.

\* Packets give an index a DSCP and never take it away.
LEMMA SdapMeasured ==
  ASSUME IndInv, MeasuredInv, NEW i \in Index,
         handle_sdu_map(i) \/ \E d \in Dscp, small \in BOOLEAN : handle_sdu(i, d, small)
  PROVE  MeasuredInv'
<1>1. UNCHANGED <<drb, pool, tracked, sched>>
  BY Zenon DEF handle_sdu, handle_sdu_map, duVars, cellVars
<1>2. \A j \in Index : ue_dscp_map'[j] = None => ue_dscp_map[j] = None
  <2>1. CASE handle_sdu_map(i)
    BY <2>1, Zenon DEF handle_sdu_map, auto_map_dscp
  <2>2. ASSUME NEW d \in Dscp, NEW small \in BOOLEAN, handle_sdu(i, d, small)
        PROVE  \A j \in Index : ue_dscp_map'[j] = None => ue_dscp_map[j] = None
    <3>1. ue_dscp_map' \in {ue_dscp_map, [ue_dscp_map EXCEPT ![i] = d]}
      BY <2>2 DEF handle_sdu, register_dscp_for_ue
    <3>2. d # None
      BY DscpAssumption DEF None
    <3> QED
      BY <3>1, <3>2, Zenon DEF IndInv, TypeOK
  <2> QED
    BY <2>1, <2>2, Zenon
<1>3. \A j \in Index : AsAsked(j)'
  BY <1>1, <1>2, Zenon DEF MeasuredInv, AsAsked, Guaranteed
<1>4. AsRead'
  <2>1. sched.pc = "apply" => sched.ue \in Index
    BY Zenon DEF IndInv
  <2> QED
    BY <1>1, <1>2, <2>1, Zenon DEF MeasuredInv, AsRead, Guaranteed, Lc
<1>5. UnmeasuredOnlyOvertaken'
  BY <1>1, Zenon DEF MeasuredInv, UnmeasuredOnlyOvertaken, InTable
<1> QED
  BY <1>1, <1>3, <1>4, <1>5, Zenon DEF MeasuredInv, QosOf

\* The set-up of a DRB of another UE leaves the UE that is being weighed alone.
LEMMA OtherUeMeasured ==
  ASSUME IndInv, MeasuredInv, NEW i \in Index, drb[i].st \in {"none", "read"},
         UNCHANGED <<ue_dscp_map, tracked, sched>>,
         \A u \in Index \ {i} : drb'[u] = drb[u],
         DOMAIN pool \subseteq DOMAIN pool', \A k \in DOMAIN pool : pool'[k] = pool[k]
  PROVE  /\ \A u \in Index \ {i} : AsAsked(u)'
         /\ AsRead' /\ UnmeasuredOnlyOvertaken'
<1>1. \A u \in Index \ {i} : AsAsked(u)'
  BY Zenon DEF MeasuredInv, AsAsked, Guaranteed
<1>2. sched.pc \in {"apply", "weigh"} =>
        /\ sched.ue \in Index /\ drb'[sched.ue] = drb[sched.ue]
        /\ Lc(sched.ue)' = Lc(sched.ue)
  <2>1. sched.pc \in {"apply", "weigh"} =>
          /\ sched.ue \in Index /\ drb[sched.ue].st = "active" /\ drb[sched.ue].key \in DOMAIN pool
    BY Zenon DEF IndInv
  <2>2. sched.pc \in {"apply", "weigh"} => sched.ue # i
    BY <2>1
  <2> QED
    BY <2>1, <2>2, Zenon DEF Lc
<1>3. AsRead'
  BY <1>2, Zenon DEF MeasuredInv, AsRead, Guaranteed
<1>4. UnmeasuredOnlyOvertaken'
  BY Zenon DEF MeasuredInv, UnmeasuredOnlyOvertaken, InTable
<1> QED
  BY <1>1, <1>3, <1>4, Zenon

\* A DRB that is set up for an index without a DSCP has the 5QI and the rates that the
\* core asked for.
LEMMA SetupMeasured ==
  ASSUME IndInv, MeasuredInv, NEW i \in Index,
         setup_drbs_map(i) \/ \E b \in Bearer : setup_drbs(i, b)
  PROVE  MeasuredInv'
<1>1. /\ UNCHANGED <<ue_dscp_map, tracked, sched>> /\ drb[i].st \in {"none", "read"}
      /\ drb \in [Index -> Drb]
  BY Zenon DEF setup_drbs, setup_drbs_map, mapperVars, cellVars, IndInv, TypeOK
<1>2. ASSUME NEW b \in Bearer, setup_drbs(i, b) PROVE MeasuredInv'
  <2> DEFINE n == [NoDrb EXCEPT !.st = "read", !.dscp = ue_dscp_map[i], !.bearer = b]
  <2>1. drb' = [drb EXCEPT ![i] = n] /\ pool' = pool
    BY <1>2, Zenon DEF setup_drbs
  <2>2. n.st = "read" /\ n.dscp = ue_dscp_map[i]
    BY Zenon DEF NoDrb
  <2> HIDE DEF n
  <2>3. drb'[i] = n /\ \A u \in Index \ {i} : drb'[u] = drb[u]
    BY <1>1, <2>1, Zenon
  <2>4. AsAsked(i)'
    BY <1>1, <2>2, <2>3 DEF AsAsked
  <2>5. (\A u \in Index \ {i} : AsAsked(u)') /\ AsRead' /\ UnmeasuredOnlyOvertaken'
    BY <1>1, <2>1, <2>3, OtherUeMeasured, Zenon
  <2> QED
    BY <2>1, <2>4, <2>5, Zenon DEF MeasuredInv, QosOf
<1>3. CASE setup_drbs_map(i)
  <2> DEFINE q == Mapped5qi(drb[i].dscp, drb[i].bearer.five_qi)
             key == [qos |-> QosOf(q), gbr |-> drb[i].bearer.gbr]
             obj == Original(q, drb[i].bearer.gbr)
             made == [NoDrb EXCEPT !.st = "created", !.key = key]
             lost == [NoDrb EXCEPT !.st = "thrown"]
  <2>1. IF q \in QosConfig THEN drb' = [drb EXCEPT ![i] = made] /\ pool' = PoolCreate(key, obj)
                           ELSE drb' = [drb EXCEPT ![i] = lost] /\ pool' = pool
    BY <1>3, Zenon DEF setup_drbs_map
  <2>2. made.st = "created" /\ made.key = key /\ lost.st = "thrown"
    BY Zenon DEF NoDrb
  <2>3. drb[i].st = "read" /\ drb[i].bearer \in Bearer
    BY <1>3, Zenon DEF setup_drbs_map, IndInv
  <2>4. key.qos = QosOf(q) /\ key.gbr = drb[i].bearer.gbr /\ obj.five_qi = q
    BY Zenon DEF Original
  <2>5. ue_dscp_map[i] = None => q = drb[i].bearer.five_qi
    BY <2>3, Zenon DEF MeasuredInv, AsAsked, Mapped5qi
  <2> HIDE DEF q, key, obj, made, lost
  <2>6. /\ drb'[i] \in {made, lost}
        /\ \A u \in Index \ {i} : drb'[u] = drb[u]
    <3>1. drb' \in {[drb EXCEPT ![i] = made], [drb EXCEPT ![i] = lost]}
      BY <2>1
    <3> QED
      BY <1>1, <3>1, Zenon
  <2>7. /\ DOMAIN pool \subseteq DOMAIN pool' /\ DOMAIN pool' \subseteq DOMAIN pool \cup {key}
        /\ \A k \in DOMAIN pool' : pool'[k] = IF k \in DOMAIN pool THEN pool[k] ELSE obj
    <3>1. CASE q \in QosConfig
      BY <2>1, <3>1 DEF PoolCreate
    <3>2. CASE q \notin QosConfig
      BY <2>1, <3>2
    <3> QED
      BY <3>1, <3>2
  <2>8. \A k \in DOMAIN pool' : QosOf(pool'[k].five_qi) = k.qos
    BY <2>4, <2>7, Zenon DEF MeasuredInv
  <2>9. AsAsked(i)'
    <3>1. ue_dscp_map[i] = None /\ UsesGbrRate(key.qos.res_type) => key.gbr # NoRates
      BY <2>3, <2>4, <2>5, GbrBearerAssumption, Zenon
    <3> QED
      BY <1>1, <2>2, <2>6, <3>1 DEF AsAsked, Guaranteed
  <2>10. (\A u \in Index \ {i} : AsAsked(u)') /\ AsRead' /\ UnmeasuredOnlyOvertaken'
    BY <1>1, <2>6, <2>7, OtherUeMeasured, Zenon
  <2> QED
    BY <2>8, <2>9, <2>10, Zenon DEF MeasuredInv, QosOf
<1> QED
  BY <1>2, <1>3, Zenon

\* configure() measures the rate of a bearer that has rates; the DSCP of a UE is read
\* when its rate is measured already.
LEMMA AtRestMeasured ==
  ASSUME IndInv, MeasuredInv, NEW i \in Index, configure(i) \/ rem_ue(i) \/ compute_prio(i)
  PROVE  MeasuredInv'
<1>1. /\ UNCHANGED <<ue_dscp_map, pool>> /\ drb \in [Index -> Drb]
      /\ tracked \in [Index -> BOOLEAN]
  BY Zenon DEF configure, rem_ue, compute_prio, mapperVars, duVars, IndInv, TypeOK
<1>2. \A k \in DOMAIN pool' : QosOf(pool'[k].five_qi) = k.qos
  BY <1>1, Zenon DEF MeasuredInv
<1>3. Idle.pc = "idle" /\ Idle.weighed.rate = 0
  BY DEF Idle, NotWeighed
<1>4. CASE configure(i) \/ rem_ue(i)
  <2>1. sched' = Idle
    BY <1>4, Zenon DEF configure, rem_ue
  <2>2. AsRead' /\ UnmeasuredOnlyOvertaken'
    BY <1>3, <2>1 DEF AsRead, UnmeasuredOnlyOvertaken
  <2>3. \A u \in Index \ {i} : drb'[u] = drb[u] /\ tracked'[u] = tracked[u]
    BY <1>1, <1>4, Zenon DEF configure, rem_ue
  <2>4. \A u \in Index \ {i} : AsAsked(u)'
    BY <1>1, <2>3, Zenon DEF MeasuredInv, AsAsked, Guaranteed
  <2>5. AsAsked(i)'
    <3>1. CASE configure(i)
      <4>1. /\ drb[i].st = "created" /\ drb'[i].st = "active" /\ drb'[i].key = drb[i].key
            /\ drb[i].key.gbr # NoRates => tracked'[i]
        BY <1>1, <3>1, Zenon DEF configure, Drb
      <4> QED
        BY <1>1, <4>1 DEF MeasuredInv, AsAsked, Guaranteed
    <3>2. CASE rem_ue(i)
      <4>1. NoDrb.st = "none"
        BY DEF NoDrb
      <4>2. drb'[i] = NoDrb
        BY <1>1, <3>2, Zenon DEF rem_ue
      <4> QED
        BY <4>1, <4>2 DEF AsAsked
    <3> QED
      BY <1>4, <3>1, <3>2
  <2> QED
    BY <1>2, <2>2, <2>4, <2>5, Zenon DEF MeasuredInv, QosOf
<1>5. CASE compute_prio(i)
  <2>1. /\ UNCHANGED <<drb, tracked>> /\ drb[i].st = "active"
        /\ sched' = [Idle EXCEPT !.pc = "apply", !.ue = i, !.dscp = ue_dscp_map[i]]
    BY <1>5, Zenon DEF compute_prio, duVars
  <2>2. sched'.pc = "apply" /\ sched'.ue = i /\ sched'.dscp = ue_dscp_map[i] /\ sched'.weighed.rate = 0
    BY <2>1, <1>3 DEF Idle
  <2>3. \A u \in Index : AsAsked(u)'
    BY <1>1, <2>1, Zenon DEF MeasuredInv, AsAsked, Guaranteed
  <2>4. AsRead' /\ UnmeasuredOnlyOvertaken'
    BY <1>1, <2>1, <2>2 DEF MeasuredInv, AsAsked, AsRead, Guaranteed, UnmeasuredOnlyOvertaken
  <2> QED
    BY <1>2, <2>3, <2>4, Zenon DEF MeasuredInv, QosOf
<1> QED
  BY <1>4, <1>5, Zenon

\* The overlay stops measuring only for a UE with a DSCP; without one it restores the
\* type the object was created with.
LEMMA ApplyMeasured ==
  ASSUME IndInv, MeasuredInv, apply_5qi_based_runtime_overrides
  PROVE  MeasuredInv'
<1> DEFINE i == sched.ue
           d == sched.dscp
           k == drb[i].key
           q == Mapped5qi(d, Lc(i).five_qi)
           gbr == OverlaidRates(Lc(i), d, QosOf(q).res_type)
           obj == [Lc(i) EXCEPT !.res_type = QosOf(q).res_type, !.priority = QosOf(q).priority,
                                !.pdb = QosOf(q).pdb, !.gbr = gbr]
<1>1. /\ i \in Index /\ k \in DOMAIN pool /\ Lc(i) = pool[k] /\ Lc(i) \in Object
      /\ sched.pc = "apply" /\ drb[i].st = "active"
  BY Zenon DEF IndInv, TypeOK, apply_5qi_based_runtime_overrides, Lc
<1>2. /\ UNCHANGED <<ue_dscp_map, drb>>
      /\ pool' = [pool EXCEPT ![k] = obj]
      /\ tracked' = AvgWindow(i, gbr)
      /\ sched' = [sched EXCEPT !.pc = "weigh"]
  BY Zenon DEF apply_5qi_based_runtime_overrides, mapperVars, Lc
<1>3. sched'.pc = "weigh" /\ sched'.ue = i /\ sched'.dscp = d /\ sched'.weighed = sched.weighed
  BY <1>2 DEF IndInv, TypeOK, Sched
<1>4. obj.five_qi = Lc(i).five_qi /\ obj.res_type = QosOf(q).res_type
  BY <1>1, Zenon DEF Object
<1>5. d = None => q = Lc(i).five_qi
  BY Zenon DEF Mapped5qi
<1>6. /\ d = None => tracked' = tracked
      /\ \A u \in Index \ {i} : tracked'[u] = tracked[u]
  BY <1>2, Zenon DEF AvgWindow, IndInv, TypeOK
<1>7. ue_dscp_map[i] = None => d = None
  BY <1>1, Zenon DEF MeasuredInv, AsRead
<1> HIDE DEF q, gbr, obj, k
<1>8. DOMAIN pool' = DOMAIN pool /\ pool'[k] = obj /\ \A j \in DOMAIN pool \ {k} : pool'[j] = pool[j]
  BY <1>1, <1>2, Zenon
<1>9. \A j \in DOMAIN pool' : QosOf(pool'[j].five_qi) = j.qos
  BY <1>1, <1>4, <1>8, Zenon DEF MeasuredInv
<1>10. \A u \in Index : AsAsked(u)'
  BY <1>2, <1>6, <1>7, Zenon DEF MeasuredInv, AsAsked, Guaranteed
<1>11. AsRead'
  <2>1. Lc(sched.ue)' = obj
    BY <1>2, <1>3, <1>8, Zenon DEF Lc, k
  <2>2. d = None => obj.res_type = k.qos.res_type
    BY <1>1, <1>4, <1>5, Zenon DEF MeasuredInv
  <2>3. d = None /\ Guaranteed(i) => tracked'[i]
    BY <1>1, <1>2, <1>6, Zenon DEF MeasuredInv, AsRead, Guaranteed
  <2> QED
    BY <1>2, <1>3, <2>1, <2>2, <2>3 DEF AsRead, Guaranteed, k
<1>12. UnmeasuredOnlyOvertaken'
  BY <1>3, Zenon DEF MeasuredInv, UnmeasuredOnlyOvertaken, InTable
<1> QED
  BY <1>9, <1>10, <1>11, <1>12, Zenon DEF MeasuredInv, QosOf

\* A UE that is weighed with a rate target has its rate measured: with a DSCP of the table
\* because the overlay just saw to it, without one because its bearer has rates.  A DSCP
\* outside the table has no rates: those of the weight are then another one's.
LEMMA WeighMeasured ==
  ASSUME IndInv, MeasuredInv, compute_qos_weights
  PROVE  MeasuredInv'
<1> DEFINE i == sched.ue
           d == sched.dscp
           lc == Lc(i)
           rates == IF UsesGbrRate(lc.res_type) /\ ue_dscp_map[i] # None
                    THEN map_dscp_to_qos_rates(ue_dscp_map[i]) ELSE NoRates
           w == [priority |-> lc.priority, pdb |-> lc.pdb, dscp |-> ue_dscp_map[i],
                 rate |-> rates.gbr, measured |-> tracked[i]]
<1>1. /\ UNCHANGED <<ue_dscp_map, drb, pool, tracked>>
      /\ sched' = [sched EXCEPT !.pc = "done", !.weighed = w]
      /\ sched.pc = "weigh"
  BY Zenon DEF compute_qos_weights, mapperVars, duVars
<1>2. i \in Index /\ lc \in Object /\ d \in Dscp \cup {None}
  BY <1>1, Zenon DEF IndInv, TypeOK, Lc, Sched
<1>3. rates.gbr # 0 => UsesGbrRate(lc.res_type)
  BY DEF NoRates
<1>4. d = None /\ UsesGbrRate(lc.res_type) => tracked[i]
  BY <1>1, Zenon DEF MeasuredInv, AsRead, Guaranteed
<1>5. d # None /\ InTable(d) /\ UsesGbrRate(lc.res_type) => tracked[i]
  <2> SUFFICES ASSUME d # None, InTable(d), UsesGbrRate(lc.res_type) PROVE tracked[i]
    OBVIOUS
  <2>1. /\ [res_type |-> lc.res_type, priority |-> lc.priority, pdb |-> lc.pdb] = QosOf(Settled(d).five_qi)
        /\ lc.gbr = Settled(d).rates
        /\ tracked[i] <=> lc.gbr # NoRates
    BY <1>1 DEF IndInv, OneProfile, HasProfile
  <2>2. lc.res_type = QosOf(Settled(d).five_qi).res_type
    BY <2>1
  <2>3. Settled(d).rates # NoRates
    BY <1>2, <2>2, SettledTyped, QosTyped
  <2> QED
    BY <2>1, <2>3
<1>6. rates.gbr # 0 => InTable(ue_dscp_map[i])
  BY DEF NoRates, NoProfile, map_dscp_to_qos_rates, resolve_dscp_profile
<1> HIDE DEF rates, lc
<1>7. w.rate = rates.gbr /\ w.measured = tracked[i] /\ w.dscp = ue_dscp_map[i]
  OBVIOUS
<1> HIDE DEF w
<1>8. sched'.pc = "done" /\ sched'.dscp = d /\ sched'.weighed = w
  BY <1>1, Zenon DEF IndInv, TypeOK, Sched
<1>9. UnmeasuredOnlyOvertaken'
  BY <1>3, <1>4, <1>5, <1>6, <1>7, <1>8 DEF UnmeasuredOnlyOvertaken, InTable
<1>10. AsRead'
  BY <1>8 DEF AsRead
<1>11. \A u \in Index : AsAsked(u)'
  BY <1>1, Zenon DEF MeasuredInv, AsAsked, Guaranteed
<1> QED
  BY <1>1, <1>9, <1>10, <1>11, Zenon DEF MeasuredInv, QosOf

\* The invariant of measured rates holds while the cell thread is idle and no DRB exists.
LEMMA InitMeasured == Init => MeasuredInv
<1> SUFFICES ASSUME Init PROVE MeasuredInv
  OBVIOUS
<1>1. sched.pc = "idle" /\ sched.weighed.rate = 0 /\ DOMAIN pool = {}
  BY DEF Init, Idle, NotWeighed
<1>2. \A i \in Index : drb[i].st = "none"
  BY DEF Init, NoDrb
<1> QED
  BY <1>1, <1>2 DEF MeasuredInv, AsAsked, AsRead, UnmeasuredOnlyOvertaken

\* Every handler keeps it.
LEMMA NextMeasured == IndInv /\ MeasuredInv /\ [Next]_vars => MeasuredInv'
<1> SUFFICES ASSUME IndInv, MeasuredInv, [Next]_vars PROVE MeasuredInv'
  OBVIOUS
<1>1. ASSUME NEW i \in Index, UeStep(i) PROVE MeasuredInv'
  BY <1>1, SdapMeasured, SetupMeasured, AtRestMeasured, Zenon DEF UeStep
<1>2. CASE apply_5qi_based_runtime_overrides
  BY <1>2, ApplyMeasured, Zenon
<1>3. CASE compute_qos_weights
  BY <1>3, WeighMeasured, Zenon
<1>4. CASE UNCHANGED vars
  <2>1. UNCHANGED <<ue_dscp_map, drb, pool, tracked, sched>>
    BY <1>4, Zenon DEF vars, mapperVars
  <2>2. (\A i \in Index : AsAsked(i)') /\ AsRead'
    BY <2>1, Zenon DEF MeasuredInv, AsAsked, AsRead, Guaranteed, Lc
  <2>3. UnmeasuredOnlyOvertaken'
    BY <2>1, Zenon DEF MeasuredInv, UnmeasuredOnlyOvertaken, InTable
  <2> QED
    BY <2>1, <2>2, <2>3, Zenon DEF MeasuredInv, QosOf
<1> QED
  BY <1>1, <1>2, <1>3, <1>4, Zenon DEF Next

\* compute_dl_qos_weights() weighs a rate target against a rate that
\* apply_lc_rate_avg_window() does not measure only in a decision that a packet with
\* another DSCP overtook, and only if the DSCP read first has no row in the table; for
\* any number of UEs that share configuration objects.
THEOREM UnmeasuredOnlyOvertakenHolds == Spec => []UnmeasuredOnlyOvertaken
<1>1. MeasuredInv => UnmeasuredOnlyOvertaken
  BY Zenon DEF MeasuredInv
<1> QED
  BY <1>1, InitIndInv, NextIndInv, InitMeasured, NextMeasured, PTL DEF Spec
=============================================================================
