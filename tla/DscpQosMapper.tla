--------------------------- MODULE DscpQosMapper ---------------------------
(***************************************************************************)
(* dscp_qos_mapper, the singleton through which SDAP (CU-UP) tells the DU  *)
(* and the scheduler which DSCP a UE's packets carry.  Every method takes  *)
(* the mutex, so each is one step; a caller that calls two of them may be  *)
(* overtaken in between.  The explicit rate table is left out: nothing in  *)
(* the program fills it.                                                   *)
(***************************************************************************)
EXTENDS Integers

CONSTANTS Index,   \* the UE indexes that CU-UP and DU use as keys
          Dscp     \* the code points that packets carry

VARIABLES ue_dscp_map,      \* index -> DSCP last registered
          dscp_to_5qi_map   \* DSCP -> 5QI

mapperVars == <<ue_dscp_map, dscp_to_5qi_map>>

None == -1

ASSUME DscpAssumption == Dscp \subseteq 0 .. 63

-----------------------------------------------------------------------------
\* <<5QI, resource type, priority, packet delay budget in ms>>
five_qi_to_qos_mapping ==
  {<<1, "gbr", 20, 100>>, <<2, "gbr", 40, 150>>, <<3, "gbr", 30, 50>>, <<4, "gbr", 50, 300>>,
   <<65, "gbr", 7, 75>>, <<66, "gbr", 20, 100>>, <<67, "gbr", 15, 100>>,
   <<5, "non_gbr", 10, 100>>, <<6, "non_gbr", 60, 300>>, <<7, "non_gbr", 70, 100>>,
   <<8, "non_gbr", 80, 300>>, <<9, "non_gbr", 90, 300>>, <<69, "non_gbr", 5, 60>>,
   <<70, "non_gbr", 55, 200>>, <<79, "non_gbr", 65, 50>>, <<80, "non_gbr", 68, 10>>,
   <<82, "dc_gbr", 19, 10>>, <<83, "dc_gbr", 22, 10>>, <<84, "dc_gbr", 24, 30>>,
   <<85, "dc_gbr", 21, 5>>}

FiveQi == {row[1] : row \in five_qi_to_qos_mapping}

\* get_5qi_to_qos_characteristics_mapping() for a 5QI of the table.
QosOf(q) ==
  LET row == CHOOSE r \in five_qi_to_qos_mapping : r[1] = q
  IN  [res_type |-> row[2], priority |-> row[3], pdb |-> row[4]]

\* <<DSCP, 5QI, rates>>
gbr_rates == [gbr |-> 7000000, mbr |-> 7500000]
dc_gbr_rates == [gbr |-> 4000000, mbr |-> 4500000]
NoRates == [gbr |-> 0, mbr |-> 0]

dscp_qos_profile_table ==
  {<<44, 66, gbr_rates>>, <<34, 2, gbr_rates>>, <<32, 3, gbr_rates>>, <<28, 4, gbr_rates>>,
   <<38, 67, gbr_rates>>, <<40, 5, NoRates>>, <<26, 6, NoRates>>, <<22, 7, NoRates>>,
   <<0, 9, NoRates>>, <<30, 70, NoRates>>, <<24, 80, NoRates>>, <<17, 82, dc_gbr_rates>>,
   <<16, 83, dc_gbr_rates>>, <<15, 84, dc_gbr_rates>>, <<14, 85, dc_gbr_rates>>}

InTable(d) == \E row \in dscp_qos_profile_table : row[1] = d
TableRow(d) == CHOOSE row \in dscp_qos_profile_table : row[1] = d

NoProfile == [five_qi |-> None, rates |-> NoRates]

\* resolve_dscp_profile_locked()
resolve_dscp_profile(d) ==
  LET five_qi == IF dscp_to_5qi_map[d] # None THEN dscp_to_5qi_map[d]
                 ELSE IF InTable(d) THEN TableRow(d)[2] ELSE None
  IN  IF InTable(d) /\ five_qi \notin FiveQi THEN NoProfile
      ELSE [five_qi |-> five_qi, rates |-> IF InTable(d) THEN TableRow(d)[3] ELSE NoRates]

map_dscp_to_qos_rates(d) == resolve_dscp_profile(d).rates

dscp_has_qos_rate_target(d) == resolve_dscp_profile(d).rates # NoRates

\* map_dscp_to_5qi_using_standard_mapping().  The callers ask map_dscp_to_5qi()
\* first; an entry it finds is never changed, so the later answer is the same.
map_dscp_to_5qi(d) ==
  IF dscp_to_5qi_map[d] # None THEN dscp_to_5qi_map[d] ELSE resolve_dscp_profile(d).five_qi

-----------------------------------------------------------------------------
MapperInit ==
  /\ ue_dscp_map = [i \in Index |-> None]
  /\ dscp_to_5qi_map = [d \in Dscp |-> None]

\* A packet shorter than DSCP_MAPPER_MIN_PDU_LEN is small.
register_dscp_for_ue(i, d, small) ==
  LET cur == ue_dscp_map[i]
      ignored == /\ small /\ ~dscp_has_qos_rate_target(d)
                 /\ cur = None \/ dscp_has_qos_rate_target(cur)
  IN  /\ ue_dscp_map' = IF ignored THEN ue_dscp_map ELSE [ue_dscp_map EXCEPT ![i] = d]
      /\ UNCHANGED dscp_to_5qi_map

\* auto_map_dscp_on_first_observation()
auto_map_dscp(d) ==
  /\ dscp_to_5qi_map' =
       [dscp_to_5qi_map EXCEPT ![d] =
          IF @ # None THEN @
          ELSE IF InTable(d) /\ TableRow(d)[2] \in FiveQi THEN TableRow(d)[2] ELSE 9]
  /\ UNCHANGED ue_dscp_map
=============================================================================
