---------------------------- MODULE MCModuleLife ----------------------------
(***************************************************************************)
(* MTD tables with none, one and two masters of each type, and partitions  *)
(* among them; every value of the filter and one that is refused.          *)
(***************************************************************************)
EXTENDS ModuleLife

Master(type) == [type |-> type, partition |-> FALSE]
Partition(type) == [type |-> type, partition |-> TRUE]

MCTables ==
  {<<>>,
   <<Master("nor"), Partition("nor"), Master("nand")>>,
   <<Master("mlc"), Master("nor")>>,
   <<Partition("nand"), Master("nand"), Master("ram")>>}

MCFilters == {"all", "nand", "nor", "onenand"}
=============================================================================
