------------------------- MODULE CapabilityScripts -------------------------
(***************************************************************************)
(* The programs on CAD files, shop capabilities, learned fields and seed   *)
(* data, in the form of ProcurementScripts.                                *)
(***************************************************************************)
EXTENDS ProcurementScripts

(* Repositories and rows of CAD-CNC matching.                              *)
CreateArtifact(owner, status) ==
  Insert("artifacts", "artifact", [project |-> "project", owner |-> owner], status)

CreateCadRequirementPacket ==
  Insert("cad_packets", "packet",
         [project |-> "project", buyer |-> "buyer", supplier |-> "supplier",
          artifact |-> "artifact"], "")

CreateShopCapabilityProfile ==
  Insert("shop_profiles", "profile", [actor |-> "supplier"], "")

CreateMatchResult ==
  Insert("matches", "match",
         [project |-> "project", actor |-> "supplier", packet |-> "packet",
          profile |-> "profile"], "")

CreateCapabilityFitReport ==
  Insert("fit_reports", "report",
         [project |-> "project", actor |-> "supplier", match |-> "match"], "")

(* Dynamic schemas: what was observed may be proposed, and what is proposed *)
(* approved, which decides on the proposal and defines the field.           *)
RegisterSchema == Insert("schemas", "schema", NoRef, "active")

DefineField == Insert("fields", "field", [schema |-> "schema"], "approved")

ReceiveMessage ==
  Insert("messages", "message", [project |-> "project", sender |-> "supplier"], "")

ObserveField(message, artifact) ==
  Insert("observed", "observed",
         [project |-> "project", actor |-> "supplier", message |-> message,
          artifact |-> artifact], "")

ProposeField(as) == Insert("proposals", as, [schema |-> "schema"], "proposed")

ApproveField(as) ==
  << Insert("decisions", "decision", [proposal |-> as], "approved"), DefineField,
     Update("proposals", as, NoRef, "approved") >>

StoreDynamicValue ==
  Insert("values", "value", [field |-> "field", message |-> "message"], "")

-----------------------------------------------------------------------------
(* run_professional_free_db_test: a requirement packet is refused before   *)
(* the warning about its file is acknowledged, which leaves no row.        *)
FileAcknowledged ==
  << CreateActor("buyer", "BuyerPF"), CreateActor("supplier", "ManufacturerPF"),
     CreateActor("f1", "HeatTreatment"), CreateActor("f2", "SurfaceTreatment"),
     CreateProject("bracket"), CreateEdge("buyer", "supplier", "edge", "SENT"),
     CreateArtifact("buyer", "unacknowledged"),
     LogEvent("PROFESSIONAL_FREE_FILE_WARNING_SHOWN"),
     Update("artifacts", "artifact", NoRef, "acknowledged"),
     LogEvent("PROFESSIONAL_FREE_CAP_LIMITATION_ACKNOWLEDGED") >>

CapabilityMatched ==
  << CreateCadRequirementPacket, LogEvent("CAD_REQUIREMENT_PACKET_CREATED"),
     LogEvent("CAD_FEATURES_EXTRACTED"), CreateShopCapabilityProfile,
     LogEvent("SHOP_CAPABILITY_PROFILE_LOADED"),
     LogEvent("CAD_CNC_MATCH_STARTED"), CreateMatchResult,
     LogEvent("MACHINE_PARAMETER_MATCHED"),
     LogEvent("MACHINE_PARAMETER_GAP_FOUND"),
     LogEvent("CAD_CNC_MATCH_COMPLETED") >>

GapsReported ==
  << CreateCapabilityFitReport, LogEvent("CAPABILITY_FIT_REPORT_CREATED"),
     AddDependency("need", "surface_treatment"),
     LogEvent("DEPENDENCY_CREATED_FROM_CAD_CNC_MATCH"), CreateRollup,
     LogEvent("SUPPLIER_RESPONSE_ROLLUP_GENERATED"), Commit, Check("events") >>

ProfessionalFree == << FileAcknowledged \o CapabilityMatched \o GapsReported >>

(* run_dynamic_schema_learning_test.                                       *)
FieldsObserved ==
  << CreateActor("buyer", "BuyerDS"), CreateActor("supplier", "FabricDS"),
     DbCall("insert", "projects", "project", [buyer |-> "buyer", supplier |-> ""],
          << "learning", 1 >>, "CREATED"),
     RegisterSchema >>
    \o [i \in 1..Runs |-> ReceiveMessage]
    \o << CreateArtifact("supplier", "acknowledged") >>
    \o [i \in 1..Runs |-> ObserveField("message", "")]
    \o << ObserveField("", "artifact") >>

SchemaLearning ==
  << FieldsObserved
     \o << ProposeField("gsm"), ProposeField("proposal"), ProposeField("proposal"),
        ProposeField("proposal"), ProposeField("cmm") >>
     \o ApproveField("gsm") \o ApproveField("cmm")
     \o << StoreDynamicValue, StoreDynamicValue, Commit, Check("fields") >> >>

(* seed_mvp_data.                                                          *)
SeedActors ==
  << CreateActor("buyer", "BuyerB"), CreateActor("supplier", "ManufacturerM"),
     CreateActor("f1", "FabricF1"), CreateActor("f2", "FabricF2"),
     CreateActor("f2", "FabricF3"), CreateActor("t1", "TrimT1"),
     CreateActor("p1", "PackagingP1"), CreateActor("p1", "QcQ1"),
     CreateActor("p1", "LogisticsL1") >>

SeedSchema == << RegisterSchema >> \o [i \in 1..Runs |-> DefineField]

Seed ==
  << SeedActors \o << CreateProject("shirt"), CreateProject("cnc"),
                      CreateShopCapabilityProfile >>
     \o SeedSchema \o SeedSchema
     \o << RegisterSchema, Insert("notices", "notice", NoRef, ""), Commit >> >>
=============================================================================
