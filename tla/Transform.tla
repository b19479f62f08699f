------------------------------ MODULE Transform ------------------------------
(***************************************************************************)
(* TransformService: the transformer makes a plan of what Extract found    *)
(* and what the CRM holds, the validator checks it.                        *)
(***************************************************************************)
EXTENDS SyncPlan

CONSTANTS
    ExtractResults,  \* what the service is called with
    CrmContexts,
    RegionSettings

(* A manager's name and a source's natural keys are numbers here.          *)
Contexts ==
    [leads : Seq([source : IdType, id : IdType]),
     companies : Seq([inn : IdType, id : IdType]),
     groups : Seq([source : IdType, id : IdType]),
     managers : Seq([name : IdType, id : IdType])]

(* ExtractedObject, ExtractedDeveloper and CrmContext hold positive ids.   *)
ASSUME InputsAssumption ==
    ExtractResults \subseteq Extracts /\ CrmContexts \subseteq Contexts

VARIABLES
    extract_result,
    crm_context,
    region_settings,
    stage,  \* of transform
    plan    \* the operations made

vars == <<extract_result, crm_context, region_settings, stage, plan>>

Init ==
    /\ extract_result \in ExtractResults
    /\ crm_context \in CrmContexts
    /\ region_settings \in RegionSettings
    /\ stage = "building"
    /\ plan = {}

RejectInput ==
    /\ stage = "building"
    /\ ~Accepted(extract_result, crm_context, region_settings)
    /\ stage' = "input_error"
    /\ UNCHANGED <<extract_result, crm_context, region_settings, plan>>

Build ==
    /\ stage = "building"
    /\ Accepted(extract_result, crm_context, region_settings)
    /\ plan' = Operations(extract_result, crm_context, region_settings)
    /\ stage' = "validation"
    /\ UNCHANGED <<extract_result, crm_context, region_settings>>

Validate ==
    /\ stage = "validation"
    /\ stage' = IF ValidPlan(plan) THEN "returned" ELSE "validation_error"
    /\ UNCHANGED <<extract_result, crm_context, region_settings, plan>>

Next == RejectInput \/ Build \/ Validate

Spec == Init /\ [][Next]_vars
-----------------------------------------------------------------------------
Stages == {"building", "validation", "returned", "input_error", "validation_error"}

TypeOK ==
    /\ extract_result \in ExtractResults
    /\ crm_context \in CrmContexts
    /\ region_settings \in RegionSettings
    /\ stage \in Stages
    /\ stage \in {"building", "input_error"} => plan = {}

(* The transformer and the validator agree: whatever the one makes of any  *)
(* input it accepts, the other lets pass.                                  *)
PlansAreValid == stage # "validation_error"

(* The plan creates nothing under a natural key the CRM holds already or   *)
(* another operation creates: no second lead of an object, group of a      *)
(* source id, requisite of an INN.                                         *)
NaturalKeysOnce ==
    \A op \in plan :
        op.key # None =>
            /\ \A other \in plan :
                  other.id[1] = op.id[1] /\ other.key = op.key => other = op
            /\ op.id[1] = "lead" => ~Has(crm_context.leads, "source", op.key)
            /\ op.id[1] = "requisite" => ~Has(crm_context.companies, "inn", op.key)
            /\ op.id[1] = "group" => ~Has(crm_context.groups, "source", op.key)

(* The element a literal or a binding of the plan refers to: a company by  *)
(* its INN, known in the CRM or from its requisite in the plan; a group by *)
(* its source id.                                                          *)
IsCompanyOf(r, inn) ==
    \/ \E e \in Values(crm_context.companies) : e.inn = inn /\ r = Literal("company", e.id)
    \/ \E q \in plan : /\ q.id[1] = "requisite" /\ q.key = inn
                       /\ r = Binding("company", <<"company", q.id[2]>>)
                       /\ Binding("owner", r.source) \in q.bindings

IsGroupOf(r, source) ==
    \/ \E e \in Values(crm_context.groups) : e.source = source /\ r = Literal("group", e.id)
    \/ \E g \in plan : g.id[1] = "group" /\ g.key = source /\ r = Binding("group", g.id)

(* Every object the CRM does not know gets a lead, and the lead is tied to *)
(* the company with its developer's INN (where that is new, only after the *)
(* company's requisite and both addresses) and to its own company group.   *)
LeadsAreTied ==
    stage = "returned" =>
        \A i \in DOMAIN extract_result.objects :
            LET o == extract_result.objects[i]
            IN  \/ Has(crm_context.leads, "source", o.id)
                \/ \E op \in plan : \E d \in Values(extract_result.developers) :
                      /\ op.id = <<"lead", o.id>>
                      /\ d.id = o.developer
                      /\ \E r \in op.literals \cup op.bindings : IsCompanyOf(r, d.inn)
                      /\ o.group # None =>
                            \E r \in op.literals \cup op.bindings : IsGroupOf(r, o.group)
                      /\ op.bindings # {} /\ ~CompanyExists(crm_context, d) =>
                            {"requisite", "actual", "legal"} \X {d.id} \subseteq op.dependencies

(* No company, requisite, address or group is created but for a new lead   *)
(* that needs it.                                                          *)
NothingIdle ==
    \A op \in plan :
        op.id[1] # "lead" =>
            \E lead \in plan : lead.id[1] = "lead" /\ op.id \in Sources(lead)
=============================================================================
