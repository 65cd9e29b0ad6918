---- MODULE GeneratedFiles ----
(***************************************************************************)
(* What the code generator decides from an entity's configuration: the     *)
(* files generate.py writes, the imports between them, the files           *)
(* cleanup.py re-derives when it has no manifest, the files it prunes for  *)
(* an entity that is gone, and the files check_generated.py scans.         *)
(*                                                                         *)
(* A configuration is the set of gates that are open: the x-generate       *)
(* switches and the traits of the entity's model and display.  A file is   *)
(* named by its place under the entity's own directories.                  *)
(***************************************************************************)
EXTENDS FiniteSets

Switches == {"list", "view", "new", "edit", "delete", "api", "export",
             "import", "test", "invalidate"}

Traits == {"proxy", "virtual", "approvable", "submit_on", "approval",
           "after_approve", "after_reject", "on_withdrawn", "after_withdraw",
           "invalidate_module", "invalidated_at", "grid", "comments",
           "attachable", "import_key", "inline_target", "bridge_child",
           "chart", "no_table", "splittable", "split_quantity",
           "count_reservation", "task", "exclusive_parents", "version_of",
           "mention", "payment", "search", "trigram", "transitions", "nav",
           "self_only", "attachment_section", "approval_section",
           "reverse_one_to_one", "flattened", "other_bridge", "other_child",
           "undrawable_row", "closed_target", "direct_attachment",
           "custom_component", "custom_field"}

(* What the schema as a whole declares or configures.                      *)
Settings == {"reporting", "reactions", "pii", "audit_storage", "gcp",
             "bulk_task", "mobile"}

Gates == Switches \cup Traits \cup Settings

When(cond, files) == IF cond THEN files ELSE {}
AnyOf(c, gates) == c \cap gates # {}
All(c, gates) == gates \subseteq c

Writes(c) == AnyOf(c, {"new", "edit"})
Mutates(c) == AnyOf(c, {"new", "edit", "delete"})
Acts(c) == AnyOf(c, {"new", "edit", "delete", "invalidate"})

(* A submit action needs the approvable bridge and x-approval.submit_on.   *)
Submits(c) == All(c, {"approvable", "submit_on"})

(* Post-decision lockdown guards belong to the view that submits.          *)
Guards(c, switch) == Submits(c) /\ switch \in c

(* CSV import is offered for an entity with an import key and a write.     *)
ImportEligible(c) ==
  /\ All(c, {"import", "import_key"})
  /\ Writes(c)
  /\ ~AnyOf(c, {"proxy", "bridge_child"})

(* Some child is embedded in the entity's pages ("grid"), or is a thread   *)
(* of comments or a list of its own.                                       *)
HasChildren(c) == AnyOf(c, {"grid", "other_child"})

(*---------------------- what generate.py writes -------------------------*)

BaseFiles == {"lib/types.ts", "docs/entity.md", "docs/page.mdx",
              "lib/getters.ts", "lib/getters_internal.ts",
              "lib/autocomplete_filter.ts", "lib/list_filter.ts"}

HookFiles(c) ==
  When("proxy" \notin c,
       {"lib/service_validation_custom.ts", "lib/service_after_create.ts",
        "lib/service_after_update.ts", "lib/service_after_delete.ts",
        "lib/service_validation_delete.ts", "lib/service_after_submit.ts"})
    \cup When("virtual" \in c, {"lib/virtual_resolvers.ts"})

ServiceFiles(c) ==
  When(Mutates(c), {"lib/service.ts"})
    \cup When(Writes(c), {"lib/service_validation.ts"})
    \cup When(Submits(c), {"lib/submit_actions.ts"})
    \cup When(Guards(c, "edit"), {"lib/edit_guard.ts"})
    \cup When(Guards(c, "delete"), {"lib/delete_guard.ts"})

InvalidateFiles(c) ==
  When("invalidate" \in c, {"api/[id]/actions/invalidate/route.ts"})
    \cup When("invalidate" \in c /\ "invalidate_module" \notin c,
              {"lib/invalidate_handler.ts"})
    \cup When(Guards(c, "invalidate"), {"lib/invalidate_guard.ts"})

ActionFiles(c) == When(Acts(c), {"lib/actions.ts"})

RouteFiles(c) ==
  {"api/options/route.ts"}
    \cup When(AnyOf(c, {"list", "new"}), {"api/route.ts"})
    \cup When(AnyOf(c, {"view", "edit", "delete"}), {"api/[id]/route.ts"})
    \cup When("view" \in c, {"api/[id]/capabilities/route.ts"})
    \cup When(Mutates(c), {"api/bulk/route.ts"})
    \cup When(All(c, {"comments", "view"}) /\ Acts(c),
              {"api/[id]/comments/route.ts",
               "api/[id]/comments/[commentId]/route.ts"})
    \cup When(All(c, {"attachable", "view", "edit"}),
              {"api/[id]/attachments/route.ts"})
    \cup When(All(c, {"list", "export"}), {"api/export/route.ts"})
    \cup When(ImportEligible(c),
              {"api/import/route.ts", "components/ImportModal.tsx"})

ApiFiles(c) == When("api" \in c, RouteFiles(c))

FormFiles(c) ==
  When("grid" \in c /\ AnyOf(c, {"view", "edit"}), {"components/column_def.tsx"})
    \cup When(Writes(c),
              {"components/FormUpsert.tsx", "lib/use_entity_form.ts",
               "components/form_validation.ts"})
    \cup When(All(c, {"inline_target", "new"}),
              {"lib/inline_create.ts", "components/InlineCreateDialog.tsx"})
    \cup When(AnyOf(c, {"new", "edit", "view"}), {"lib/use_entity_capabilities.ts"})

ViewFiles(c) ==
  When("view" \in c, {"components/FormView.tsx"})
    \cup When(All(c, {"view", "approvable"}),
              {"lib/use_entity_approval_actions.ts"})
    \cup When(All(c, {"view", "version_of"}),
              {"components/VersionFields.tsx", "components/VersionHistory.tsx"})

PageFiles(c) ==
  When("bridge_child" \in c, {"components/BridgeGrid.tsx"})
    \cup When("list" \in c /\ "no_table" \notin c, {"app/page.tsx"})
    \cup When("chart" \in c, {"lib/chart-getters.ts", "app/chart/page.tsx"})
    \cup When(AnyOf(c, {"new", "bridge_child"}), {"app/new/page.tsx"})
    \cup When("edit" \in c, {"app/edit/[id]/page.tsx"})
    \cup When("view" \in c, {"app/view/[id]/page.tsx"})

(*-------- written once for the model, under the base entity's own --------*)

SplitRoute(c) == When("splittable" \in c, {"api/[id]/actions/split/route.ts"})

(* The legacy form of x-splittable names no quantity and has no screen.    *)
SplitSection(c) ==
  When("split_quantity" \in c, {"components/SplitActionSection.tsx"})

VersionFiles(c) ==
  When("version_of" \in c, {"lib/version_of.ts", "lib/version_of_prefill.ts"})

PaymentFiles(c) == When("payment" \in c, {"lib/payment/quantity.ts"})

ExclusiveFiles(c) ==
  When("exclusive_parents" \in c, {"lib/exclusive_parents.ts"})

(* Hooks after a decision are asked for; hooks before one come with        *)
(* x-approval, and before a withdrawal with on_withdrawn.                  *)
AfterHooks(c) ==
  When("after_approve" \in c, {"lib/service_after_approve.ts"})
    \cup When("after_reject" \in c, {"lib/service_after_reject.ts"})
    \cup When("after_withdraw" \in c, {"lib/service_after_withdraw.ts"})

BeforeHooks(c) ==
  When("approval" \in c,
       {"lib/service_before_approve.ts", "lib/service_before_reject.ts"})
    \cup When("on_withdrawn" \in c, {"lib/service_before_withdraw.ts"})

TaskFiles(c) ==
  When("task" \in c,
       {"lib/service_scheduled.ts", "lib/service_scheduled_handler.ts"})

ModelFiles(c) ==
  UNION {SplitRoute(c), SplitSection(c), VersionFiles(c), PaymentFiles(c),
         ExclusiveFiles(c), AfterHooks(c), BeforeHooks(c), TaskFiles(c)}

TestFiles(c) ==
  When("test" \in c,
       {"cypress/support/helper.ts", "cypress/support/helper_custom.ts",
        "cypress/e2e/spec.cy.ts", "cypress/e2e/mobile/spec.cy.ts"}
         \cup When("api" \in c, {"cypress/e2e/api/spec.cy.ts"})
         \cup When("count_reservation" \in c,
                   {"cypress/support/reservation_gen_helper.ts",
                    "cypress/e2e/api/reservation_gen.cy.ts"}))

(*------------------------ the native screens -----------------------------*)

(* An entity has native screens when the app can draw all of it.  The      *)
(* approval and the attachment bridge count only with their sections, and  *)
(* locked or splittable rows only with the approval section; a relation    *)
(* must lead to an entity with REST routes.                                *)
NativeScreens(c) ==
  /\ All(c, {"mobile", "api", "list"})
  /\ ~AnyOf(c, {"reverse_one_to_one", "flattened", "virtual", "mention",
              "transitions", "self_only", "other_bridge", "other_child",
              "undrawable_row", "closed_target"})
  /\ "approvable" \in c <=> "approval_section" \in c
  /\ "attachable" \in c <=> "attachment_section" \in c
  /\ Submits(c) \/ "splittable" \in c => "approval_section" \in c

NativeFiles(c) ==
  {"mobile/lib/mobile_client.ts", "mobile/lib/use_entity_capabilities.ts",
   "mobile/components/List.tsx"}
    \cup When(Writes(c), {"mobile/lib/use_entity_form.ts",
                          "mobile/components/form_validation.ts",
                          "mobile/components/FormUpsert.tsx"})
    \cup When("view" \in c, {"mobile/components/FormView.tsx"})
    \cup When(All(c, {"view", "approval_section"}),
              {"mobile/lib/use_entity_approval_actions.ts"})

NativeStubs(c) ==
  When("custom_component" \in c, {"mobile/components/custom/component.tsx"})
    \cup When("custom_field" \in c, {"mobile/components/custom/fields/field.tsx"})

MobileFiles(c) ==
  When(NativeScreens(c),
       NativeFiles(c) \cup NativeStubs(c) \cup {"mobile/e2e/flow.yaml"})

EntityFiles(c) ==
  UNION {BaseFiles, HookFiles(c), ServiceFiles(c), InvalidateFiles(c),
         ActionFiles(c), ApiFiles(c), FormFiles(c), ViewFiles(c),
         PageFiles(c), When("proxy" \notin c, ModelFiles(c)), TestFiles(c),
         MobileFiles(c)}

(* Files that generate.py creates once and then leaves to the user: those  *)
(* of an entity's lib directory, and the others.                           *)
LibStubs == {"lib/autocomplete_filter.ts", "lib/list_filter.ts",
             "lib/service_validation_custom.ts", "lib/service_after_create.ts",
             "lib/service_after_update.ts", "lib/service_after_delete.ts",
             "lib/service_validation_delete.ts", "lib/service_after_submit.ts",
             "lib/virtual_resolvers.ts", "lib/invalidate_handler.ts",
             "lib/service_after_approve.ts", "lib/service_after_reject.ts",
             "lib/service_after_withdraw.ts", "lib/service_before_approve.ts",
             "lib/service_before_reject.ts", "lib/service_before_withdraw.ts",
             "lib/service_scheduled_handler.ts"}

OtherStubs == {"cypress/support/helper_custom.ts", "lib/payment/quantity.ts",
               "mobile/components/custom/component.tsx",
               "mobile/components/custom/fields/field.tsx",
               "lib/stripe.ts", "app/payment/success/page.tsx",
               "app/payment/cancel/page.tsx", "app/api/webhooks/stripe/route.ts",
               "lib/scheduled-tasks/task/service_scheduled_handler.ts"}

Stubs == LibStubs \cup OtherStubs

(* What neither a manifest cleanup nor a prune takes: generated files kept *)
(* under version control, and files written by hand where those of an      *)
(* entity of that name would be.                                           *)
Allowlist ==
  {"app/register/page.test.tsx", "app/login/page.test.tsx", "app/docs/layout.tsx",
   "cypress/support/db-helpers.ts", "cypress/support/generated-tasks.ts",
   "lib/compliance/anonymize_user.ts", "lib/db-init.ts",
   "scripts/create-gin-indexes.sql", "instrumentation.ts",
   "lib/mention/parser.ts", "lib/mention/search.ts",
   "lib/mention/recipients.ts", "lib/mention/record_org.ts",
   "lib/reaction_constants.ts", "lib/_timezone.ts",
   "lib/self_only_admin_bypass_entities.ts",
   "scripts/generated/seed-entities.ts"}

AllowlistOf(name) ==
  When(name \in {"register", "login", "setting"}, {"app/page.tsx"})
    \cup When(name = "layout", {"cypress/e2e/mobile/spec.cy.ts"})
    \cup When(name = "dashboard", {"lib/service_validation.ts"})
    \cup When(name = "audit_log",
              {"components/FormView.tsx", "app/page.tsx",
               "app/view/[id]/page.tsx", "api/route.ts", "api/[id]/route.ts",
               "lib/getters.ts", "lib/getters_internal.ts", "lib/types.ts"})

(*------------------- what cleanup.py and its peers expect ----------------*)

(* Per-entity files cleanup.py re-derives when there is no manifest.       *)
SchemaDriven(c, keepStubs) ==
  {"lib/types.ts", "lib/getters.ts", "lib/getters_internal.ts",
   "lib/chart-getters.ts", "app/chart/page.tsx", "docs/entity.md",
   "docs/page.mdx"}
    \cup When(Mutates(c), {"lib/service.ts", "lib/actions.ts"})
    \cup When(Mutates(c) /\ ~keepStubs, {"lib/service_validation.ts"})
    \cup When(Writes(c), {"components/FormUpsert.tsx"})
    \cup When(Writes(c) /\ ~keepStubs, {"components/form_validation.ts"})
    \cup When(HasChildren(c) /\ AnyOf(c, {"view", "edit"}),
              {"components/column_def.tsx"})
    \cup When("view" \in c, {"components/FormView.tsx",
                             "app/view/[id]/page.tsx"})
    \cup When("list" \in c, {"app/page.tsx"})
    \cup When("new" \in c, {"app/new/page.tsx"})
    \cup When("edit" \in c, {"app/edit/[id]/page.tsx"})
    \cup When("api" \in c, {"api/route.ts", "api/[id]/route.ts",
                            "api/bulk/route.ts"})
    \cup When("test" \in c,
              {"cypress/support/helper.ts", "cypress/e2e/spec.cy.ts",
               "cypress/e2e/mobile/spec.cy.ts",
               "cypress/support/reservation_gen_helper.ts",
               "cypress/e2e/api/reservation_gen.cy.ts"})
    \cup When(All(c, {"test", "api"}), {"cypress/e2e/api/spec.cy.ts"})

(* Schema-wide files of the fallback: those it takes whatever they hold,   *)
(* and those it takes only while they carry the generated marker.          *)
SchemaDrivenOnce(S) ==
  {"docs/index.md", "docs/openapi.json", "docs/page.mdx"}
    \cup When(\E c \in S : "test" \in c, {"cypress/support/generated-tasks.ts"})

SchemaDrivenShared ==
  {"lib/dashboard/catalog.ts", "lib/dashboard/access-scope.ts",
   "app/api/dashboard/aggregate/route.ts", "lib/attachment/bridge_actions.ts",
   "lib/attachment/access.ts", "app/api/attachments/[id]/route.ts"}

(* The files an orphan sweep takes from an entity that left the schema,    *)
(* given the files it still has.                                           *)
OrphanLib == {"lib/types.ts", "lib/getters.ts", "lib/getters_internal.ts",
              "lib/actions.ts", "lib/service.ts", "lib/chart-getters.ts"}
OrphanComponents == {"components/FormUpsert.tsx", "components/FormView.tsx",
                     "components/SplitActionSection.tsx",
                     "components/ImportModal.tsx",
                     "components/InlineCreateDialog.tsx",
                     "components/BridgeGrid.tsx"}
OrphanRoutes == {"app/page.tsx", "app/chart/page.tsx", "app/new/page.tsx",
                 "app/edit/[id]/page.tsx", "app/view/[id]/page.tsx",
                 "api/route.ts", "api/[id]/route.ts", "api/bulk/route.ts"}

(* The files that keep an entity's lib directory from being removed.       *)
LibFiles ==
  OrphanLib \cup ServiceFiles(Gates)
    \cup LibStubs
    \cup {"lib/invalidate_guard.ts", "lib/use_entity_form.ts",
          "lib/use_entity_capabilities.ts",
          "lib/use_entity_approval_actions.ts", "lib/inline_create.ts",
          "lib/version_of.ts", "lib/version_of_prefill.ts",
          "lib/exclusive_parents.ts", "lib/service_scheduled.ts"}

OrphanFiles(present, keepStubs) ==
  LET orphanLib  == AnyOf(present, {"lib/types.ts", "lib/getters.ts"})
      orphanComp == AnyOf(present, {"components/FormUpsert.tsx",
                                  "components/FormView.tsx"})
  IN  {"components/column_def.tsx", "docs/entity.md", "docs/page.mdx"}
        \cup When(orphanLib, OrphanLib)
        \cup When(orphanLib /\ ~keepStubs, {"lib/service_validation.ts"})
        \cup When(orphanComp, OrphanComponents)
        \cup When(orphanComp /\ ~keepStubs, {"components/form_validation.ts"})
        \cup When(orphanLib \/ ~AnyOf(present, LibFiles), OrphanRoutes)

(* Files an orphan sweep takes only while they carry the generated marker, *)
(* and route files it takes only while they import the entity's own lib.   *)
MarkedOrphans == {"cypress/support/helper.ts",
                  "cypress/support/reservation_gen_helper.ts",
                  "cypress/e2e/spec.cy.ts", "cypress/e2e/mobile/spec.cy.ts",
                  "cypress/e2e/api/spec.cy.ts",
                  "cypress/e2e/api/reservation_gen.cy.ts"}
====
