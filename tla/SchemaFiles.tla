---- MODULE SchemaFiles ----
(***************************************************************************)
(* The files generate.py writes once for the whole schema, and those it    *)
(* removes when the schema no longer needs them.  S is the set of the      *)
(* configurations of the entities that are in the schema.                  *)
(***************************************************************************)
EXTENDS GeneratedFiles

Declares(S, gate) == \E c \in S : gate \in c
Native(S) == {c \in S : NativeScreens(c)}

(* Entity tasks and bulk tasks run under one scheduler.                    *)
Scheduled(S) == Declares(S, "task") \/ Declares(S, "bulk_task")

(*----------------------------- the web app -------------------------------*)

DashboardFiles(S) ==
  {"lib/dashboard/catalog.ts", "lib/dashboard/access-scope.ts"}
    \cup When(Declares(S, "reporting"), {"app/api/dashboard/aggregate/route.ts"})

AttachmentFiles(S) ==
  {"lib/attachment/access.ts", "lib/attachment/bridge_actions.ts",
   "app/api/attachments/[id]/route.ts", "app/api/upload/route.ts"}
    \cup When(Declares(S, "direct_attachment"),
              {"lib/attachment/direct_actions.ts",
               "app/api/attachment/direct/route.ts"})

(* The transition table is written for the entities that import it.        *)
ConstantFiles(S) ==
  {"lib/_timezone.ts", "lib/self_only_admin_bypass_entities.ts"}
    \cup When(Declares(S, "reactions"), {"lib/reaction_constants.ts"})
    \cup When(\E c \in S : All(c, {"transitions", "edit"}),
              {"lib/state_transitions.ts"})

PrivacyFiles(S) ==
  When(Declares(S, "pii"), {"lib/compliance/anonymize_user.ts"})

MentionFiles(S) ==
  When(Declares(S, "mention"),
       {"lib/mention/parser.ts", "lib/mention/search.ts",
        "lib/mention/recipients.ts", "lib/mention/record_org.ts",
        "app/api/mention/users/route.ts"})

(* The SDK, the return pages and the webhook route are written once.       *)
CheckoutFiles(S) ==
  When(Declares(S, "payment"),
       {"lib/stripe.ts", "app/payment/success/page.tsx",
        "app/payment/cancel/page.tsx", "app/api/webhooks/stripe/route.ts",
        "lib/payment/payment_source.ts", "lib/payment/checkout.ts",
        "lib/payment/stripe_client.ts", "lib/payment/fake_stripe.ts",
        "lib/payment/payment_webhook_dispatch.ts"})

AuditFiles(S) ==
  When(Declares(S, "audit_storage"),
       {"lib/audit-log-ops/storage-factory.ts", "lib/audit-log-ops/jobs.ts"})

CommentFiles(S) ==
  When(Declares(S, "reactions"),
       {"lib/comment/service.ts", "lib/reaction/service.ts",
        "app/api/comment/[commentId]/reactions/toggle/route.ts"})

(* The dispatchers are there whatever the schema declares, so that the     *)
(* approval actions may import them.                                       *)
DispatchFiles ==
  {"lib/approval_request/on_approved_dispatch.ts",
   "lib/approval_request/on_rejected_dispatch.ts",
   "lib/approval_request/on_withdrawn_dispatch.ts",
   "lib/approval_request/on_before_approve_dispatch.ts",
   "lib/approval_request/on_before_reject_dispatch.ts",
   "lib/approval_request/on_before_withdraw_dispatch.ts",
   "lib/approval_request/resolve_target.ts"}

BulkTaskFiles(S) ==
  When(Declares(S, "bulk_task"),
       {"lib/scheduled-tasks/task/service_scheduled.ts",
        "lib/scheduled-tasks/task/service_scheduled_handler.ts"})

TaskAdminFiles ==
  {"lib/scheduled-tasks/admin.ts", "app/scheduled_task_run/actions.ts",
   "app/scheduled_task_run/page.tsx",
   "components/scheduled_task_run/ScheduledTaskRunTable.tsx",
   "app/api/scheduled-task-runs/route.ts",
   "app/api/scheduled-task-runs/[task]/[action]/route.ts"}

SchedulerFiles(S) ==
  {"lib/scheduled-tasks/registry.ts", "lib/scheduled-tasks/run-guard.ts",
   "lib/scheduled-tasks/dependencies.ts",
   "app/api/scheduled-tasks/[task]/route.ts"}
    \cup When(Scheduled(S), TaskAdminFiles)

SearchRoutes == {"lib/search/helpers.ts", "app/api/search/route.ts",
                 "app/search/page.tsx", "app/search/actions.ts"}

SearchFiles(S) == When(Declares(S, "search"), SearchRoutes)

(* Trigram indexes serve the search and the list filters alike.            *)
Indexed(S) == Declares(S, "search") \/ Declares(S, "trigram")

IndexFiles(S) ==
  When(Indexed(S), {"scripts/create-gin-indexes.sql", "lib/db-init.ts",
                    "instrumentation.ts"})

(* What is no longer searched or indexed is unlinked, whatever it holds;   *)
(* lib/db-init.ts stays.                                                   *)
StaleSearchFiles(S) ==
  When(~Declares(S, "search"), SearchRoutes)
    \cup When(~Indexed(S), {"scripts/create-gin-indexes.sql",
                            "instrumentation.ts"})

DocumentFiles == {"docs/index.md", "docs/page.mdx", "docs/openapi.json"}

TestSupportFiles(S) ==
  {"cypress/support/generated-tasks.ts", "cypress/support/db-helpers.ts",
   "scripts/generated/seed-entities.ts"}
    \cup When(Declares(S, "test"), {"cypress/e2e/api/_filter_sort_matrix_gen.cy.ts"})

ContainerFiles(S) ==
  When(Declares(S, "gcp") \/ Scheduled(S), {"Dockerfile", ".dockerignore"})

(*---------------------------- the mobile app -----------------------------*)

(* The project itself, stood for by one file of each of its directories.   *)
MobileProject ==
  {"mobile/package.json", "mobile/lib/nav.ts", "mobile/app/_layout.tsx",
   "mobile/components/native/FieldInput.tsx",
   "mobile/components/audit_log/List.tsx", "mobile/MOBILE_ENTITIES.md",
   "mobile/lib/_list_query.ts", "mobile/lib/_date_value.ts",
   "mobile/lib/_timezone.ts", "mobile/lib/entity-registry.ts",
   "mobile/lib/messages.ts"}

PaysOnCreate(S) == \E c \in Native(S) : All(c, {"payment", "new"})
AttachesDirectly(S) == Declares(Native(S), "direct_attachment")
AttachesByBridge(S) == \E c \in Native(S) : All(c, {"attachment_section", "view"})
Customises(S) ==
  Declares(Native(S), "custom_component") \/ Declares(Native(S), "custom_field")

(* The files that come and go with a feature: when it is needed, which.    *)
MobileFeatures(S) ==
  {<<Declares(S, "search"), {"mobile/app/search.tsx"}>>,
   <<PaysOnCreate(S), {"mobile/lib/checkout.ts"}>>,
   <<AttachesDirectly(S) \/ AttachesByBridge(S), {"mobile/lib/attachment-http.ts"}>>,
   <<AttachesDirectly(S), {"mobile/components/native/AttachmentInput.tsx"}>>,
   <<AttachesByBridge(S), {"mobile/components/native/AttachmentList.tsx"}>>,
   <<Customises(S), {"mobile/lib/custom-component.ts"}>>,
   <<Scheduled(S), {"mobile/lib/scheduled_task_run/mobile_client.ts",
                    "mobile/components/scheduled_task_run/List.tsx"}>>}

FeatureFiles(S, needed) ==
  UNION {f[2] : f \in {g \in MobileFeatures(S) : g[1] = needed}}

(* Comment threads, approvals and flows are written when some screen needs *)
(* them, and left where they are when none does any more.                  *)
CommentScreens(S) ==
  When(\E c \in Native(S) : All(c, {"comments", "view"}),
       {"mobile/lib/comment-http.ts", "mobile/lib/comment-composer.ts",
        "mobile/components/native/CommentThread.tsx"})

ApprovalScreens(S) ==
  When(\E c \in Native(S) : All(c, {"approval_section", "view"}),
       {"mobile/lib/approval_request/submit_predicate.ts"})

MobileFlows(S) ==
  When(Native(S) # {}, {"mobile/e2e/generated/maestro/subflows/sign_in.yaml"})

AppFiles(S) ==
  When(Declares(S, "mobile"),
       UNION {MobileProject, FeatureFiles(S, TRUE), CommentScreens(S),
              ApprovalScreens(S), MobileFlows(S)})

StaleMobileFiles(S) == When(Declares(S, "mobile"), FeatureFiles(S, FALSE))

(*------------------------------- together --------------------------------*)

SharedFiles(S) ==
  UNION {DashboardFiles(S), AttachmentFiles(S), ConstantFiles(S),
         PrivacyFiles(S), MentionFiles(S), CheckoutFiles(S), AuditFiles(S),
         CommentFiles(S), DispatchFiles, BulkTaskFiles(S), SchedulerFiles(S),
         SearchFiles(S), IndexFiles(S), DocumentFiles, TestSupportFiles(S),
         ContainerFiles(S), AppFiles(S)}

StaleFiles(S) == StaleSearchFiles(S) \cup StaleMobileFiles(S)
====
