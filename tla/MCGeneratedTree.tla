---- MODULE MCGeneratedTree ----
(* Small instances of GeneratedTree: one entity whose gates change and one *)
(* that leaves the schema.  A generation begins by building and judging    *)
(* the schema: what SchemaExamples states of that is evaluated here.       *)
EXTENDS GeneratedTree, SchemaExamples

Plain == {"list", "view", "new", "edit"}

(* A listed entity with invalidation, sold in a mobile app, to whose       *)
(* comments users react; then its handler's column appears, its link moves *)
(* to a group, nothing is sold any more and reactions are off; then a      *)
(* read-only view, searched, whose children are gone, without an app and   *)
(* beside nothing.  The reaction constants are a protected file.           *)
App     == {"mobile", "api"}
Before  == Plain \cup App \cup {"invalidate", "grid", "payment", "reactions"}
After   == Plain \cup App \cup {"invalidate", "invalidated_at", "nav"}
Reduced == {"list", "view", "search"}
Proxy   == {"list", "view", "proxy"}
Moved   == {"list", "view", "proxy", "nav"}

Names == <<"order", "setting">>

TwoEntities == {<<Before, Proxy>>, <<After, Moved>>, <<Reduced, Gone>>}
====
