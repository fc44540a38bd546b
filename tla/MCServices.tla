----------------------------- MODULE MCServices -----------------------------
(***************************************************************************)
(* The services around the core.  They share no state that matters to      *)
(* their properties, so a behaviour looks at one of them and spends its    *)
(* bounds in one way, the `focus`.                                         *)
(***************************************************************************)
EXTENDS AuditExport, Forecasts

VARIABLE focus

servicesVars == <<auditVars, forecastVars, focus>>

\* The kit is looked at with the export disabled: it is made for a destination, and
\* two kits under two policies are enough to mistake one for the other.
KitFocus ==
    /\ Len(kits') <= 2
    /\ export_policy' # export_policy => Len(kits) # 1
    /\ kits # << >> => export_policy.dest # Nowhere

AuditStep ==
    /\ \/ focus = "export" /\ ExportNext /\ latest' <= 3 /\ UNCHANGED kitVars
       \/ /\ focus = "kit"
          /\ KitNext \/ \E d \in Destinations \ {export_policy.dest} : update_export_policy(FALSE, d, FALSE)
          /\ KitFocus
    /\ UNCHANGED forecastVars

\* The lane on one day with two schedules, and over two days with one, whose reviews are
\* decided; runs that are not ready suffice.  The registry without schedules.
ForecastStep ==
    /\ \/ /\ focus \in {"lane", "days"} /\ LaneNext
          /\ forecasts' # forecasts => ~forecasts'[Len(forecasts')].ready
          /\ focus = "lane" => today' = 1 /\ owner_allowed' /\ \A r \in reviews' : r.state = "pending"
          /\ focus = "days" => Cardinality({s \in Schedules : schedules'[s] # NoSchedule}) <= 1
       \/ focus = "registry" /\ RegistryNext
    /\ UNCHANGED auditVars

ServicesInit ==
    /\ AuditInit /\ ops_policy = CHOOSE p \in OpsPolicies : TRUE
    /\ ForecastsInit
    /\ focus \in {"export", "kit", "lane", "days", "registry"}

ServicesNext == (AuditStep \/ ForecastStep) /\ UNCHANGED focus

ServicesSpec == ServicesInit /\ [][ServicesNext]_servicesVars /\ AuditFairness /\ ForecastFairness
=============================================================================
