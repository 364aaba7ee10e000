----------------------------- MODULE Deployments ------------------------------
(***************************************************************************)
(* LiteLLM's deployments as the console sees them, and the routing of a    *)
(* request by the group of its key.  A site stands for the api_base of its *)
(* deployments: http://<wg_ip>:<port>/v1, or the address of a Direct site. *)
(* "default" is the group of a key that is bound to none; no deployment    *)
(* carries it as a tag.                                                    *)
(***************************************************************************)
EXTENDS Naturals

CONSTANTS Sites, Names, Upstreams,
          Groups     \* without "default"

ASSUME DefaultAssumption == "default" \notin Groups

Models == [name : Names, upstream : Upstreams]

Deployments == [id : Nat, name : Names, upstream : Upstreams, site : Sites,
                tags : SUBSET Groups]

Of(s, deps) == {d \in deps : d.site = s}

TagsOf(deps) == UNION {d.tags : d \in deps}

(* _site_models_from_deps: what the site registry keeps of deployments.    *)
ModelsOf(deps) == {[name |-> d.name, upstream |-> d.upstream] : d \in deps}

(* The hook of group_routing.py and LiteLLM's tag filter: a key of a group *)
(* is routed to deployments with its tag, an unbound one to all of them.   *)
Eligible(group, deps) ==
    {d \in deps : group = "default" \/ group \in d.tags}

(* What a key of the group can reach, whichever deployment serves it.      *)
Reach(group, deps) ==
    {[name |-> d.name, upstream |-> d.upstream, site |-> d.site] :
        d \in Eligible(group, deps)}

(* Every site has its deployments in the same groups.                      *)
Uniform(deps) == \A d, e \in deps : d.site = e.site => d.tags = e.tags
===============================================================================
