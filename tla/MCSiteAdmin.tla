----------------------------- MODULE MCSiteAdmin ------------------------------
(***************************************************************************)
(* Instances of SiteAdmin for TLC: one site reached through the tunnel,    *)
(* one Direct site, one public model name served by two upstream models.   *)
(***************************************************************************)
EXTENDS SiteAdmin, TLC

CONSTANTS a, b, m, n, u, v, home, family, k1, k2, e1, r1, r2

Model(name, upstream) == [name |-> name, upstream |-> upstream]

Dep(id, name, upstream, site, tags) ==
    [id |-> id, name |-> name, upstream |-> upstream, site |-> site, tags |-> tags]

(* One site without models; one or both of them in a group.                *)
TestPortals == {{}, {Dep(1, m, u, a, {home})},
            {Dep(1, m, u, a, {home}), Dep(2, m, u, b, {home})}}

OnePortal == {{Dep(1, m, u, a, {home})}}

(* Edits of one site.                                                      *)
SiteJobs == [op : {"groups"}, site : {a}, groups : {{}, {home}}]
       \cup [op : {"add", "refresh"}, site : {a}, model : {Model(m, v)}]
       \cup [op : {"remove"}, site : {a}, name : {m}]

GroupJobs == [op : {"create"}, group : {home}, members : {{a}}]
        \cup [op : {"delete"}, group : {home}]
        \cup [op : {"rename"}, group : {home}, to : {family}]
        \cup [op : {"bind"}, entry : Entries, groups : {{home}}]

DirectJobs == [op : {"direct"}, site : {b}, groups : {{home}},
               models : {{Model(m, u), Model(n, u)}, {Model(m, u), Model(m, v)}}]

AliasJobs == {[op |-> "alias", alias |-> n, target |-> m]}

SerialJobs == SiteJobs \cup GroupJobs \cup DirectJobs
AllGroups  == GroupJobs \cup {j \in SiteJobs : j.op \in {"groups"}}
RaceJobs   == {j \in SiteJobs : j.op \in {"add", "refresh", "remove"}}
         \cup {j \in GroupJobs : j.op \in {"rename"}} \cup AliasJobs

KeySymmetry     == Permutations(Keys)
RequestSymmetry == Permutations(Requests)
===============================================================================
