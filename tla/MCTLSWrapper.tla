---------------------------- MODULE MCTLSWrapper ----------------------------
(***************************************************************************)
(* An instance of TLSWrapper for TLC: reports that name an API after its   *)
(* service, or with a slash in front, two API infos, one of which names no *)
(* identity type, and every request that tells them apart.                 *)
(***************************************************************************)
EXTENDS TLSWrapper, TLC

TwoPaths == {<<"company", "user">>, <<"", "user">>}

TwoInfos ==
  {[methods |-> {"GET"}, types |-> {}],
   [methods |-> {"GET", "POST"}, types |-> {"unauthorized", "rpc", "jwt"}]}

\* Without a type there is no value.
Authorizations ==
  {<<"", "none">>} \cup (IdentityTypes \ {""}) \X {"none", "good", "bad"}

Ask(t, p, m, z, abs, nam) ==
  [target |-> t, path |-> p, method |-> m, type |-> z[1], value |-> z[2],
   absolute |-> abs, named |-> nam]

\* What ends before the map is looked at needs one request of its kind only, and
\* the path with the service is asked for through the wrapper.
SomeRequests ==
  {Ask("both", <<"", "user">>, m, z, TRUE, TRUE) :
     m \in {"GET", "POST"}, z \in Authorizations}
  \cup {Ask(t, <<"", "user">>, "GET", <<"rpc", "good">>, FALSE, n) :
          t \in {"both", "noDeploy", "noService"}, n \in BOOLEAN}

SomeAppRequests ==
  {[deploy |-> d, service |-> s, path |-> <<"user">>, method |-> "POST",
    type |-> z[1], value |-> z[2]] :
     d \in {"hdu"}, s \in {"company"},
     z \in {<<"", "none">>, <<"rpc", "good">>, <<"rpc", "none">>,
            <<"jwt", "bad">>}}
  \cup {[deploy |-> d, service |-> s, path |-> <<"user">>, method |-> "GET",
         type |-> "", value |-> "none"] :
          d \in {"hdu", ""}, s \in {"company", ""}}

Symmetry == Permutations(Reports)

=============================================================================
