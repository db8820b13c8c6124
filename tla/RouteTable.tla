----------------------------- MODULE RouteTable -----------------------------
(***************************************************************************)
(* The routes build_router registers (src/server/connection.rs), for every *)
(* configuration: the UI routes need the template engine, the catch-all    *)
(* needs an upstream to proxy to.  Only the registrations are here: what   *)
(* the handlers do is in other modules.                                    *)
(***************************************************************************)
EXTENDS Router

L(s) == Literal(s)

Root == Route("GET", <<>>)
Health == Route("GET", <<L("health")>>)
Echo == Route("GET", <<L("echo"), Param("message")>>)
Fib == Route("GET", <<L("fib"), Param("n")>>)
StaticFile == Route("GET", <<L("static"), Wildcard("filepath")>>)
AuthToken == Route("POST", <<L("auth"), L("token")>>)
ListItems == Route("GET", <<L("api"), L("items")>>)

(* Variant: the public item is registered with a greedy capture.           *)
GetItemGreedy == Route("GET", <<L("api"), L("items"), Wildcard("id")>>)

GetItem == Route("GET", <<L("api"), L("items"), Param("id")>>)
CreateItem == Route("POST", <<L("api"), L("admin"), L("items")>>)
DeleteItem == Route("DELETE", <<L("api"), L("admin"), L("items"), Param("id")>>)
Ui == Route("GET", <<L("ui")>>)
UiIndex == Route("GET", <<L("ui"), L("index")>>)
UiLoginForm == Route("GET", <<L("ui"), L("login")>>)
UiLogin == Route("POST", <<L("ui"), L("login")>>)
UiLogout == Route("POST", <<L("ui"), L("logout")>>)
UiItems == Route("GET", <<L("ui"), L("items")>>)
UiCreate == Route("POST", <<L("ui"), L("items")>>)
UiDelete == Route("POST", <<L("ui"), L("items"), Param("id"), L("delete")>>)
UiMetrics == Route("GET", <<L("ui"), L("metrics")>>)
MetricsText == Route("GET", <<L("metrics")>>)
Proxy == Route("*", <<Wildcard("path")>>)

BuildRouter(tmpl, proxy) ==
  <<Root, Health, Echo, Fib, StaticFile,
    AuthToken, ListItems, GetItem, CreateItem, DeleteItem>>
  \o (IF tmpl THEN <<Ui, UiIndex, UiLoginForm, UiLogin, UiLogout, UiItems,
                     UiCreate, UiDelete, UiMetrics>>
              ELSE <<>>)
  \o <<MetricsText>>
  \o (IF proxy THEN <<Proxy>> ELSE <<>>)

Registered == {BuildRouter(tmpl, proxy) : tmpl, proxy \in BOOLEAN}

(* The routes build_router registers do not depend on their order, but for *)
(* the proxy's: a request a local route serves matches no other local one, *)
(* and "all specific local routes above take precedence" over the proxy.   *)
LocalRoutesDisjoint ==
  routes \in Registered /\ response.status = "handled" =>
    ~ \E n \in 1..Len(routes) \ {response.route} :
        /\ Means(routes[n].segments, Segs)
        /\ routes[n].method = request.method
==============================================================================
