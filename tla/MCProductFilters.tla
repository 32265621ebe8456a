-------------------------- MODULE MCProductFilters --------------------------
(***************************************************************************)
(* An instance of ProductFilters: three products, of which one may list a  *)
(* colour twice and one may have two attributes of one label, and queries  *)
(* with one key and with several.                                          *)
(***************************************************************************)
EXTENDS ProductFilters

Attribute(k, vs) == [key |-> k, value |-> vs]

MCProducts == {"drill", "saw", "axe"}

MCValues == {"red", "blue", "Red", "m", "l", "eu:42", "42", "page", "desc"}

MCSanitized == [v \in MCValues |-> IF v = "Red" THEN "red" ELSE v]

MCAttributeLists ==
  {<<Attribute("color", <<"red">>), Attribute("size", <<"m">>)>>,
   <<Attribute("color", <<"blue">>), Attribute("size", <<"m", "l">>)>>,
   <<Attribute("color", <<"red", "blue">>), Attribute("color", <<"red">>), Attribute("size", <<"l">>)>>,
   <<Attribute("color", <<"Red">>), Attribute("price", <<"l">>)>>,
   <<Attribute("size", <<"eu:42">>), Attribute("size:eu", <<"42", "m">>), Attribute("color", <<"red">>)>>,
   << >>}

Asking(k, vs) == [j \in {k} |-> vs]

Both(one, other) == [k \in DOMAIN one \cup DOMAIN other |-> IF k \in DOMAIN one THEN one[k] ELSE other[k]]

MCQueries ==
  {<< >>,
   Asking("color", <<"Red">>),
   Both(Asking("color", <<"red", "m">>), Asking("sort", <<"desc">>)),
   Both(Asking("color", <<"red">>), Asking("size", <<"m">>)),
   Both(Asking("size", <<"l">>), Asking("color", <<"blue">>)),
   Both(Asking("size", <<"eu:42">>), Asking("color", <<"red">>)),
   Both(Asking("size:eu", <<"42">>), Asking("color", <<"blue">>)),
   Both(Asking("size", <<"red">>), Asking("page", <<"l">>)),
   Both(Asking("price", <<"l">>), Asking("limit", <<"m">>)),
   Asking("price", <<"l">>)}

=============================================================================
