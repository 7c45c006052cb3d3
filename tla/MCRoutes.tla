-------------------------------- MODULE MCRoutes --------------------------------
(* Rules of every shape the table tells apart, in documents of two and three *)
(* and requests of up to three segments.                                     *)
EXTENDS Routes, TLC

CONSTANTS profile, PROFILE, profilePort, home, elsewhere,
          GET, get, POST, PUT,
          alpha, beta, other, x, y

MCLower == [h \in Hosts |-> IF h = PROFILE THEN profile ELSE h]
MCBare  == [h \in Hosts |-> IF h = profilePort THEN profile ELSE h]
MCUpper == [m \in Methods |-> IF m = get THEN GET ELSE m]

On(hosts, methods, path) == [hosts |-> hosts, methods |-> methods, path |-> path]
Anywhere(path) == On({}, {}, path)

Paths ==
  {<<Blank>>, <<Star>>, <<Star, Blank>>, <<alpha>>, <<alpha, Blank>>, <<x>>,
   <<alpha, Star>>, <<x, Star>>, <<alpha, beta>>, <<alpha, x>>,
   <<x, beta>>, <<x, y>>,
   <<alpha, x, Star>>, <<x, beta, Star>>, <<x, beta, x>>}

Malformed ==
  {<<Empty>>, <<alpha, Broken>>, <<Star, alpha>>, <<alpha, Star, Blank, Blank>>}

Scopes ==
  {<<{profile}, {}>>, <<{PROFILE, home}, {}>>, <<{}, {GET}>>,
   <<{}, {get, POST}>>, <<{}, {POST}>>, <<{home}, {GET}>>}

Scoped == {On(s[1], s[2], path) :
             s \in Scopes, path \in {<<alpha>>, <<alpha, Star>>}}

Pool == {Anywhere(path) : path \in Paths} \cup Scoped

Devices == {Anywhere(<<alpha, x, y>>), Anywhere(<<alpha, x, beta>>),
            Anywhere(<<alpha, Star>>),
            On({}, {GET}, <<alpha, x, y>>), On({}, {POST}, <<alpha, x, beta>>)}

MCDocuments ==
  {<<p, q>> : p, q \in Pool}
  \cup {<<p, Anywhere(path)>> : p \in {Anywhere(<<alpha>>)}, path \in Malformed}
  \cup {<<p, q, r>> : p, q, r \in Devices}

RequestPaths ==
  Parts \cup {<<Blank, alpha>>, <<Blank, alpha, Blank, beta>>,
              <<alpha, Query, beta>>}

MCRequests ==
  [host : {PROFILE, home, elsewhere}, method : {get, POST, PUT},
   path : RequestPaths]
  \cup [host : {profilePort}, method : {get}, path : {<<alpha>>, <<alpha, beta>>}]
=============================================================================
