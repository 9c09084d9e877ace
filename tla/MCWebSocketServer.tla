-------------------------- MODULE MCWebSocketServer --------------------------
(* Values of the constants of WebSocketServer for model checking. *)
EXTENDS WebSocketServer

NullSocket   == 0
TwoSockets   == {1, 2}
ThreeSockets == {1, 2, 3}

\* Two games and two tokens whose keys coincide: "a" + "bc" and "ab" + "c"
OneGame     == {<<"a">>}
TwoGames    == {<<"a">>, <<"a", "b">>}
OneToken    == {<<"c">>}
TwoTokens   == {<<"c">>, <<"b", "c">>}
LoginToken  == {<<"j", ".", "w">>}
UserToken   == {<<"steam", ":", "u">>}
LoginTokens == OneToken \cup LoginToken \cup UserToken
None        == {}

\* Without logins no guard and no property but TypeOK reads the records of attempts that
\* are over, or that the client has given up: states that differ only there are one
AllButOver ==
  <<[s \in Socket |-> IF sockets[s].state \in {"aborted", "closed"}
                      THEN [NewSocket(s) EXCEPT !.state = sockets[s].state] ELSE sockets[s]],
    server, authentication_queue, verifying, deferred, game, db_peers, undefined, TypeOK>>
=============================================================================
