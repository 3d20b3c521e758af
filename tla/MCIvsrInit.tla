------------------------------ MODULE MCIvsrInit -------------------------------
(* Model files, devices and values for the model checker. *)
EXTENDS IvsrInit

Model(rank, frames, static, recurrent) ==
    [regular |-> TRUE, rank |-> rank, named |-> FALSE, static |-> static,
     recurrent |-> recurrent, frames |-> frames, height |-> 4, width |-> 6, factor |-> 2]

\* A fixed EDSR, a BasicVSR with its five inputs and free size, a path without a
\* file, and a model whose dimensions are not those of an image.
MCModels == {Model(4, 0, TRUE, FALSE), Model(5, 3, FALSE, TRUE),
             [Model(4, 0, TRUE, FALSE) EXCEPT !.regular = FALSE],
             Model(2, 0, TRUE, FALSE)}

MCDevices == {[target |-> "", members |-> <<"CPU">>],
              [target |-> "", members |-> <<"GPU">>],
              [target |-> "MULTI", members |-> <<"GPU.0", "GPU.1">>],
              [target |-> "MULTI", members |-> <<"GPU", "GPU.1">>],
              [target |-> "AUTO", members |-> <<"GPU", "CPU">>]}

\* "6,4", "6,x", "x"
MCResolutions == {<<6, 4>>, <<6, -1>>, <<-1>>}
\* "1,8,12", "1,8"
MCShapes == {<<1, 8, 12>>, <<1, 8>>}
MCGarbage == {0, 7}
================================================================================
