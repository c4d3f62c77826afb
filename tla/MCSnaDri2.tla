----------------------------- MODULE MCSnaDri2 ------------------------------
EXTENDS SnaDri2
CONSTANTS c1, w1
Own == {<<c1, w1>>}
SwapWorlds == {{"off", "fail", "gone", "wait"}, {"restack", "gone", "destroy", "hidden"},
               {"restack", "wait"}, {"present"}, {"decouple", "fail", "gone"}}
StrandWorlds == {{"restack", "off"}}
=============================================================================
