-------------------------------- MODULE Demos --------------------------------
(***************************************************************************)
(* The main menu and the demos that have no module of their own runs, on   *)
(* one main thread. The user finds a demo in the menu and plays with it. A *)
(* behaviour plays one demo, but for the pipe demo, which may be played    *)
(* beside the task of the descriptor limit.                                *)
(***************************************************************************)
EXTENDS MainMenu, MaxFileDescriptor, DataBinding, ListViewDemo, RecyclerView,
        TrainingFragments

demosVars == <<menuVars, fdVars, dbVars, lvVars, rvVars, trVars>>

DemosInit ==
  /\ MenuInit /\ FdInit /\ DataBindingInit /\ ListViewInit
  /\ RecyclerInit /\ TrainingInit

PipeDemoLabel == <<"Os", "PipeDemo">>
MaxFileDescriptorLabel == <<"Os", "MaxFileDescriptor">>
DataBindingLabel == <<"App", "DataBinding">>
ListViewLabel == <<"App", "List View Demo">>
FragmentLabel == <<"App", "Fragment">>
RecyclerViewLabel == <<"SupportLibrary", "RecyclerView">>

ModelledDemos ==
  {PipeDemoLabel, MaxFileDescriptorLabel, DataBindingLabel, ListViewLabel, FragmentLabel,
   RecyclerViewLabel}

\* A demo that is not modelled here is looked at and left.
Navigate ==
  /\ demo \notin ModelledDemos
  /\ MenuNext
  /\ UNCHANGED <<fdVars, dbVars, lvVars, rvVars, trVars>>

PlayPipe ==
  /\ demo = PipeDemoLabel /\ PipeNext
  /\ UNCHANGED <<menuVars, taskVars, dbVars, lvVars, rvVars, trVars>>

\* Its task runs on when the user goes to the pipe demo from here.
PlayDescriptors ==
  /\ demo = MaxFileDescriptorLabel /\ FdNext
  /\ UNCHANGED <<menuVars, dbVars, lvVars, rvVars, trVars>>

PlayDataBinding ==
  /\ demo = DataBindingLabel /\ DataBindingNext
  /\ UNCHANGED <<menuVars, fdVars, lvVars, rvVars, trVars>>

PlayListView ==
  /\ demo = ListViewLabel /\ ListViewNext
  /\ UNCHANGED <<menuVars, fdVars, dbVars, rvVars, trVars>>

PlayRecyclerView ==
  /\ demo = RecyclerViewLabel /\ RecyclerNext
  /\ UNCHANGED <<menuVars, fdVars, dbVars, lvVars, trVars>>

PlayFragments ==
  /\ demo = FragmentLabel /\ TrainingNext
  /\ UNCHANGED <<menuVars, fdVars, dbVars, lvVars, rvVars>>

DemosNext ==
  \/ Navigate \/ PlayPipe \/ PlayDescriptors \/ PlayDataBinding \/ PlayListView
  \/ PlayRecyclerView \/ PlayFragments

DemosSpec == DemosInit /\ [][DemosNext]_demosVars

\* The user owes nothing; threads, processes and the main loop run on.
DemosFairSpec == DemosSpec /\ FdFair /\ DataBindingFair /\ ListViewFair

-----------------------------------------------------------------------------
\* The user is never lost: from every menu the demos below it can be reached, and
\* in the demo with a stack of its own the title tells what is on top of it.
NavigationIsRight == MenuTypeOK /\ LeadsToEveryDemo /\ TrainingTypeOK /\ TitleIsRight

\* Whatever a demo starts in the background comes to its end and to the screen:
\* the call that reads a pipe, the task that fills the table, the threads that
\* change users, the log requests of an activity that was left.
EverythingSettles == ReadReturns /\ TaskEnds /\ ScreenSettles /\ LogsEnd
=============================================================================
